--------------------------- MODULE StoreRaceProofs ---------------------------
(***************************************************************************)
(* Theorems about handlers that interleave call by call on one stored      *)
(* case, for any plan, any instants and any number of requests and         *)
(* restarts.                                                               *)
(***************************************************************************)
EXTENDS StoreRace, FiniteSetTheorems, SequenceTheorems, WellFoundedInduction, TLAPS

(* What a handler may still have to call.                                  *)
SendRest == {<<"send", "executed", "count">>, <<"executed", "count">>, <<"count">>}
TickRest ==
  SendRest \cup
  {<<>>, <<"supersede">>, <<"blocked">>,
   <<"send", "timeout">>, <<"timeout">>, <<"raise">>,
   <<"notice", "deferred">>, <<"deferred">>,
   <<"notice", "deferred", "scheduled">>, <<"deferred", "scheduled">>, <<"scheduled">>}
RequestRest ==
  {<<>>, <<"optout", "close", "supersede", "answer">>, <<"close", "supersede", "answer">>,
   <<"supersede", "answer">>, <<"answer">>, <<"recover", "supersede">>, <<"supersede">>,
   <<"approve">>, <<"touch">>, <<"close", "supersede">>, <<"promise", "supersede">>,
   <<"plan">>}

ActionState ==
  {"none", "scheduled", "executed", "deferred", "blocked", "superseded"}

TodoOK ==
  /\ todo \in [Handler -> TickRest \cup RequestRest]
  /\ todo["tick"] \in TickRest
  /\ todo["worker"] \in RequestRest /\ todo["loop"] \in RequestRest

RaceTypeOK ==
  /\ now \in TimePoints /\ tickAt \in TimePoints
  /\ doc \in CaseFields /\ mine \in [Handler -> CaseFields] /\ seen = mine
  /\ status \in [ActionId -> ActionState]
  /\ TodoOK
  /\ list \subseteq ActionId /\ current \in ActionId
  /\ requests \in Nat /\ epoch \in Nat
  /\ sends \in [ActionId -> Nat] /\ unanswered \in [ActionId -> Nat]
  /\ {lost, stopped, heard, defied} \subseteq BOOLEAN

(* An action the tick has sent is not one it will take up again: it has    *)
(* been saved as executed, or is about to be, or the call has been placed  *)
(* and the exception that will be counted is on its way.                   *)
SendInv ==
  /\ todo["tick"] # <<>> => current \notin list
  /\ \A a \in ActionId :
       /\ sends[a] <= 1 + epoch + unanswered[a]
       /\ sends[a] = 1 + epoch + unanswered[a] =>
            /\ a \notin list
            /\ \/ status[a] = "executed" /\ (current = a => todo["tick"] \in {<<>>, <<"count">>})
               \/ current = a /\ todo["tick"] \in {<<"executed", "count">>, <<"timeout">>}

(* What a handler knows of its copy at each of its calls.                  *)
CopyOK(h) ==
  /\ mine[h].status # "absent" /\ IsFiniteSet(mine[h].attempts)
  /\ todo[h] = <<"close", "supersede", "answer">> => mine[h].optedOut
  /\ todo[h] = <<"close", "supersede">> => mine[h].status \in Active
  /\ todo[h] = <<"recover", "supersede">> => mine[h].status # "recovered"
  /\ todo[h] \in {<<"supersede", "answer">>, <<"answer">>} =>
       mine[h].optedOut /\ mine[h].status \in Closed

Copies ==
  /\ doc.status # "absent" /\ IsFiniteSet(doc.attempts)
  /\ \A h \in Handler : CopyOK(h)
  /\ todo["tick"] \in SendRest =>
       Gate(mine["tick"], current, tickAt).decision = "execute"

(* While no update is lost, no copy is ahead of the stored document.       *)
Behind(d, e) ==
  /\ d.optedOut => e.optedOut
  /\ d.status \in Closed => e.status \in Closed

StopInv ==
  ~lost =>
    /\ ~defied
    /\ stopped => doc.optedOut /\ doc.status \in Closed
    /\ \A h \in Handler : Behind(mine[h], doc)
    /\ heard => todo["tick"] \in {<<>>, <<"supersede">>}

-----------------------------------------------------------------------------
(* The calls that are left after one is made.                              *)
LEMMA TickRestSteps ==
  ASSUME NEW s \in TickRest, s # <<>>
  PROVE  /\ Tail(s) \in TickRest
         /\ Head(s) \in {"supersede", "send", "executed", "count", "blocked", "notice",
                         "deferred", "scheduled", "timeout", "raise"}
         /\ Head(s) = "send" =>
              \/ s = <<"send", "executed", "count">> /\ Tail(s) = <<"executed", "count">>
              \/ s = <<"send", "timeout">> /\ Tail(s) = <<"timeout">>
         /\ Head(s) = "timeout" => s = <<"timeout">> /\ Tail(s) = <<>>
         /\ Head(s) = "raise" => s = <<"raise">> /\ Tail(s) = <<>>
         /\ Head(s) = "executed" => s = <<"executed", "count">> /\ Tail(s) = <<"count">>
         /\ Head(s) = "count" => s = <<"count">> /\ Tail(s) = <<>>
         /\ Head(s) = "supersede" => s = <<"supersede">>
         /\ Head(s) \notin {"send", "executed", "count"} => Tail(s) \notin SendRest
<1>1. CASE s = <<"send", "executed", "count">>
  BY <1>1 DEF TickRest, SendRest
<1>2. CASE s = <<"executed", "count">>
  BY <1>2 DEF TickRest, SendRest
<1>3. CASE s = <<"count">>
  BY <1>3 DEF TickRest, SendRest
<1>4. CASE s = <<"supersede">>
  BY <1>4 DEF TickRest, SendRest
<1>5. CASE s = <<"blocked">>
  BY <1>5 DEF TickRest, SendRest
<1>6. CASE s = <<"deferred">>
  BY <1>6 DEF TickRest, SendRest
<1>7. CASE s = <<"scheduled">>
  BY <1>7 DEF TickRest, SendRest
<1>8. CASE s = <<"notice", "deferred">>
  BY <1>8 DEF TickRest, SendRest
<1>9. CASE s = <<"notice", "deferred", "scheduled">>
  BY <1>9 DEF TickRest, SendRest
<1>10. CASE s = <<"deferred", "scheduled">>
  BY <1>10 DEF TickRest, SendRest
<1>11. CASE s = <<"send", "timeout">>
  BY <1>11 DEF TickRest, SendRest
<1>12. CASE s = <<"timeout">>
  BY <1>12 DEF TickRest, SendRest
<1>13. CASE s = <<"raise">>
  BY <1>13 DEF TickRest, SendRest
<1> QED
  BY <1>1, <1>2, <1>3, <1>4, <1>5, <1>6, <1>7, <1>8, <1>9, <1>10, <1>11, <1>12, <1>13
  DEF TickRest, SendRest

LEMMA RequestRestSteps ==
  ASSUME NEW s \in RequestRest, s # <<>>
  PROVE  /\ Tail(s) \in RequestRest
         /\ Head(s) \in {"optout", "close", "supersede", "answer", "recover", "approve",
                         "touch", "promise", "plan"}
         /\ Head(s) = "optout" => Tail(s) = <<"close", "supersede", "answer">>
         /\ Head(s) = "close" =>
              \/ s = <<"close", "supersede", "answer">> /\ Tail(s) = <<"supersede", "answer">>
              \/ s = <<"close", "supersede">> /\ Tail(s) = <<"supersede">>
         /\ Head(s) = "recover" => s = <<"recover", "supersede">> /\ Tail(s) = <<"supersede">>
         /\ Head(s) = "supersede" =>
              \/ s = <<"supersede", "answer">> /\ Tail(s) = <<"answer">>
              \/ Tail(s) = <<>>
         /\ Head(s) = "answer" => s = <<"answer">> /\ Tail(s) = <<>>
         /\ Head(s) = "promise" => Tail(s) = <<"supersede">>
         /\ Head(s) \in {"approve", "touch", "plan"} => Tail(s) = <<>>
<1>1. CASE s = <<"optout", "close", "supersede", "answer">>
  BY <1>1 DEF RequestRest
<1>2. CASE s = <<"close", "supersede", "answer">>
  BY <1>2 DEF RequestRest
<1>3. CASE s = <<"supersede", "answer">>
  BY <1>3 DEF RequestRest
<1>4. CASE s = <<"answer">>
  BY <1>4 DEF RequestRest
<1>5. CASE s = <<"recover", "supersede">>
  BY <1>5 DEF RequestRest
<1>6. CASE s = <<"supersede">>
  BY <1>6 DEF RequestRest
<1>7. CASE s = <<"approve">>
  BY <1>7 DEF RequestRest
<1>8. CASE s = <<"touch">>
  BY <1>8 DEF RequestRest
<1>9. CASE s = <<"close", "supersede">>
  BY <1>9 DEF RequestRest
<1>10. CASE s = <<"promise", "supersede">>
  BY <1>10 DEF RequestRest
<1>11. CASE s = <<"plan">>
  BY <1>11 DEF RequestRest
<1> QED
  BY <1>1, <1>2, <1>3, <1>4, <1>5, <1>6, <1>7, <1>8, <1>9, <1>10, <1>11 DEF RequestRest

(* Calls put together one part after the other.                           *)
LEMMA TwoCalls ==
  ASSUME NEW x, NEW y
  PROVE  <<x>> \o <<y>> = <<x, y>>
<1> DEFINE s == <<x>> \o <<y>>
<1>1. s \in Seq({x, y}) /\ Len(s) = 2 /\ s[1] = x /\ s[2] = y
  BY <<x>> \in Seq({x, y}), <<y>> \in Seq({x, y}), ConcatProperties
<1>2. <<x, y>> \in Seq({x, y}) /\ Len(<<x, y>>) = 2
  OBVIOUS
<1> HIDE DEF s
<1>3. \A i \in 1 .. Len(s) : s[i] = <<x, y>>[i]
  BY <1>1
<1>4. s = <<x, y>>
  BY <1>1, <1>2, <1>3, SeqEqual
<1> QED
  BY <1>4 DEF s
LEMMA ThreeCalls ==
  ASSUME NEW x, NEW y, NEW z
  PROVE  <<x, y>> \o <<z>> = <<x, y, z>>
<1> DEFINE s == <<x, y>> \o <<z>>
<1>1. s \in Seq({x, y, z}) /\ Len(s) = 3 /\ s[1] = x /\ s[2] = y /\ s[3] = z
  BY <<x, y>> \in Seq({x, y, z}), <<z>> \in Seq({x, y, z}), ConcatProperties
<1>2. <<x, y, z>> \in Seq({x, y, z}) /\ Len(<<x, y, z>>) = 3
  OBVIOUS
<1> HIDE DEF s
<1>3. \A i \in 1 .. Len(s) : s[i] = <<x, y, z>>[i]
  BY <1>1
<1>4. s = <<x, y, z>>
  BY <1>1, <1>2, <1>3, SeqEqual
<1> QED
  BY <1>4 DEF s

(* The calls of a tick after its read, and what the gate has said.         *)
LEMMA TickCallsKnown ==
  ASSUME NEW d, NEW a, NEW t, NEW calls \in TickCalls(d, a, t)
  PROVE  /\ calls \in TickRest
         /\ calls \in SendRest =>
              calls = ExecuteCalls /\ Gate(d, a, t).decision = "execute"
         /\ d.status \in Closed => calls = <<"supersede">>
<1> DEFINE g == Gate(d, a, t)
<1>1. g.decision \in {"execute", "block", "defer"}
  BY DEF Gate, Evaluate, Execute, Block, Defer
<1>2. DeferCalls(g) \in {<<"notice", "deferred">>, <<"deferred">>,
                         <<"notice", "deferred", "scheduled">>, <<"deferred", "scheduled">>}
  <2>1. CASE g.reason = "rbi_notice" /\ g.at = NoTime
    BY <2>1, TwoCalls DEF DeferCalls
  <2>2. CASE g.reason = "rbi_notice" /\ g.at # NoTime
    <3>1. DeferCalls(g) = <<"notice">> \o <<"deferred">> \o <<"scheduled">>
      BY <2>2 DEF DeferCalls
    <3>2. <<"notice">> \o <<"deferred">> = <<"notice", "deferred">>
      BY TwoCalls
    <3>3. <<"notice", "deferred">> \o <<"scheduled">> = <<"notice", "deferred", "scheduled">>
      BY ThreeCalls
    <3> QED
      BY <3>1, <3>2, <3>3
  <2>3. CASE g.reason # "rbi_notice" /\ g.at = NoTime
    BY <2>3 DEF DeferCalls
  <2>4. CASE g.reason # "rbi_notice" /\ g.at # NoTime
    BY <2>4, TwoCalls DEF DeferCalls
  <2> QED
    BY <2>1, <2>2, <2>3, <2>4
<1>3. \/ calls = <<"supersede">> /\ d.status \in Closed
      \/ /\ d.status \notin Closed
         /\ \/ calls = ExecuteCalls /\ g.decision = "execute"
            \/ calls \in {<<"blocked">>, <<"raise">>, <<"send", "timeout">>}
            \/ calls = DeferCalls(g)
  <2> HIDE DEF g
  <2>0. TickCalls(d, a, t) =
          IF d.status \in Closed THEN {<<"supersede">>}
          ELSE CASE g.decision = "execute" -> RunCalls(a)
                 [] g.decision = "block" -> {<<"blocked">>}
                 [] g.decision = "defer" -> {DeferCalls(g)}
    BY DEF TickCalls, g
  <2>1. CASE d.status \in Closed
    BY <2>0, <2>1
  <2>2. CASE d.status \notin Closed /\ g.decision = "execute"
    BY <2>0, <2>2 DEF RunCalls
  <2>3. CASE d.status \notin Closed /\ g.decision = "block"
    BY <2>0, <2>3
  <2>4. CASE d.status \notin Closed /\ g.decision = "defer"
    BY <2>0, <2>4
  <2> QED
    BY <1>1, <2>1, <2>2, <2>3, <2>4
<1>4. /\ ExecuteCalls \in TickRest /\ <<"supersede">> \in TickRest /\ <<"blocked">> \in TickRest
      /\ <<"raise">> \in TickRest /\ <<"send", "timeout">> \in TickRest
  BY DEF ExecuteCalls, TickRest, SendRest
<1>5. calls \in TickRest
  <2> HIDE DEF g
  <2>1. DeferCalls(g) \in TickRest
    BY <1>2 DEF TickRest
  <2> QED
    BY <1>3, <1>4, <2>1
<1>6. /\ <<"supersede">> \notin SendRest /\ <<"blocked">> \notin SendRest
      /\ <<"raise">> \notin SendRest /\ <<"send", "timeout">> \notin SendRest
      /\ <<"notice", "deferred">> \notin SendRest /\ <<"deferred">> \notin SendRest
      /\ <<"notice", "deferred", "scheduled">> \notin SendRest
      /\ <<"deferred", "scheduled">> \notin SendRest
  BY DEF SendRest
<1> HIDE DEF g
<1>7. calls \in SendRest => calls = ExecuteCalls /\ g.decision = "execute"
  BY <1>2, <1>3, <1>6
<1> QED
  BY <1>3, <1>5, <1>7 DEF g

(* The calls of a request, and what its read has told it.                  *)
LEMMA RequestCallsKnown ==
  ASSUME NEW d, d.status \in Active \cup Closed,
         NEW calls \in WorkerCalls(d) \cup LoopCalls(d)
  PROVE  \/ calls \in {StopCalls, <<"approve">>, <<"touch">>, <<"promise", "supersede">>,
                       <<"plan">>}
         \/ calls = <<"close", "supersede">> /\ d.status \in Active
         \/ calls = RecoverCalls /\ d.status # "recovered"
<1>1. CASE calls \in WorkerCalls(d)
  BY <1>1 DEF WorkerCalls
<1>2. CASE calls \in LoopCalls(d)
  BY <1>2 DEF LoopCalls
<1> QED
  BY <1>1, <1>2

(* A nonempty set of instants has a first one.                             *)
LEMMA StartIsAnInstant == Start \in TimePoints
<1> DEFINE less == OpToRel(<, Nat)
<1>1. IsWellFoundedOn(less, Nat)
  BY NatLessThanWellFounded
<1>2. TimePoints \subseteq Nat /\ TimePoints # {}
  BY RaceAssumption
<1>3. PICK m \in TimePoints : \A n \in TimePoints : ~(<<n, m>> \in less)
  <2> HIDE DEF less
  <2> QED
    BY <1>1, <1>2, WFMin
<1>4. \A n \in TimePoints : ~(n < m)
  BY <1>2, <1>3 DEF OpToRel
<1>5. \A n \in TimePoints : m <= n
  BY <1>2, <1>4
<1> QED
  BY <1>5 DEF Start

(* What an edit makes of a copy: it stays a document, an opt-out and a     *)
(* closure stay in it, and only "count" adds an attempt.                   *)
LEMMA EditedCopy ==
  ASSUME NEW d \in CaseFields, NEW edit \in Edits,
         now \in Nat, tickAt \in Nat
  PROVE  LET e == Edited(d, edit)
         IN  /\ e \in CaseFields
             /\ d.status # "absent" => e.status # "absent"
             /\ e.created = d.created
             /\ Behind(d, e)
             /\ e.attempts \in {d.attempts, d.attempts \cup {tickAt}}
             /\ edit # "count" => e.attempts = d.attempts
             /\ e.optedOut = (d.optedOut \/ edit = "optout")
             /\ edit \in {"approve", "promise", "notice", "touch", "optout"} =>
                  e.status = d.status
             /\ edit = "close" => e.status = "written_off"
             /\ edit = "recover" => e.status = "recovered"
             /\ edit = "count" =>
                  e.status = IF d.status = "open" THEN "scheduled" ELSE d.status
<1>1. CASE edit \in {"optout", "close", "approve"}
  BY <1>1 DEF Edited, Edits, CaseFields, Behind, Closed, Active
<1>2. CASE edit \in {"recover", "notice", "touch"}
  BY <1>2 DEF Edited, Edits, CaseFields, Behind, Closed, Active
<1>3. CASE edit = "promise"
  BY <1>3 DEF Edited, PromisedFor, Edits, CaseFields, Behind, Closed, Active
<1>4. CASE edit = "count"
  <2> DEFINE e == Edited(d, "count")
         made == IF CountsAsAttempt(Planned[current])
                 THEN d.attempts \cup {tickAt} ELSE d.attempts
         reached == IF d.status = "open" THEN "scheduled" ELSE d.status
  <2>1. e = [d EXCEPT !.attempts = made, !.status = reached]
    BY DEF Edited
  <2>2. /\ made \in SUBSET Nat /\ made \in {d.attempts, d.attempts \cup {tickAt}}
        /\ reached \in Active \cup Closed \cup {"absent"}
    BY DEF CaseFields, Active
  <2> HIDE DEF e, made
  <2>3. e \in CaseFields /\ e.attempts = made
        /\ e.created = d.created /\ e.optedOut = d.optedOut /\ e.status = reached
    BY <2>1, <2>2 DEF CaseFields
  <2> QED
    BY <1>4, <2>2, <2>3 DEF e, CaseFields, Behind, Closed
<1> QED
  BY <1>1, <1>2, <1>3, <1>4 DEF Edits

-----------------------------------------------------------------------------
LEMMA FirstInstant == TimePoints \subseteq Nat /\ Start \in Nat
  BY StartIsAnInstant, RaceAssumption

LEMMA IngestedIsACase ==
  /\ Ingested \in CaseFields /\ IsFiniteSet(Ingested.attempts)
  /\ Ingested.status = "open" /\ ~Ingested.optedOut
<1>1. IsFiniteSet({})
  BY FS_EmptySet
<1> QED
  BY <1>1, FirstInstant, RaceAssumption DEF Ingested, CaseFields, Active, Closed, NoTime

LEMMA FirstAction == ActionId = 1 .. Len(Planned) /\ 1 \in ActionId
<1>1. Planned \in Seq(ActionType \ {"check_promise"}) /\ Planned # <<>>
  BY RaceAssumption
<1> QED
  BY <1>1 DEF ActionId

LEMMA NothingToDo == <<>> \in TickRest /\ <<>> \in RequestRest /\ <<>> \notin SendRest
  BY DEF TickRest, RequestRest, SendRest

LEMMA TypedAtFirst == Init => RaceTypeOK
<1> SUFFICES ASSUME Init PROVE RaceTypeOK
  OBVIOUS
<1>1. now \in TimePoints /\ tickAt \in TimePoints
  BY StartIsAnInstant DEF Init
<1>2. doc \in CaseFields /\ mine \in [Handler -> CaseFields] /\ seen = mine
  BY IngestedIsACase DEF Init
<1>3. status \in [ActionId -> ActionState]
  BY DEF Init, ActionState
<1>4. TodoOK
  BY NothingToDo DEF Init, TodoOK, Handler
<1> QED
  BY <1>1, <1>2, <1>3, <1>4, FirstAction DEF Init, RaceTypeOK

(* One call less for one handler.                                          *)
LEMMA CallsLeft ==
  ASSUME RaceTypeOK, NEW h \in Handler, NEW names, Calls(h, names)
  PROVE  TodoOK'
<1>1. /\ todo[h] # <<>> /\ todo' = [todo EXCEPT ![h] = Tail(todo[h])]
  BY DEF Calls
<1>2. TodoOK
  BY DEF RaceTypeOK
<1>3. CASE h = "tick"
  <2>1. Tail(todo[h]) \in TickRest
    BY <1>1, <1>2, <1>3, TickRestSteps DEF TodoOK
  <2> QED
    BY <1>1, <1>2, <1>3, <2>1 DEF TodoOK, Handler
<1>4. CASE h \in {"worker", "loop"}
  <2>1. Tail(todo[h]) \in RequestRest
    BY <1>1, <1>2, <1>4, RequestRestSteps DEF TodoOK
  <2> QED
    BY <1>1, <1>2, <1>4, <2>1 DEF TodoOK, Handler
<1> QED
  BY <1>3, <1>4 DEF Handler

LEMMA RequestTyped ==
  ASSUME RaceTypeOK, doc.status # "absent", NEW h \in {"worker", "loop"}, Request(h)
  PROVE  RaceTypeOK'
<1>1. PICK calls \in WorkerCalls(doc) \cup LoopCalls(doc) : Reads(h, calls)
  BY DEF Request
<1>2. doc \in CaseFields /\ doc.status \in Active \cup Closed
  BY DEF RaceTypeOK, CaseFields
<1>3. calls \in RequestRest
  BY <1>2, RequestCallsKnown DEF RequestRest, StopCalls, RecoverCalls
<1>4. TodoOK'
  BY <1>1, <1>3 DEF RaceTypeOK, TodoOK, Reads, Handler
<1>5. mine' \in [Handler -> CaseFields] /\ seen' = mine'
  BY <1>1, <1>2 DEF RaceTypeOK, Reads, Handler
<1> QED
  BY <1>1, <1>4, <1>5 DEF RaceTypeOK, Reads, Request

LEMMA TickReadsPicks ==
  ASSUME RaceTypeOK, TickReads
  PROVE  current' \in list /\ list' = list \ {current'}
<1> DEFINE less == OpToRel(<, Nat)
<1>1. IsWellFoundedOn(less, Nat)
  BY NatLessThanWellFounded
<1>2. list \subseteq Nat /\ list # {}
  <2>1. list \subseteq ActionId
    BY DEF RaceTypeOK
  <2>2. ActionId \subseteq Nat
    BY FirstAction
  <2> QED
    BY <2>1, <2>2 DEF TickReads
<1>3. PICK m \in list : \A n \in list : ~(<<n, m>> \in less)
  <2> HIDE DEF less
  <2> QED
    BY <1>1, <1>2, WFMin
<1>4. \A n \in list : ~(n < m)
  BY <1>2, <1>3 DEF OpToRel
<1>5. \A n \in list : m <= n
  BY <1>2, <1>4
<1> QED
  BY <1>5 DEF TickReads

LEMMA TickReadsTyped == ASSUME RaceTypeOK, TickReads PROVE RaceTypeOK'
<1>1. PICK calls \in TickCalls(doc, current', tickAt) : Reads("tick", calls)
  BY DEF TickReads
<1>2. calls \in TickRest
  BY <1>1, TickCallsKnown
<1>3. TodoOK'
  BY <1>1, <1>2 DEF RaceTypeOK, TodoOK, Reads, Handler
<1>4. mine' \in [Handler -> CaseFields] /\ seen' = mine'
  BY <1>1 DEF RaceTypeOK, Reads, Handler
<1>5. current' \in ActionId /\ list' \subseteq ActionId
  BY TickReadsPicks DEF RaceTypeOK
<1> QED
  BY <1>1, <1>3, <1>4, <1>5 DEF RaceTypeOK, Reads, TickReads

(* Every step leaves variables of their types.                             *)
LEMMA TypedAfter ==
  ASSUME RaceTypeOK, doc.status # "absent", [Next]_vars
  PROVE  RaceTypeOK'
<1>0. now \in Nat /\ tickAt \in Nat
  BY FirstInstant DEF RaceTypeOK
<1>1. CASE Request("worker")
  BY <1>1, RequestTyped
<1>2. CASE Request("loop")
  BY <1>2, RequestTyped
<1>3. CASE TickStart
  BY <1>3 DEF RaceTypeOK, TodoOK, TickStart
<1>4. CASE TickReads
  BY <1>4, TickReadsTyped
<1>5. ASSUME NEW h \in Handler, UpsertsCase(h)
      PROVE  RaceTypeOK'
  <2> DEFINE d == Edited(mine[h], Head(todo[h]))
  <2>1. Calls(h, Edits) /\ Head(todo[h]) \in Edits
    BY <1>5 DEF UpsertsCase, Calls
  <2>2. TodoOK'
    BY <2>1, CallsLeft
  <2>3. d \in CaseFields
    BY <1>0, <2>1, EditedCopy DEF RaceTypeOK
  <2>4. /\ doc' = d /\ mine' = [mine EXCEPT ![h] = d] /\ seen' = [seen EXCEPT ![h] = d]
        /\ lost' = (lost \/ doc # seen[h])
        /\ UNCHANGED <<status, sends, unanswered, stopped, heard, defied>>
    BY <1>5 DEF UpsertsCase
  <2> HIDE DEF d
  <2>5. doc' \in CaseFields /\ mine' \in [Handler -> CaseFields] /\ seen' = mine'
    BY <2>3, <2>4 DEF RaceTypeOK
  <2> QED
    BY <2>1, <2>2, <2>4, <2>5 DEF RaceTypeOK, Calls
<1>6. ASSUME NEW h \in Handler, Supersedes(h)
      PROVE  RaceTypeOK'
  <2>1. Calls(h, {"supersede"})
    BY <1>6 DEF Supersedes
  <2>2. TodoOK'
    BY <2>1, CallsLeft
  <2>3. status' \in [ActionId -> ActionState]
    BY <1>6 DEF Supersedes, RaceTypeOK, ActionState
  <2> QED
    BY <1>6, <2>1, <2>2, <2>3 DEF RaceTypeOK, Supersedes, Calls
<1>7. ASSUME NEW h \in Handler, Answers(h)
      PROVE  RaceTypeOK'
  <2>1. Calls(h, {"answer"})
    BY <1>7 DEF Answers
  <2>2. TodoOK'
    BY <2>1, CallsLeft
  <2> QED
    BY <1>7, <2>1, <2>2 DEF RaceTypeOK, Answers, Calls
<1>8. CASE Plans("loop")
  <2>1. Calls("loop", {"plan"})
    BY <1>8 DEF Plans
  <2>2. TodoOK'
    BY <2>1, CallsLeft DEF Handler
  <2>3. status' \in [ActionId -> ActionState]
    BY <1>8 DEF Plans, RaceTypeOK, ActionState
  <2> QED
    BY <1>8, <2>1, <2>2, <2>3 DEF RaceTypeOK, Plans, Calls
<1>9. CASE Sends
  <2>1. Calls("tick", {"send"})
    BY <1>9 DEF Sends
  <2>2. TodoOK'
    BY <2>1, CallsLeft DEF Handler
  <2>3. sends' \in [ActionId -> Nat]
    BY <1>9 DEF Sends, RaceTypeOK
  <2> QED
    BY <1>9, <2>1, <2>2, <2>3 DEF RaceTypeOK, Sends, Calls
<1>10. CASE SavesAction
  <2>1. Calls("tick", Saves) /\ Head(todo["tick"]) \in ActionState
    BY <1>10 DEF SavesAction, Calls, Saves, ActionState
  <2>2. TodoOK'
    BY <2>1, CallsLeft DEF Handler
  <2>3. status' \in [ActionId -> ActionState]
    BY <1>10, <2>1 DEF SavesAction, RaceTypeOK
  <2> QED
    BY <1>10, <2>1, <2>2, <2>3 DEF RaceTypeOK, SavesAction, Calls
<1>11. CASE Restart
  <2>1. TodoOK'
    BY <1>11, NothingToDo DEF Restart, TodoOK, Handler
  <2> QED
    BY <1>11, <2>1 DEF RaceTypeOK, Restart
<1>12. CASE Advance
  BY <1>12 DEF RaceTypeOK, TodoOK, Advance
<1>13. CASE UNCHANGED vars
  BY <1>13 DEF RaceTypeOK, TodoOK, vars
<1>14. CASE Raises
  <2>1. todo["tick"] # <<>> /\ todo' = [todo EXCEPT !["tick"] = Tail(todo["tick"])]
    BY <1>14 DEF Raises
  <2>2. Tail(todo["tick"]) \in TickRest
    BY <2>1, TickRestSteps DEF RaceTypeOK, TodoOK
  <2>3. TodoOK'
    BY <2>1, <2>2 DEF RaceTypeOK, TodoOK, Handler
  <2>4. unanswered' \in [ActionId -> Nat] /\ list' \subseteq ActionId
    BY <1>14 DEF Raises, RaceTypeOK
  <2> QED
    BY <1>14, <2>3, <2>4 DEF RaceTypeOK, Raises
<1> QED
  BY <1>1, <1>2, <1>3, <1>4, <1>5, <1>6, <1>7, <1>8, <1>9, <1>10, <1>11, <1>12, <1>13, <1>14
  DEF Next

-----------------------------------------------------------------------------
(* What is sent stays saved.  The steps that leave the tick's own place    *)
(* alone, and may supersede or plan actions that were not executed.        *)
LEMMA SendKeptBeside ==
  ASSUME SendInv, RaceTypeOK,
         UNCHANGED <<list, current, epoch, sends, unanswered>>, todo'["tick"] = todo["tick"],
         \A a \in ActionId : status[a] = "executed" => status'[a] = "executed"
  PROVE  SendInv'
  BY DEF SendInv

(* A tick's call that is neither the send nor the save after it.           *)
LEMMA SendKeptByTick ==
  ASSUME SendInv, RaceTypeOK, NEW names, Calls("tick", names),
         Head(todo["tick"]) \notin {"send", "executed", "timeout"},
         UNCHANGED <<sends, unanswered>>,
         \A a \in ActionId \ {current} : status[a] = "executed" => status'[a] = "executed",
         Head(todo["tick"]) = "count" => status' = status
  PROVE  SendInv'
<1>1. /\ todo["tick"] # <<>> /\ todo["tick"] \in TickRest /\ todo'["tick"] = Tail(todo["tick"])
      /\ UNCHANGED <<list, current, epoch>>
  BY DEF Calls, RaceTypeOK, TodoOK, Handler
<1>2. current \notin list
  BY <1>1 DEF SendInv
<1>3. ASSUME NEW a \in ActionId, sends[a] = 1 + epoch + unanswered[a], current # a
      PROVE  a \notin list /\ status'[a] = "executed"
  BY <1>3 DEF SendInv
<1>4. ASSUME NEW a \in ActionId, sends[a] = 1 + epoch + unanswered[a], current = a
      PROVE  status'[a] = "executed" /\ todo'["tick"] = <<>>
  <2>1. todo["tick"] \in {<<"count">>, <<"executed", "count">>, <<"timeout">>}
    BY <1>1, <1>4 DEF SendInv
  <2>2. todo["tick"] = <<"count">>
    BY <2>1
  <2> QED
    BY <1>1, <1>4, <2>2 DEF SendInv
<1> QED
  BY <1>1, <1>2, <1>3, <1>4 DEF SendInv

LEMMA SendAfter ==
  ASSUME RaceTypeOK, SendInv, [Next]_vars
  PROVE  SendInv'
<1>0. /\ \A a \in ActionId : sends[a] \in Nat /\ unanswered[a] \in Nat
      /\ epoch \in Nat /\ current \in ActionId /\ todo["tick"] \in TickRest
  BY DEF RaceTypeOK, TodoOK
<1>1. ASSUME NEW h \in {"worker", "loop"}, Request(h)
      PROVE  SendInv'
  BY <1>1, SendKeptBeside DEF Request, Reads, RaceTypeOK, TodoOK, Handler
<1>3. CASE TickStart
  <2>1. /\ todo["tick"] = <<>> /\ UNCHANGED <<todo, current, epoch, sends, unanswered, status>>
        /\ \A a \in ActionId : status[a] = "executed" => a \notin list'
    BY <1>3 DEF TickStart
  <2>2. <<>> # <<"executed", "count">> /\ <<>> # <<"timeout">>
    OBVIOUS
  <2> QED
    BY <2>1, <2>2 DEF SendInv
<1>4. CASE TickReads
  <2>1. current' \in list /\ list' = list \ {current'}
    BY <1>4, TickReadsPicks
  <2>2. todo["tick"] = <<>> /\ UNCHANGED <<epoch, sends, unanswered, status>>
    BY <1>4 DEF TickReads, Reads
  <2>3. <<>> # <<"executed", "count">> /\ <<>> # <<"timeout">>
    OBVIOUS
  <2>4. \A a \in ActionId : sends[a] = 1 + epoch + unanswered[a] =>
          a \notin list /\ status[a] = "executed" /\ current' # a
    BY <2>1, <2>2, <2>3 DEF SendInv
  <2> QED
    BY <2>1, <2>2, <2>4 DEF SendInv
<1>5. ASSUME NEW h \in Handler, UpsertsCase(h)
      PROVE  SendInv'
  <2>1. Calls(h, Edits) /\ Head(todo[h]) \in Edits /\ UNCHANGED <<status, sends, unanswered>>
    BY <1>5 DEF UpsertsCase, Calls
  <2>2. CASE h = "tick"
    BY <2>1, <2>2, SendKeptByTick DEF Edits
  <2>3. CASE h # "tick"
    BY <2>1, <2>3, SendKeptBeside DEF Calls, RaceTypeOK, TodoOK
  <2> QED
    BY <2>2, <2>3
<1>6. ASSUME NEW h \in Handler, Supersedes(h)
      PROVE  SendInv'
  <2>1. /\ Calls(h, {"supersede"}) /\ Head(todo[h]) = "supersede" /\ UNCHANGED <<sends, unanswered>>
        /\ \A a \in ActionId : status[a] = "executed" => status'[a] = "executed"
    BY <1>6 DEF Supersedes, Calls
  <2>2. CASE h = "tick"
    BY <2>1, <2>2, SendKeptByTick
  <2>3. CASE h # "tick"
    BY <2>1, <2>3, SendKeptBeside DEF Calls, RaceTypeOK, TodoOK
  <2> QED
    BY <2>2, <2>3
<1>7. ASSUME NEW h \in Handler, Answers(h)
      PROVE  SendInv'
  <2>1. Calls(h, {"answer"}) /\ Head(todo[h]) = "answer" /\ UNCHANGED <<status, sends, unanswered>>
    BY <1>7 DEF Answers, Calls
  <2>2. CASE h = "tick"
    BY <2>1, <2>2, SendKeptByTick
  <2>3. CASE h # "tick"
    BY <2>1, <2>3, SendKeptBeside DEF Calls, RaceTypeOK, TodoOK
  <2> QED
    BY <2>2, <2>3
<1>8. CASE Plans("loop")
  <2>1. /\ Calls("loop", {"plan"}) /\ UNCHANGED <<sends, unanswered>>
        /\ \A a \in ActionId : status[a] = "executed" => status'[a] = "executed"
    BY <1>8 DEF Plans, RaceTypeOK
  <2> QED
    BY <2>1, SendKeptBeside DEF Calls, RaceTypeOK, TodoOK
<1>9. CASE Sends
  <2>1. /\ Head(todo["tick"]) = "send" /\ todo["tick"] # <<>>
        /\ todo'["tick"] = Tail(todo["tick"])
        /\ sends' = [sends EXCEPT ![current] = @ + 1]
        /\ UNCHANGED <<list, current, epoch, status, unanswered>>
    BY <1>9 DEF Sends, Calls, RaceTypeOK, TodoOK, Handler
  <2>2. /\ todo["tick"] \in {<<"send", "executed", "count">>, <<"send", "timeout">>}
        /\ todo'["tick"] \in {<<"executed", "count">>, <<"timeout">>}
    BY <1>0, <2>1, TickRestSteps
  <2>3. current \notin list
    BY <2>1 DEF SendInv
  <2>4. sends[current] <= epoch + unanswered[current]
    <3>1. sends[current] # 1 + epoch + unanswered[current]
      BY <1>0, <2>2 DEF SendInv
    <3> QED
      BY <1>0, <3>1 DEF SendInv
  <2>5. sends'[current] = sends[current] + 1 /\ \A a \in ActionId \ {current} : sends'[a] = sends[a]
    BY <1>0, <2>1 DEF RaceTypeOK
  <2> QED
    BY <1>0, <2>1, <2>2, <2>3, <2>4, <2>5 DEF SendInv
<1>10. CASE SavesAction
  <2>1. /\ Calls("tick", Saves) /\ Head(todo["tick"]) \in Saves /\ UNCHANGED <<sends, unanswered>>
        /\ status' = [status EXCEPT ![current] = Head(todo["tick"])]
        /\ todo["tick"] # <<>> /\ todo'["tick"] = Tail(todo["tick"])
        /\ UNCHANGED <<list, current, epoch>>
    BY <1>10 DEF SavesAction, Calls, RaceTypeOK, TodoOK, Handler
  <2>2. CASE Head(todo["tick"]) = "executed"
    <3>1. todo["tick"] = <<"executed", "count">> /\ todo'["tick"] = <<"count">>
      BY <1>0, <2>1, <2>2, TickRestSteps
    <3>2. status'[current] = "executed" /\ \A a \in ActionId \ {current} : status'[a] = status[a]
      BY <1>0, <2>1, <2>2 DEF RaceTypeOK
    <3>3. current \notin list
      BY <2>1 DEF SendInv
    <3> QED
      BY <2>1, <3>1, <3>2, <3>3 DEF SendInv
  <2>3. CASE Head(todo["tick"]) # "executed"
    <3>1. \A a \in ActionId \ {current} : status[a] = "executed" => status'[a] = "executed"
      BY <2>1 DEF RaceTypeOK
    <3> QED
      BY <2>1, <2>3, <3>1, SendKeptByTick DEF Saves
  <2> QED
    BY <2>2, <2>3
<1>11. CASE Restart
  <2>1. /\ epoch' = epoch + 1 /\ list' = {} /\ todo'["tick"] = <<>>
        /\ UNCHANGED <<sends, unanswered>>
    BY <1>11 DEF Restart, Handler
  <2>2. \A a \in ActionId : sends[a] <= 1 + epoch + unanswered[a]
    BY DEF SendInv
  <2> QED
    BY <1>0, <2>1, <2>2 DEF SendInv
<1>12. CASE Advance
  BY <1>12 DEF Advance, SendInv
<1>13. CASE UNCHANGED vars
  BY <1>13 DEF vars, SendInv
<1>14. CASE Raises
  <2>1. /\ todo["tick"] # <<>> /\ Head(todo["tick"]) \in {"raise", "timeout"}
        /\ todo'["tick"] = Tail(todo["tick"]) /\ list' = {}
        /\ unanswered' = [unanswered EXCEPT
                           ![current] = IF Head(todo["tick"]) = "timeout" THEN @ + 1 ELSE @]
        /\ UNCHANGED <<current, epoch, sends, status>>
    BY <1>14 DEF Raises, RaceTypeOK, TodoOK, Handler
  <2>2. todo'["tick"] = <<>>
    BY <1>0, <2>1, TickRestSteps
  <2>3. ASSUME NEW a \in ActionId, a # current
        PROVE  /\ sends'[a] <= 1 + epoch' + unanswered'[a]
               /\ sends'[a] = 1 + epoch' + unanswered'[a] => status'[a] = "executed"
    <3>1. unanswered'[a] = unanswered[a]
      BY <2>1, <2>3 DEF RaceTypeOK
    <3> QED
      BY <2>1, <2>3, <3>1 DEF SendInv
  <2>4. sends'[current] < 1 + epoch' + unanswered'[current]
    <3>1. CASE Head(todo["tick"]) = "timeout"
      <4>1. unanswered'[current] = unanswered[current] + 1
        BY <1>0, <2>1, <3>1 DEF RaceTypeOK
      <4> QED
        BY <1>0, <2>1, <4>1 DEF SendInv
    <3>2. CASE Head(todo["tick"]) = "raise"
      <4>1. unanswered'[current] = unanswered[current] /\ todo["tick"] = <<"raise">>
        BY <1>0, <2>1, <3>2, TickRestSteps DEF RaceTypeOK
      <4>2. todo["tick"] \notin {<<>>, <<"count">>, <<"executed", "count">>, <<"timeout">>}
        BY <4>1
      <4>3. sends[current] # 1 + epoch + unanswered[current]
        BY <1>0, <4>2 DEF SendInv
      <4> QED
        BY <1>0, <2>1, <4>1, <4>3 DEF SendInv
    <3> QED
      BY <2>1, <3>1, <3>2
  <2> QED
    BY <1>0, <2>1, <2>2, <2>3, <2>4 DEF SendInv
<1> QED
  BY <1>1, <1>3, <1>4, <1>5, <1>6, <1>7, <1>8, <1>9, <1>10, <1>11, <1>12, <1>13, <1>14
  DEF Next

-----------------------------------------------------------------------------
(* What handlers know of their copies.                                     *)
LEMMA CopyKept ==
  ASSUME NEW h \in Handler, CopyOK(h), mine'[h] = mine[h],
         todo'[h] = todo[h] \/ todo'[h] = <<>>
  PROVE  CopyOK(h)'
<1>1. /\ <<>> # <<"close", "supersede", "answer">> /\ <<>> # <<"close", "supersede">>
      /\ <<>> # <<"recover", "supersede">>
      /\ <<>> \notin {<<"supersede", "answer">>, <<"answer">>}
  OBVIOUS
<1> QED
  BY <1>1 DEF CopyOK

(* A tick never makes the calls whose copies matter to a request.          *)
LEMMA TickNeverStops ==
  ASSUME NEW s \in TickRest
  PROVE  s \notin {<<"close", "supersede", "answer">>, <<"close", "supersede">>,
                   <<"recover", "supersede">>, <<"supersede", "answer">>, <<"answer">>}
<1>1. CASE s = <<>>
  BY <1>1
<1>2. CASE s # <<>>
  <2>1. /\ Head(s) \notin {"close", "recover", "answer"}
        /\ Head(s) = "supersede" => s = <<"supersede">>
    BY <1>2, TickRestSteps DEF TickRest, SendRest
  <2> QED
    BY <2>1
<1> QED
  BY <1>1, <1>2

(* The reader of the stored document.                                      *)
LEMMA ReadCopy ==
  ASSUME Copies, doc \in CaseFields, NEW h \in {"worker", "loop"},
         NEW calls \in WorkerCalls(doc) \cup LoopCalls(doc), mine'[h] = doc, todo'[h] = calls
  PROVE  CopyOK(h)'
<1>1. doc.status # "absent" /\ IsFiniteSet(doc.attempts) /\ doc.status \in Active \cup Closed
  BY DEF Copies, CaseFields
<1>2. \/ calls \in {StopCalls, <<"approve">>, <<"touch">>, <<"promise", "supersede">>, <<"plan">>}
      \/ calls = <<"close", "supersede">> /\ doc.status \in Active
      \/ calls = RecoverCalls /\ doc.status # "recovered"
  BY <1>1, RequestCallsKnown
<1>3. CASE calls \in {StopCalls, <<"approve">>, <<"touch">>, <<"promise", "supersede">>, <<"plan">>}
  BY <1>1, <1>3 DEF CopyOK, StopCalls
<1>4. CASE calls = <<"close", "supersede">> /\ doc.status \in Active
  BY <1>1, <1>4 DEF CopyOK
<1>5. CASE calls = RecoverCalls /\ doc.status # "recovered"
  BY <1>1, <1>5 DEF CopyOK, RecoverCalls
<1> QED
  BY <1>2, <1>3, <1>4, <1>5

(* The gate's answer stands while the tick holds its copy and instant.     *)
GateStands ==
  todo["tick"] \in SendRest => Gate(mine["tick"], current, tickAt).decision = "execute"

LEMMA GateKept ==
  ASSUME GateStands, mine'["tick"] = mine["tick"], current' = current, tickAt' = tickAt,
         todo'["tick"] = todo["tick"]
  PROVE  GateStands'
  BY DEF GateStands, Gate

(* A call that changes no document, by any handler.                        *)
LEMMA CopiesBeside ==
  ASSUME RaceTypeOK, Copies, NEW h \in Handler, NEW names, Calls(h, names),
         UNCHANGED <<doc, mine>>, Head(todo[h]) \notin Edits
  PROVE  Copies'
<1>1. /\ todo[h] # <<>> /\ todo' = [todo EXCEPT ![h] = Tail(todo[h])]
      /\ UNCHANGED <<current, tickAt>> /\ TodoOK /\ TodoOK'
  BY CallsLeft DEF Calls, RaceTypeOK
<1>2. ASSUME NEW k \in Handler, k # h
      PROVE  CopyOK(k)'
  <2>1. todo'[k] = todo[k] /\ mine'[k] = mine[k] /\ CopyOK(k)
    BY <1>1, <1>2 DEF TodoOK, Copies
  <2> QED
    BY <2>1, CopyKept
<1>3. ASSUME h \in {"worker", "loop"}
      PROVE  CopyOK(h)'
  <2>1. todo[h] \in RequestRest /\ todo'[h] = Tail(todo[h]) /\ CopyOK(h)
    BY <1>1, <1>3 DEF TodoOK, Copies
  <2>2. Head(todo[h]) \in {"supersede", "answer", "plan"}
    BY <1>1, <2>1, RequestRestSteps DEF Edits
  <2>3. CASE todo[h] = <<"supersede", "answer">>
    BY <2>1, <2>3 DEF CopyOK
  <2>4. CASE todo[h] # <<"supersede", "answer">>
    <3>1. todo'[h] = <<>>
      BY <1>1, <2>1, <2>2, <2>4, RequestRestSteps
    <3> QED
      BY <2>1, <3>1, CopyKept
  <2> QED
    BY <2>3, <2>4
<1>4. ASSUME h = "tick"
      PROVE  CopyOK(h)'
  <2>1. todo'["tick"] \in TickRest /\ mine'["tick"] = mine["tick"] /\ CopyOK("tick")
    BY <1>1 DEF TodoOK, Copies, Handler
  <2>2. mine["tick"].status # "absent" /\ IsFiniteSet(mine["tick"].attempts)
    BY <2>1 DEF CopyOK
  <2> QED
    BY <1>4, <2>1, <2>2, TickNeverStops DEF CopyOK
<1>5. GateStands'
  <2>1. CASE h # "tick"
    BY <1>1, <2>1, GateKept DEF Copies, GateStands, TodoOK
  <2>2. CASE h = "tick"
    <3>1. Tail(todo["tick"]) \in SendRest => todo["tick"] \in SendRest
      BY <1>1, <2>2, TickRestSteps DEF TodoOK, SendRest
    <3>2. todo'["tick"] = Tail(todo["tick"])
      BY <1>1, <2>2 DEF TodoOK
    <3> QED
      BY <1>1, <3>1, <3>2 DEF Copies, GateStands, Gate
  <2> QED
    BY <2>1, <2>2
<1>6. \A k \in Handler : CopyOK(k)'
  BY <1>2, <1>3, <1>4 DEF Handler
<1> QED
  BY <1>5, <1>6 DEF Copies, GateStands

(* A handler writes its edited copy.                                       *)
LEMMA CopiesAfterUpsert ==
  ASSUME RaceTypeOK, Copies, NEW h \in Handler, UpsertsCase(h)
  PROVE  Copies'
<1> DEFINE d == Edited(mine[h], Head(todo[h]))
<1>0. now \in Nat /\ tickAt \in Nat
  BY FirstInstant DEF RaceTypeOK
<1>1. /\ Calls(h, Edits) /\ Head(todo[h]) \in Edits
      /\ doc' = d /\ mine' = [mine EXCEPT ![h] = d]
  BY DEF UpsertsCase, Calls
<1>2. /\ todo[h] # <<>> /\ todo' = [todo EXCEPT ![h] = Tail(todo[h])]
      /\ UNCHANGED <<current, tickAt>> /\ TodoOK /\ TodoOK'
  BY <1>1, CallsLeft DEF Calls, RaceTypeOK
<1>3. mine[h] \in CaseFields /\ CopyOK(h)
  BY DEF RaceTypeOK, Copies
<1>4. /\ d \in CaseFields /\ d.status # "absent" /\ Behind(mine[h], d)
      /\ d.attempts \in {mine[h].attempts, mine[h].attempts \cup {tickAt}}
      /\ d.optedOut = (mine[h].optedOut \/ Head(todo[h]) = "optout")
      /\ Head(todo[h]) = "close" => d.status = "written_off"
  BY <1>0, <1>1, <1>3, EditedCopy DEF CopyOK
<1> HIDE DEF d
<1>5. IsFiniteSet(d.attempts)
  BY <1>3, <1>4, FS_AddElement DEF CopyOK
<1>6. /\ mine'[h] = d /\ todo'[h] = Tail(todo[h])
      /\ \A k \in Handler \ {h} : mine'[k] = mine[k] /\ todo'[k] = todo[k]
  BY <1>1, <1>2 DEF RaceTypeOK, TodoOK
<1>7. ASSUME NEW k \in Handler, k # h
      PROVE  CopyOK(k)'
  BY <1>6, <1>7, CopyKept DEF Copies
<1>8. ASSUME h \in {"worker", "loop"}
      PROVE  CopyOK(h)'
  <2>1. todo[h] \in RequestRest
    BY <1>2, <1>8 DEF TodoOK
  <2>2. Head(todo[h]) \in {"optout", "close", "recover", "approve", "touch", "promise"}
    BY <1>1, <1>2, <2>1, RequestRestSteps DEF Edits
  <2>3. CASE Head(todo[h]) = "optout"
    <3>1. todo'[h] = <<"close", "supersede", "answer">> /\ d.optedOut
      BY <1>2, <1>4, <1>6, <2>1, <2>3, RequestRestSteps DEF CaseFields
    <3>2. todo'[h] \notin {<<"close", "supersede">>, <<"recover", "supersede">>,
                           <<"supersede", "answer">>, <<"answer">>}
      BY <3>1
    <3> QED
      BY <1>4, <1>5, <1>6, <3>1, <3>2 DEF CopyOK
  <2>4. CASE todo[h] = <<"close", "supersede", "answer">>
    <3>1. todo'[h] = <<"supersede", "answer">> /\ mine[h].optedOut /\ Head(todo[h]) = "close"
      BY <1>3, <1>6, <2>4 DEF CopyOK
    <3>2. d.optedOut /\ d.status \in Closed
      BY <1>3, <1>4, <3>1 DEF Closed, Behind
    <3> QED
      BY <1>4, <1>5, <1>6, <3>1, <3>2 DEF CopyOK
  <2>5. CASE Head(todo[h]) # "optout" /\ todo[h] # <<"close", "supersede", "answer">>
    <3>1. todo'[h] \in {<<"supersede">>, <<>>}
      BY <1>2, <1>6, <2>1, <2>2, <2>5, RequestRestSteps
    <3> QED
      BY <1>4, <1>5, <1>6, <3>1 DEF CopyOK
  <2> QED
    BY <2>3, <2>4, <2>5
<1>9. ASSUME h = "tick"
      PROVE  CopyOK(h)' /\ todo'["tick"] \notin SendRest
  <2>1. todo["tick"] \in TickRest /\ Head(todo["tick"]) \in {"notice", "count"}
    BY <1>1, <1>2, <1>9, TickRestSteps DEF TodoOK, Edits
  <2>2. todo'["tick"] \notin SendRest
    <3>1. todo'["tick"] = Tail(todo["tick"]) /\ todo["tick"] # <<>>
      BY <1>2, <1>6, <1>9
    <3>2. CASE Head(todo["tick"]) = "notice"
      BY <2>1, <3>1, <3>2, TickRestSteps
    <3>3. CASE Head(todo["tick"]) = "count"
      BY <2>1, <3>1, <3>3, TickRestSteps, NothingToDo
    <3> QED
      BY <2>1, <3>2, <3>3
  <2>3. CopyOK("tick")'
    BY <1>2, <1>4, <1>5, <1>6, <1>9, TickNeverStops DEF TodoOK, CopyOK
  <2> QED
    BY <1>9, <2>2, <2>3
<1>10. GateStands'
  BY <1>2, <1>6, <1>9, GateKept DEF Copies, GateStands, Handler
<1>11. \A k \in Handler : CopyOK(k)'
  BY <1>7, <1>8, <1>9 DEF Handler
<1> QED
  BY <1>1, <1>4, <1>5, <1>10, <1>11 DEF Copies, GateStands

LEMMA CopiesAfter ==
  ASSUME RaceTypeOK, Copies, [Next]_vars
  PROVE  Copies'
<1>1. ASSUME NEW h \in {"worker", "loop"}, Request(h)
      PROVE  Copies'
  <2>1. PICK calls \in WorkerCalls(doc) \cup LoopCalls(doc) : Reads(h, calls)
    BY <1>1 DEF Request
  <2>2. /\ mine'[h] = doc /\ todo'[h] = calls /\ UNCHANGED <<doc, current, tickAt>>
        /\ \A k \in Handler \ {h} : mine'[k] = mine[k] /\ todo'[k] = todo[k]
    BY <1>1, <2>1 DEF Reads, Request, RaceTypeOK, TodoOK, Handler
  <2>3. CopyOK(h)'
    BY <2>2, ReadCopy DEF RaceTypeOK
  <2>4. \A k \in Handler \ {h} : CopyOK(k)'
    BY <2>2, CopyKept DEF Copies
  <2>5. GateStands'
    BY <2>2, GateKept DEF Copies, GateStands, Handler
  <2> QED
    BY <2>2, <2>3, <2>4, <2>5 DEF Copies, GateStands
<1>2. CASE TickStart
  <2>1. todo'["tick"] = <<>> /\ UNCHANGED <<doc, mine, todo>>
    BY <1>2 DEF TickStart
  <2>2. \A k \in Handler : CopyOK(k)'
    BY <2>1, CopyKept DEF Copies
  <2> QED
    BY <2>1, <2>2, NothingToDo DEF Copies
<1>3. CASE TickReads
  <2>1. PICK calls \in TickCalls(doc, current', tickAt) : Reads("tick", calls)
    BY <1>3 DEF TickReads
  <2>2. /\ mine'["tick"] = doc /\ todo'["tick"] = calls /\ UNCHANGED <<doc, tickAt>>
        /\ \A k \in Handler \ {"tick"} : mine'[k] = mine[k] /\ todo'[k] = todo[k]
    BY <2>1 DEF Reads, RaceTypeOK, TodoOK, Handler
  <2>3. calls \in TickRest /\ (calls \in SendRest => Gate(doc, current', tickAt).decision = "execute")
    BY <2>1, TickCallsKnown
  <2>4. CopyOK("tick")'
    BY <2>2, <2>3, TickNeverStops DEF Copies, CopyOK
  <2>5. \A k \in Handler \ {"tick"} : CopyOK(k)'
    BY <2>2, CopyKept DEF Copies
  <2>6. GateStands'
    BY <2>2, <2>3 DEF GateStands, Gate
  <2> QED
    BY <2>2, <2>4, <2>5, <2>6 DEF Copies, GateStands
<1>4. ASSUME NEW h \in Handler, UpsertsCase(h)
      PROVE  Copies'
  BY <1>4, CopiesAfterUpsert
<1>5. ASSUME NEW h \in Handler, Supersedes(h)
      PROVE  Copies'
  BY <1>5, CopiesBeside DEF Supersedes, Calls, Edits
<1>6. ASSUME NEW h \in Handler, Answers(h)
      PROVE  Copies'
  BY <1>6, CopiesBeside DEF Answers, Calls, Edits
<1>7. CASE Plans("loop")
  BY <1>7, CopiesBeside DEF Plans, Calls, Edits, Handler
<1>8. CASE Sends
  BY <1>8, CopiesBeside DEF Sends, Calls, Edits, Handler
<1>9. CASE SavesAction
  BY <1>9, CopiesBeside DEF SavesAction, Calls, Edits, Saves, Handler
<1>10. CASE Restart
  <2>1. /\ \A k \in Handler : todo'[k] = <<>> /\ mine'[k] = mine[k]
        /\ doc' = doc /\ todo'["tick"] = <<>>
    BY <1>10 DEF Restart, Handler
  <2>2. \A k \in Handler : CopyOK(k)'
    BY <2>1, CopyKept DEF Copies
  <2> QED
    BY <2>1, <2>2, NothingToDo DEF Copies
<1>14. CASE Raises
  <2>1. /\ todo["tick"] # <<>> /\ Head(todo["tick"]) \in {"raise", "timeout"}
        /\ todo'["tick"] = Tail(todo["tick"]) /\ UNCHANGED <<doc, mine>>
        /\ \A k \in Handler \ {"tick"} : todo'[k] = todo[k]
    BY <1>14 DEF Raises, RaceTypeOK, TodoOK, Handler
  <2>2. todo'["tick"] = <<>>
    BY <2>1, TickRestSteps DEF RaceTypeOK, TodoOK
  <2>3. \A k \in Handler : CopyOK(k)'
    BY <2>1, <2>2, CopyKept DEF Copies
  <2> QED
    BY <2>1, <2>2, <2>3, NothingToDo DEF Copies
<1>11. CASE UNCHANGED <<doc, mine, todo, current, tickAt>>
  <2>1. \A k \in Handler : CopyOK(k)'
    BY <1>11, CopyKept DEF Copies
  <2>2. GateStands'
    BY <1>11, GateKept DEF Copies, GateStands
  <2> QED
    BY <1>11, <2>1, <2>2 DEF Copies, GateStands
<1>12. CASE Advance
  BY <1>11, <1>12 DEF Advance
<1>13. CASE UNCHANGED vars
  BY <1>11, <1>13 DEF vars
<1> QED
  BY <1>1, <1>2, <1>3, <1>4, <1>5, <1>6, <1>7, <1>8, <1>9, <1>10, <1>12, <1>13, <1>14 DEF Next

-----------------------------------------------------------------------------
(* No copy gets ahead of the stored document.                              *)
LEMMA StopKeptBeside ==
  ASSUME StopInv, UNCHANGED <<doc, mine, lost, stopped, heard, defied>>,
         todo'["tick"] = todo["tick"] \/ todo'["tick"] = <<>>
  PROVE  StopInv'
  BY DEF StopInv

LEMMA StopKeptByUpsert ==
  ASSUME RaceTypeOK, StopInv, NEW h \in Handler, UpsertsCase(h)
  PROVE  StopInv'
<1> DEFINE d == Edited(mine[h], Head(todo[h]))
<1>0. now \in Nat /\ tickAt \in Nat
  BY FirstInstant DEF RaceTypeOK
<1>1. /\ Calls(h, Edits) /\ Head(todo[h]) \in Edits
      /\ doc' = d /\ mine' = [mine EXCEPT ![h] = d]
      /\ lost' = (lost \/ doc # seen[h])
      /\ UNCHANGED <<stopped, heard, defied>>
  BY DEF UpsertsCase, Calls
<1>2. /\ todo[h] # <<>> /\ todo' = [todo EXCEPT ![h] = Tail(todo[h])]
  BY <1>1 DEF Calls
<1>3. Behind(mine[h], d)
  BY <1>0, <1>1, EditedCopy DEF RaceTypeOK
<1> HIDE DEF d
<1> SUFFICES ASSUME ~lost'
             PROVE  /\ ~defied'
                    /\ stopped' => doc'.optedOut /\ doc'.status \in Closed
                    /\ \A k \in Handler : Behind(mine'[k], doc')
                    /\ heard' => todo'["tick"] \in {<<>>, <<"supersede">>}
  BY DEF StopInv, Behind
<1>4. ~lost /\ doc = mine[h]
  BY <1>1 DEF RaceTypeOK
<1>5. ASSUME NEW k \in Handler
      PROVE  Behind(mine'[k], doc')
  <2>1. CASE k = h
    BY <1>1, <2>1 DEF Behind, RaceTypeOK
  <2>2. CASE k # h
    <3>1. mine'[k] = mine[k] /\ Behind(mine[k], doc)
      BY <1>1, <1>4, <2>2 DEF RaceTypeOK, StopInv
    <3> QED
      BY <1>1, <1>3, <1>4, <3>1 DEF Behind
  <2> QED
    BY <2>1, <2>2
<1>6. stopped' => doc'.optedOut /\ doc'.status \in Closed
  BY <1>1, <1>3, <1>4 DEF StopInv, Behind
<1>7. heard' => todo'["tick"] \in {<<>>, <<"supersede">>}
  <2>1. heard' => todo["tick"] \in {<<>>, <<"supersede">>}
    BY <1>1, <1>4 DEF StopInv
  <2>2. CASE h = "tick"
    BY <1>1, <1>2, <2>1, <2>2 DEF Edits
  <2>3. CASE h # "tick"
    BY <1>2, <2>1, <2>3 DEF RaceTypeOK, TodoOK
  <2> QED
    BY <2>2, <2>3
<1> QED
  BY <1>1, <1>4, <1>5, <1>6, <1>7 DEF StopInv

LEMMA StopAfter ==
  ASSUME RaceTypeOK, Copies, StopInv, [Next]_vars
  PROVE  StopInv'
<1>0. todo["tick"] \in TickRest
  BY DEF RaceTypeOK, TodoOK
<1>1. ASSUME NEW h \in {"worker", "loop"}, Request(h)
      PROVE  StopInv'
  <2>1. /\ UNCHANGED <<doc, lost, stopped, heard, defied>> /\ todo'["tick"] = todo["tick"]
        /\ mine' = [mine EXCEPT ![h] = doc]
    BY <1>1 DEF Request, Reads, RaceTypeOK, TodoOK, Handler
  <2>2. ~lost => \A k \in Handler : Behind(mine'[k], doc')
    BY <2>1 DEF StopInv, RaceTypeOK, Behind
  <2> QED
    BY <2>1, <2>2 DEF StopInv
<1>2. CASE TickStart
  BY <1>2, StopKeptBeside DEF TickStart
<1>3. CASE TickReads
  <2>1. PICK calls \in TickCalls(doc, current', tickAt) : Reads("tick", calls)
    BY <1>3 DEF TickReads
  <2>2. /\ mine' = [mine EXCEPT !["tick"] = doc] /\ todo'["tick"] = calls
        /\ UNCHANGED <<doc, lost, stopped, defied>> /\ heard' = stopped
    BY <1>3, <2>1 DEF Reads, TickReads, RaceTypeOK, TodoOK, Handler
  <2>3. ~lost => \A k \in Handler : Behind(mine'[k], doc')
    BY <2>2 DEF StopInv, RaceTypeOK, Behind
  <2>4. ~lost /\ heard' => todo'["tick"] = <<"supersede">>
    BY <2>1, <2>2, TickCallsKnown DEF StopInv
  <2> QED
    BY <2>2, <2>3, <2>4 DEF StopInv
<1>4. ASSUME NEW h \in Handler, UpsertsCase(h)
      PROVE  StopInv'
  BY <1>4, StopKeptByUpsert
<1>5. ASSUME NEW h \in Handler, Supersedes(h)
      PROVE  StopInv'
  <2>1. /\ Head(todo[h]) = "supersede" /\ todo[h] # <<>>
        /\ todo' = [todo EXCEPT ![h] = Tail(todo[h])]
        /\ UNCHANGED <<doc, mine, lost, stopped, heard, defied>>
    BY <1>5 DEF Supersedes, Calls
  <2>2. CASE h = "tick"
    <3>1. todo["tick"] = <<"supersede">> /\ todo'["tick"] = Tail(todo["tick"])
      BY <1>0, <2>1, <2>2, TickRestSteps DEF RaceTypeOK, TodoOK
    <3> QED
      BY <2>1, <3>1, StopKeptBeside
  <2>3. CASE h # "tick"
    BY <2>1, <2>3, StopKeptBeside DEF RaceTypeOK, TodoOK
  <2> QED
    BY <2>2, <2>3
<1>6. ASSUME NEW h \in Handler, Answers(h)
      PROVE  StopInv'
  <2>1. /\ Head(todo[h]) = "answer" /\ todo[h] # <<>>
        /\ todo' = [todo EXCEPT ![h] = Tail(todo[h])]
        /\ stopped' /\ UNCHANGED <<doc, mine, lost, heard, defied>>
    BY <1>6 DEF Answers, Calls
  <2>2. h # "tick"
    BY <1>0, <2>1, TickRestSteps
  <2>3. todo[h] = <<"answer">>
    BY <2>1, <2>2, RequestRestSteps DEF RaceTypeOK, TodoOK, Handler
  <2>4. mine[h].optedOut /\ mine[h].status \in Closed
    BY <2>3 DEF Copies, CopyOK
  <2>5. ~lost => doc.optedOut /\ doc.status \in Closed
    BY <2>4 DEF StopInv, Behind
  <2>6. todo'["tick"] = todo["tick"]
    BY <2>1, <2>2 DEF RaceTypeOK, TodoOK
  <2> QED
    BY <2>1, <2>5, <2>6 DEF StopInv
<1>7. CASE Plans("loop")
  BY <1>7, StopKeptBeside DEF Plans, Calls, RaceTypeOK, TodoOK
<1>8. CASE Sends
  <2>1. /\ Head(todo["tick"]) = "send" /\ todo["tick"] # <<>>
        /\ defied' = (defied \/ heard)
        /\ UNCHANGED <<doc, mine, lost, stopped, heard>>
    BY <1>8 DEF Sends, Calls
  <2>2. todo["tick"] \notin {<<>>, <<"supersede">>}
    BY <2>1
  <2>3. ~lost => ~heard
    BY <2>2 DEF StopInv
  <2> QED
    BY <2>1, <2>3 DEF StopInv
<1>9. CASE SavesAction
  <2>1. /\ Head(todo["tick"]) \in Saves /\ todo["tick"] # <<>>
        /\ UNCHANGED <<doc, mine, lost, stopped, heard, defied>>
    BY <1>9 DEF SavesAction, Calls
  <2>2. todo["tick"] \notin {<<>>, <<"supersede">>}
    BY <2>1 DEF Saves
  <2>3. ~lost => ~heard
    BY <2>2 DEF StopInv
  <2> QED
    BY <2>1, <2>3 DEF StopInv
<1>10. CASE Restart
  BY <1>10, StopKeptBeside DEF Restart, Handler
<1>11. CASE Advance
  BY <1>11, StopKeptBeside DEF Advance
<1>12. CASE UNCHANGED vars
  BY <1>12, StopKeptBeside DEF vars
<1>13. CASE Raises
  <2>1. /\ Head(todo["tick"]) \in {"raise", "timeout"} /\ todo["tick"] # <<>>
        /\ todo'["tick"] = Tail(todo["tick"])
        /\ UNCHANGED <<doc, mine, lost, stopped, heard, defied>>
    BY <1>13 DEF Raises, RaceTypeOK, TodoOK, Handler
  <2>2. todo'["tick"] = <<>>
    BY <1>0, <2>1, TickRestSteps
  <2> QED
    BY <2>1, <2>2, StopKeptBeside
<1> QED
  BY <1>1, <1>2, <1>3, <1>4, <1>5, <1>6, <1>7, <1>8, <1>9, <1>10, <1>11, <1>12, <1>13 DEF Next

-----------------------------------------------------------------------------
(* Together they hold in every reachable state.                            *)
RaceInv == RaceTypeOK /\ SendInv /\ Copies /\ StopInv

LEMMA RaceInvHolds == Spec => []RaceInv
<1>1. Init => RaceInv
  <2> SUFFICES ASSUME Init PROVE RaceInv
    OBVIOUS
  <2>1. RaceTypeOK
    BY TypedAtFirst
  <2>2. SendInv
    BY NothingToDo DEF Init, SendInv, Handler
  <2>3. /\ doc = Ingested /\ \A h \in Handler : mine[h] = Ingested /\ todo[h] = <<>>
        /\ todo["tick"] = <<>>
    BY DEF Init, Handler
  <2>4. \A h \in Handler : CopyOK(h)
    BY <2>3, IngestedIsACase DEF CopyOK
  <2>5. Copies
    BY <2>3, <2>4, IngestedIsACase, NothingToDo DEF Copies
  <2>6. StopInv
    BY <2>3 DEF Init, StopInv, Behind
  <2> QED
    BY <2>1, <2>2, <2>5, <2>6 DEF RaceInv
<1>2. RaceInv /\ [Next]_vars => RaceInv'
  BY TypedAfter, SendAfter, CopiesAfter, StopAfter DEF RaceInv, Copies
<1> QED
  BY <1>1, <1>2, PTL DEF Spec

(* However the calls of the handlers fall, an action is sent at most once  *)
(* more than the process was restarted and its placed calls left           *)
(* unanswered (executor.py:144-149, 168-182): nothing another handler does *)
(* to the stored actions brings a sent one back.                           *)
THEOREM RaceSentOnce == Spec => []SentOnce
<1>1. RaceInv => SentOnce
  BY DEF RaceInv, SendInv, SentOnce
<1> QED
  BY <1>1, RaceInvHolds, PTL

(* A STOP that was answered holds until a handler writes over an update it *)
(* never saw: the stored case is opted out and closed, and no message goes *)
(* out that a tick decided on after it.                                    *)
THEOREM RaceStopHolds == Spec => []StopHoldsUntilLost
<1>1. RaceInv => StopHoldsUntilLost
  BY DEF RaceInv, StopInv, StopHoldsUntilLost
<1> QED
  BY <1>1, RaceInvHolds, PTL

-----------------------------------------------------------------------------
(* What the gate has checked when it lets an action run.                   *)
LEMMA GateLets ==
  ASSUME NEW d, NEW a, NEW t, Gate(d, a, t).decision = "execute"
  PROVE  /\ d.status \notin Closed /\ ~d.optedOut
         /\ ~(AttemptsInWindow(d, t) >= MaxAttempts)
         /\ ~CoolingDown(d, t)
         /\ ~(t >= d.created + CaseExpiry)
  BY DEF Gate, Evaluate, Block, Defer, Execute

LEMMA ContractCardinality == \A S : Contract!Cardinality(S) = Cardinality(S)
  BY DEF Contract!Cardinality, Cardinality

(* The contract sees the stored document and nothing else.                 *)
LEMMA SameDocumentRefines ==
  ASSUME doc' = doc PROVE UNCHANGED Contract!vars
  BY DEF Contract!vars, PhaseOf

(* While no update is lost, a handler that writes its copy makes a step of *)
(* the contract.                                                           *)
LEMMA UpsertRefines ==
  ASSUME RaceTypeOK, Copies, NEW h \in Handler, UpsertsCase(h), ~lost'
  PROVE  [Contract!Next]_(Contract!vars)
<1> DEFINE edit == Head(todo[h])
           d == Edited(doc, edit)
           c == "case"
           phase == [x \in {c} |-> PhaseOf(doc)]
<1>0. now \in Nat /\ tickAt \in Nat /\ tickAt \in TimePoints
  BY FirstInstant DEF RaceTypeOK
<1>1. /\ Calls(h, Edits) /\ edit \in Edits /\ doc = mine[h] /\ doc' = d /\ todo[h] # <<>>
  BY DEF UpsertsCase, Calls, RaceTypeOK
<1>2. /\ doc \in CaseFields /\ doc.status \in Active \cup Closed /\ CopyOK(h)
      /\ todo["tick"] \in TickRest /\ (h # "tick" => todo[h] \in RequestRest)
  BY DEF RaceTypeOK, TodoOK, Copies, CaseFields, Handler
<1>3. /\ d \in CaseFields /\ d.created = doc.created /\ Behind(doc, d)
      /\ d.attempts \in {doc.attempts, doc.attempts \cup {tickAt}}
      /\ edit # "count" => d.attempts = doc.attempts
      /\ d.optedOut = (doc.optedOut \/ edit = "optout")
      /\ edit \in {"approve", "promise", "notice", "touch", "optout"} => d.status = doc.status
      /\ edit = "close" => d.status = "written_off"
      /\ edit = "recover" => d.status = "recovered"
      /\ edit = "count" => d.status = IF doc.status = "open" THEN "scheduled" ELSE doc.status
  BY <1>0, <1>1, <1>2, EditedCopy
<1> HIDE DEF d, edit
<1>4. CASE edit \in {"approve", "promise", "notice", "touch"}
  <2>1. /\ d.status = doc.status /\ d.attempts = doc.attempts /\ d.created = doc.created
        /\ d.optedOut = doc.optedOut
    BY <1>2, <1>3, <1>4 DEF CaseFields
  <2> QED
    BY <1>1, <2>1 DEF Contract!vars, PhaseOf
<1>5. CASE edit = "optout"
  <2>1. /\ d.status = doc.status /\ d.attempts = doc.attempts /\ d.created = doc.created
        /\ d.optedOut = TRUE
    BY <1>2, <1>3, <1>5 DEF CaseFields
  <2>2. Contract!OptOut(c)
    BY <1>1, <1>2, <2>1 DEF Contract!OptOut, PhaseOf, Closed
  <2> QED
    BY <2>2 DEF Contract!Next
<1>6. CASE edit = "close"
  <2>1. /\ d.status = "written_off" /\ d.attempts = doc.attempts /\ d.created = doc.created
        /\ d.optedOut = doc.optedOut
    BY <1>2, <1>3, <1>6 DEF CaseFields
  <2>2. h # "tick"
    BY <1>1, <1>2, <1>6, TickRestSteps DEF edit
  <2>3. \/ todo[h] = <<"close", "supersede", "answer">> /\ doc.optedOut
        \/ todo[h] = <<"close", "supersede">> /\ doc.status \in Active
    BY <1>1, <1>2, <1>6, <2>2, RequestRestSteps DEF edit, CopyOK
  <2>4. CASE doc.optedOut
    <3>1. Contract!OptOut(c)
      BY <1>1, <1>2, <2>1, <2>4 DEF Contract!OptOut, PhaseOf, Closed, Active, CaseFields
    <3> QED
      BY <3>1 DEF Contract!Next
  <2>5. CASE doc.status \in Active
    <3>1. Contract!WriteOff(c)
      BY <1>1, <2>1, <2>5 DEF Contract!WriteOff, PhaseOf, Active
    <3> QED
      BY <3>1 DEF Contract!Next
  <2> QED
    BY <2>3, <2>4, <2>5
<1>7. CASE edit = "recover"
  <2>1. /\ d.status = "recovered" /\ d.attempts = doc.attempts /\ d.created = doc.created
        /\ d.optedOut = doc.optedOut
    BY <1>2, <1>3, <1>7 DEF CaseFields
  <2>2. h # "tick"
    BY <1>1, <1>2, <1>7, TickRestSteps DEF edit
  <2>3. doc.status # "recovered"
    BY <1>1, <1>2, <1>7, <2>2, RequestRestSteps DEF edit, CopyOK
  <2>4. Contract!Recover(c)
    BY <1>1, <1>2, <2>1, <2>3 DEF Contract!Recover, PhaseOf, Active, Closed
  <2> QED
    BY <2>4 DEF Contract!Next
<1>8. CASE edit = "count"
  <2>1. h = "tick"
    <3>1. h # "tick" => Head(todo[h]) # "count"
      BY <1>1, <1>2, RequestRestSteps
    <3> QED
      BY <1>8, <3>1 DEF edit
  <2>2. todo["tick"] = <<"count">>
    BY <1>1, <1>2, <1>8, <2>1, TickRestSteps DEF edit
  <2>3. Gate(doc, current, tickAt).decision = "execute"
    BY <1>1, <2>1, <2>2 DEF Copies, SendRest
  <2>4. /\ doc.status \in Active /\ ~doc.optedOut
        /\ ~(AttemptsInWindow(doc, tickAt) >= MaxAttempts)
        /\ ~CoolingDown(doc, tickAt) /\ ~(tickAt >= doc.created + CaseExpiry)
    BY <1>2, <2>3, GateLets
  <2>5. d.status \in Active /\ d.optedOut = doc.optedOut /\ d.created = doc.created
    BY <1>2, <1>3, <1>8, <2>4 DEF Active, CaseFields
  <2>6. CASE d.attempts = doc.attempts
    BY <1>1, <2>4, <2>5, <2>6 DEF Contract!vars, PhaseOf
  <2>7. CASE d.attempts = doc.attempts \cup {tickAt}
    <3> DEFINE recent == {u \in doc.attempts : u >= tickAt - AttemptWindow}
    <3>1. Cardinality(recent) < MaxAttempts
      <4>1. IsFiniteSet(recent)
        BY FS_Subset DEF Copies
      <4>2. Cardinality(recent) \in Nat
        BY <4>1, FS_CardinalityType
      <4>3. ~(Cardinality(recent) >= MaxAttempts)
        BY <2>4 DEF AttemptsInWindow
      <4> HIDE DEF recent
      <4> QED
        BY <4>2, <4>3, PolicyAssumption
    <3>2. Contract!Recent(c, tickAt) = recent
      BY DEF Contract!Recent
    <3>3. \A u \in doc.attempts : tickAt >= u + Cooldown
      BY <1>0, <1>2, <2>4, PolicyAssumption DEF CoolingDown, CaseFields
    <3>4. tickAt < doc.created + CaseExpiry
      BY <1>0, <1>2, <2>4, PolicyAssumption DEF CaseFields
    <3>5. Contract!Attempt(c, tickAt)
      <4>1. UNCHANGED <<[x \in {c} |-> PhaseOf(doc)], [x \in {c} |-> doc.created],
                        [x \in {c} |-> doc.optedOut]>>
        BY <1>1, <2>4, <2>5 DEF PhaseOf
      <4>2. [x \in {c} |-> doc.attempts]'
              = [[x \in {c} |-> doc.attempts] EXCEPT ![c] = @ \cup {tickAt}]
        BY <1>1, <2>7
      <4>3. Contract!Cardinality(Contract!Recent(c, tickAt)) < MaxAttempts
        BY <3>1, <3>2, ContractCardinality
      <4>4. phase[c] = "active"
        BY <2>4 DEF PhaseOf
      <4> QED
        BY <2>4, <3>3, <3>4, <4>1, <4>2, <4>3, <4>4 DEF Contract!Attempt
    <3> QED
      BY <1>0, <3>5 DEF Contract!Next
  <2> QED
    BY <1>3, <2>6, <2>7
<1> QED
  BY <1>1, <1>4, <1>5, <1>6, <1>7, <1>8 DEF Edits

(* Until an update is lost the interleaved calls keep the recovery         *)
(* contract: each is one of its steps or changes nothing that it sees.     *)
THEOREM RaceImplementsContract == Spec => SafeUntilLost
<1>1. RaceInv /\ [Next]_vars => (~lost' => [Contract!Next]_(Contract!vars))
  <2> SUFFICES ASSUME RaceInv, [Next]_vars, ~lost'
               PROVE  [Contract!Next]_(Contract!vars)
    OBVIOUS
  <2>1. CASE doc' = doc
    BY <2>1, SameDocumentRefines
  <2>2. CASE doc' # doc
    <3>1. \E h \in Handler : UpsertsCase(h)
      BY <2>2 DEF Next, vars, Request, Reads, TickStart, TickReads, Supersedes, Answers, Plans,
                  Sends, SavesAction, Raises, Restart, Advance
    <3> QED
      BY <3>1, UpsertRefines DEF RaceInv
  <2> QED
    BY <2>1, <2>2
<1> QED
  BY <1>1, RaceInvHolds, PTL DEF Spec, SafeUntilLost
=============================================================================
