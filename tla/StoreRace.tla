------------------------------ MODULE StoreRace ------------------------------
(***************************************************************************)
(* One stored case at the grain of store calls.  A handler reads the whole *)
(* case document, edits its copy and writes the whole copy back: every     *)
(* call of app/store.py is a commit of its own and nothing locks the case  *)
(* in between.  Three handlers may be under way at once: the tick and one  *)
(* operator request, each in a worker thread, and one webhook or reply on  *)
(* the event loop, which runs one at a time.                               *)
(*                                                                         *)
(* A handler is the sequence of calls it makes after its read; each call   *)
(* is a step.  LiveAgent takes the whole sequence as one step.  Left out:  *)
(* calls on other tables than cases and actions, the promise check (which  *)
(* saves nothing but itself), and the due times: a tick lists every        *)
(* scheduled action.                                                       *)
(***************************************************************************)
EXTENDS PolicyGate, Sequences

CONSTANTS
  Class, Amount,   \* what the failed payment of the case says
  Planned,         \* types of the actions planned for it, the first at ingest
  TimePoints,      \* the instants the modelled clock may show
  MaxRequests,     \* bound: operator requests, webhooks and replies
  MaxUnanswered,   \* bound: placed voice calls without an answer, per action
  MaxRestarts      \* bound: restarts of the process

ASSUME RaceAssumption ==
  /\ Class \in FailureClass /\ Amount \in Nat
  /\ Planned \in Seq(ActionType \ {"check_promise"}) /\ Planned # <<>>
  /\ TimePoints \subseteq Nat /\ TimePoints # {}
  /\ MaxRequests \in Nat /\ MaxUnanswered \in Nat /\ MaxRestarts \in Nat

Handler == {"tick", "worker", "loop"}
ActionId == DOMAIN Planned

VARIABLES
  now,
  doc,       \* the stored document
  status,    \* the stored status of each planned action
  todo,      \* the calls each handler still has to make
  mine,      \* the copy of the document each handler holds
  list,      \* the actions the running tick still has to handle
  current,   \* the action the tick handles
  tickAt,    \* the running tick's "now"
  requests, epoch,
  seen,      \* history: the stored document as each handler last knew it
  lost,      \* history: a handler has written over an update it never saw
  sends,     \* history: how often each action was sent
  unanswered,  \* history: how often a placed voice call was not answered
  stopped,   \* history: a STOP or an opt-out has been answered
  heard,     \* history: it had been when the tick last read the case
  defied     \* history: a message has gone out that was decided after it

vars == <<now, doc, status, todo, mine, list, current, tickAt, requests, epoch,
          seen, lost, sends, unanswered, stopped, heard, defied>>

Start == CHOOSE t \in TimePoints : \A u \in TimePoints : t <= u

(* Ingested, its first action planned and due.                             *)
Ingested ==
  [status |-> "open", class |-> Class, amount |-> Amount, created |-> Start,
   attempts |-> {}, approved |-> FALSE, optedOut |-> FALSE, notice |-> FALSE,
   paid |-> FALSE, promiseDue |-> NoTime]

Init ==
  /\ now = Start /\ tickAt = Start
  /\ doc = Ingested
  /\ status = [a \in ActionId |-> IF a = 1 THEN "scheduled" ELSE "none"]
  /\ todo = [h \in Handler |-> <<>>]
  /\ mine = [h \in Handler |-> Ingested] /\ seen = mine
  /\ list = {} /\ current = 1
  /\ requests = 0 /\ epoch = 0
  /\ lost = FALSE /\ stopped = FALSE
  /\ sends = [a \in ActionId |-> 0] /\ unanswered = sends
  /\ heard = FALSE /\ defied = FALSE

-----------------------------------------------------------------------------
(* The calls a handler makes, given the document it has read               *)

Edits == {"optout", "close", "recover", "approve", "promise", "touch", "notice", "count"}
Saves == {"executed", "blocked", "deferred", "scheduled"}

StopCalls == <<"optout", "close", "supersede", "answer">>
RecoverCalls == <<"recover", "supersede">>

WorkerCalls(d) ==
  {StopCalls, <<"approve">>} \cup
  IF d.status = "recovered" THEN {} ELSE {RecoverCalls, <<"touch">>}

(* A reply reaches an active case only; a redelivered failure plans for    *)
(* one only.  A payment of a recovered case changes nothing.               *)
LoopCalls(d) ==
  (IF d.status \in Active
   THEN {StopCalls, <<"close", "supersede">>, <<"promise", "supersede">>, <<"plan">>}
   ELSE {})
  \cup (IF d.status = "recovered" THEN {} ELSE {RecoverCalls})

Gate(d, a, t) == Evaluate(d, t, IsContact(Planned[a]), IsMoney(Planned[a]))

(* Mutant: the action is not saved as executed.                            *)
ExecuteCallsUnsaved == <<"send", "count">>

ExecuteCalls == <<"send", "executed", "count">>

DeferCalls(g) ==
  (IF g.reason = "rbi_notice" THEN <<"notice">> ELSE <<>>) \o <<"deferred">>
  \o (IF g.at = NoTime THEN <<>> ELSE <<"scheduled">>)

(* Mutant: the gate is not asked again.                                    *)
TickCallsUngated(d, a, t) == {ExecuteCalls}

NeedsLink(type) == IsContact(type) \/ type = "retry_payment_link"

(* An action the gate lets run.  The link may fail: the action is then     *)
(* blocked and nothing is sent.  The request to the voice provider may     *)
(* raise, the call not placed ("raise") or placed ("timeout").             *)
RunCalls(a) ==
  {ExecuteCalls} \cup (IF NeedsLink(Planned[a]) THEN {<<"blocked">>} ELSE {})
  \cup (IF Planned[a] = "nudge_voice" THEN {<<"raise">>} ELSE {})
  \cup (IF Planned[a] = "nudge_voice" /\ unanswered[a] < MaxUnanswered
        THEN {<<"send", "timeout">>} ELSE {})

TickCalls(d, a, t) ==
  LET g == Gate(d, a, t)
  IN  IF d.status \in Closed THEN {<<"supersede">>}
      ELSE CASE g.decision = "execute" -> RunCalls(a)
             [] g.decision = "block" -> {<<"blocked">>}
             [] g.decision = "defer" -> {DeferCalls(g)}

-----------------------------------------------------------------------------
(* Reading                                                                 *)

Reads(h, calls) ==
  /\ todo[h] = <<>>
  /\ mine' = [mine EXCEPT ![h] = doc] /\ seen' = [seen EXCEPT ![h] = doc]
  /\ todo' = [todo EXCEPT ![h] = calls]
  /\ UNCHANGED <<now, doc, status, tickAt, epoch, lost, sends, unanswered, stopped, defied>>

Request(h) ==
  /\ requests < MaxRequests
  /\ requests' = requests + 1
  /\ \E calls \in IF h = "worker" THEN WorkerCalls(doc) ELSE LoopCalls(doc) :
       Reads(h, calls)
  /\ UNCHANGED <<list, current, heard>>

TickStart ==
  /\ list = {} /\ todo["tick"] = <<>>
  /\ list' = {a \in ActionId : status[a] = "scheduled"} /\ list' # {}
  /\ tickAt' = now
  /\ UNCHANGED <<now, doc, status, todo, mine, current, requests, epoch,
                 seen, lost, sends, unanswered, stopped, heard, defied>>

TickReads ==
  /\ list # {}
  /\ current' = CHOOSE a \in list : \A b \in list : a <= b
  /\ list' = list \ {current'}
  /\ \E calls \in TickCalls(doc, current', tickAt) : Reads("tick", calls)
  /\ heard' = stopped
  /\ UNCHANGED requests

-----------------------------------------------------------------------------
(* Writing                                                                 *)

(* Promised for today; LiveAgent has the other dates.                      *)
PromisedFor == now

Edited(d, edit) ==
  CASE edit = "optout" -> [d EXCEPT !.optedOut = TRUE]
    [] edit = "close" -> [d EXCEPT !.status = "written_off"]
    [] edit = "recover" -> [d EXCEPT !.status = "recovered", !.paid = TRUE]
    [] edit = "approve" -> [d EXCEPT !.approved = TRUE]
    [] edit = "promise" -> [d EXCEPT !.promiseDue = PromisedFor]
    [] edit = "notice" -> [d EXCEPT !.notice = TRUE]
    [] edit = "touch" -> d
    [] edit = "count" ->
         [d EXCEPT !.attempts = IF CountsAsAttempt(Planned[current])
                                THEN @ \cup {tickAt} ELSE @,
                   !.status = IF @ = "open" THEN "scheduled" ELSE @]

Calls(h, names) ==
  /\ todo[h] # <<>> /\ Head(todo[h]) \in names
  /\ todo' = [todo EXCEPT ![h] = Tail(@)]
  /\ UNCHANGED <<now, list, current, tickAt, requests, epoch>>

UpsertsCase(h) ==
  LET d == Edited(mine[h], Head(todo[h]))
  IN  /\ Calls(h, Edits)
      /\ doc' = d
      /\ mine' = [mine EXCEPT ![h] = d] /\ seen' = [seen EXCEPT ![h] = d]
      /\ lost' = (lost \/ doc # seen[h])
      /\ UNCHANGED <<status, sends, unanswered, stopped, heard, defied>>

Supersedes(h) ==
  /\ Calls(h, {"supersede"})
  /\ status' = [a \in ActionId |->
                  IF status[a] = "scheduled" THEN "superseded" ELSE status[a]]
  /\ UNCHANGED <<doc, mine, seen, lost, sends, unanswered, stopped, heard, defied>>

Plans(h) ==
  /\ Calls(h, {"plan"})
  /\ \E a \in ActionId : status[a] = "none" /\ status' = [status EXCEPT ![a] = "scheduled"]
  /\ UNCHANGED <<doc, mine, seen, lost, sends, unanswered, stopped, heard, defied>>

Answers(h) ==
  /\ Calls(h, {"answer"})
  /\ stopped' = TRUE
  /\ UNCHANGED <<doc, status, mine, seen, lost, sends, unanswered, heard, defied>>

Sends ==
  /\ Calls("tick", {"send"})
  /\ sends' = [sends EXCEPT ![current] = @ + 1]
  /\ defied' = (defied \/ heard)
  /\ UNCHANGED <<doc, status, mine, seen, lost, unanswered, stopped, heard>>

SavesAction ==
  /\ Calls("tick", Saves)
  /\ status' = [status EXCEPT ![current] = Head(todo["tick"])]
  /\ UNCHANGED <<doc, mine, seen, lost, sends, unanswered, stopped, heard, defied>>

(* The exception ends the tick: the actions left in its list wait for the  *)
(* next one, and the action in hand is stored as it was.                   *)
Raises ==
  LET call == Head(todo["tick"])
  IN  /\ todo["tick"] # <<>> /\ call \in {"raise", "timeout"}
      /\ todo' = [todo EXCEPT !["tick"] = Tail(@)] /\ list' = {}
      /\ unanswered' = [unanswered EXCEPT ![current] = IF call = "timeout" THEN @ + 1 ELSE @]
      /\ UNCHANGED <<now, doc, status, mine, current, tickAt, requests, epoch, seen,
                     lost, sends, stopped, heard, defied>>

-----------------------------------------------------------------------------
(* Every handler under way is cut where it stands.                         *)
Restart ==
  /\ epoch < MaxRestarts
  /\ epoch' = epoch + 1
  /\ todo' = [h \in Handler |-> <<>>] /\ list' = {}
  /\ UNCHANGED <<now, doc, status, mine, current, tickAt, requests, seen, lost,
                 sends, unanswered, stopped, heard, defied>>

Advance ==
  /\ now' \in {t \in TimePoints : t > now /\ \A u \in TimePoints : u > now => t <= u}
  /\ UNCHANGED <<doc, status, todo, mine, list, current, tickAt, requests, epoch,
                 seen, lost, sends, unanswered, stopped, heard, defied>>

Next ==
  \/ Request("worker")
  \/ Request("loop")
  \/ TickStart
  \/ TickReads
  \/ \E h \in Handler : UpsertsCase(h) \/ Supersedes(h) \/ Answers(h)
  \/ Plans("loop")
  \/ Sends
  \/ SavesAction
  \/ Raises
  \/ Restart
  \/ Advance

Spec == Init /\ [][Next]_vars

-----------------------------------------------------------------------------
(* With one ticker an action is sent once, and once more for each restart  *)
(* that may have come between the send and the save (executor.py:168-182)  *)
(* and for each voice call whose provider did not answer after placing it  *)
(* (executor.py:144-149, 56): no interleaving of the other handlers brings *)
(* a sent action back.                                                     *)
SentOnce == \A a \in ActionId : sends[a] <= 1 + epoch + unanswered[a]

PhaseOf(r) == IF r.status \in Active THEN "active" ELSE r.status

Contract == INSTANCE RecoveryContract WITH
  Case <- {"case"}, Time <- TimePoints,
  phase <- [c \in {"case"} |-> PhaseOf(doc)],
  attempts <- [c \in {"case"} |-> doc.attempts],
  opened <- [c \in {"case"} |-> doc.created],
  optedOut <- [c \in {"case"} |-> doc.optedOut]

(* Up to the first lost update every step keeps the recovery contract, in  *)
(* whatever order the store calls of the handlers fall: a stale copy that  *)
(* is written back is the one thing that can break it.                     *)
SafeUntilLost == [][~lost' => [Contract!Next]_(Contract!vars)]_vars

(* Until an update is lost, an answered STOP is on the stored case, which  *)
(* is closed, whatever the other handlers were doing, and no message goes  *)
(* out that a tick decided on after it: the one already in flight is the   *)
(* last (main.py:389-394, 426-431, policy.py:66-70).                       *)
StopHoldsUntilLost ==
  ~lost => ~defied /\ (stopped => doc.optedOut /\ doc.status \in Closed)

-----------------------------------------------------------------------------
(* A statement of the repository's documents that the code does not keep.  *)

(* COMPLIANCE.md:73: "opt-outs end contact immediately": no message is     *)
(* decided on and sent after an opt-out was answered.                      *)
OptOutEndsContact == ~defied
=============================================================================
