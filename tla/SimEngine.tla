------------------------------ MODULE SimEngine ------------------------------
(***************************************************************************)
(* The offline replay: the event loop of simulate/engine.py over the       *)
(* customers of simulate/world.py, driving the same agent, executor and    *)
(* policy gate as the live service, in one thread.                         *)
(*                                                                         *)
(* Events wait in a heap ordered by time and, among equals, by insertion:  *)
(* the sequence heap is that order.  The instants are parsed here, so the  *)
(* IST text of a planned action names the right instant.  The world's      *)
(* hashed draws are choices; a draw the code repeats with the same salt    *)
(* for a case is made once.                                                *)
(***************************************************************************)
EXTENDS Selector, SequencesExt

CONSTANTS
  Batch,          \* the generated payments, in order: one case each
  ClassOf, AmountOf, DebitOf, FailedAt,   \* what each payment says
  Controls,       \* the cases assign_groups puts in the control group
  OptedOut,       \* cases of customers who opted out before
  HorizonDays,    \* simulation.horizon_days
  OrganicDelays,  \* the delays after which an unprompted payment may come
  PromiseDays,    \* the days a promise may be ahead, within 1 .. 7
  Instants        \* the instants the abstract contract may be told of

Case == ToSet(Batch)

(* The classes base_pay_probability names; the world raises on another.    *)
AnsweredClass ==
  {"CUSTOMER_ABANDONMENT", "HARD_DECLINE", "INSUFFICIENT_FUNDS", "INVOICE_OVERDUE",
   "ISSUER_UNAVAILABLE", "MANDATE_ISSUE", "NETWORK_TIMEOUT", "SOFT_DECLINE_OTHER",
   "SUBSCRIPTION_FAILED", "UNKNOWN"}

VisitLimit == 6
PromiseGrace == 6 * Hour

ASSUME EngineAssumption ==
  /\ Batch \in Seq(Case) /\ Batch # <<>> /\ IsInjective(Batch)
  /\ ClassOf \in [Case -> AnsweredClass] /\ AmountOf \in [Case -> Nat]
  /\ DebitOf \in [Case -> BOOLEAN] /\ FailedAt \in [Case -> Nat]
  /\ Controls \subseteq Case /\ OptedOut \subseteq Case
  /\ HorizonDays \in Nat /\ OrganicDelays \subseteq Nat
  /\ PromiseDays \subseteq 1 .. 7 /\ PromiseDays # {}

Start == CHOOSE t \in {FailedAt[c] : c \in Case} : \A c \in Case : t <= FailedAt[c]
Latest == CHOOSE t \in {FailedAt[c] : c \in Case} : \A c \in Case : t >= FailedAt[c]
HorizonEnd == Latest + HorizonDays * Day

VARIABLES
  heap,    \* the events to come, in the order they will be popped
  now,     \* the instant of the event popped last
  row,     \* the case documents
  acts,    \* the actions saved, in order; an action is known by its place
  pledge,  \* what is known of a customer's way with promises
  sent,    \* the executed action the world still has to answer, or 0
  review,  \* cases a sweep, or the end of the run, still has to look at
  stage    \* "replay", or "finalize" once the heap is empty

vars == <<heap, now, row, acts, pledge, sent, review, stage>>

(* Kinds: "case_ingest", "organic", "action_due", "promise_paid", "sweep".  *)
(* subject: an action for "action_due", else a case; a sweep has none.     *)
Event(at, kind, subject) == [at |-> at, kind |-> kind, subject |-> subject]

Later(h, e) == {i \in DOMAIN h : h[i].at > e.at}
Push(h, e) == InsertAt(h, Min(Later(h, e) \cup {Len(h) + 1}), e)

(* Every push but a deferral's is dropped past the horizon.                *)
PushInHorizon(h, e) == IF e.at <= HorizonEnd THEN Push(h, e) ELSE h

Ingests == [i \in DOMAIN Batch |-> Event(FailedAt[Batch[i]], "case_ingest", Batch[i])]
Sweeps ==
  LET count == (HorizonEnd - Start - 1) \div (6 * Hour)
  IN  [k \in 1 .. count |-> Event(Start + k * 6 * Hour, "sweep", 0)]

(* The pushes made before the loop, one after the other.                   *)
First == Ingests \o Sweeps
Filled[n \in 0 .. Len(First)] ==
  IF n = 0 THEN <<>> ELSE Push(Filled[n - 1], First[n])

Document(c, status, created) ==
  [status |-> status, class |-> ClassOf[c], amount |-> AmountOf[c],
   created |-> created, attempts |-> {}, approved |-> FALSE,
   optedOut |-> c \in OptedOut, notice |-> FALSE, paid |-> FALSE,
   promiseDue |-> NoTime]

Init ==
  /\ heap = Filled[Len(First)]
  /\ now = Start
  /\ row = [c \in Case |-> Document(c, "absent", 0)]
  /\ acts = <<>>
  /\ pledge = [c \in Case |-> {}]
  /\ sent = 0
  /\ review = {}
  /\ stage = "replay"

-----------------------------------------------------------------------------
(* The agent                                                               *)

Saved(c, type) == [case |-> c, type |-> type, status |-> "scheduled", visits |-> 0]

SetStatus(table, a, status) == [table EXCEPT ![a].status = status]

Superseded(table, c) ==
  [a \in DOMAIN table |->
     IF table[a].case = c /\ table[a].status = "scheduled"
     THEN [table[a] EXCEPT !.status = "superseded"] ELSE table[a]]

(* plan_and_schedule at t for the document r, and the push of its action.  *)
PlanAndPush(c, r, t, table, h) ==
  \E worth \in BOOLEAN :
    LET steps == NextSteps(r, DebitOf[c], worth, t)
    IN  IF steps = {} THEN acts' = table /\ heap' = h
        ELSE \E s \in steps :
               /\ acts' = Append(table, Saved(c, s.type))
               /\ heap' = PushInHorizon(h,
                            Event(t + s.delay, "action_due", Len(table) + 1))

Recovered(r) == [r EXCEPT !.status = "recovered", !.paid = TRUE]
WrittenOff(r) == [r EXCEPT !.status = "written_off"]

-----------------------------------------------------------------------------
(* The events                                                              *)

Idle == stage = "replay" /\ review = {} /\ sent = 0

Pops(kind) ==
  /\ Idle /\ heap # <<>>
  /\ Head(heap).kind = kind
  /\ now' = Head(heap).at

Ingest ==
  LET c == Head(heap).subject
      r == Document(c, "open", now')
  IN  /\ Pops("case_ingest")
      /\ row' = [row EXCEPT ![c] = r]
      /\ \E h \in {Tail(heap)} \cup
                  {PushInHorizon(Tail(heap), Event(now' + d, "organic", c)) :
                     d \in OrganicDelays} :
           PlanAndPush(c, r, now', acts, h)
      /\ UNCHANGED <<pledge, sent, review, stage>>

(* Mutant: money is booked whatever has become of the case.                *)
StillOwedAlways(c) == TRUE

StillOwed(c) == row[c].status \in Active

(* An unprompted or a promised payment arrives.                            *)
MoneyArrives ==
  LET c == Head(heap).subject
  IN  /\ Pops("organic") \/ Pops("promise_paid")
      /\ heap' = Tail(heap)
      /\ row' = IF StillOwed(c) THEN [row EXCEPT ![c] = Recovered(@)] ELSE row
      /\ acts' = IF StillOwed(c) THEN Superseded(acts, c) ELSE acts
      /\ UNCHANGED <<pledge, sent, review, stage>>

(* Mutant: only untouched cases count as open.                             *)
OpenCasesUntouched == {c \in Case : row[c].status = "open"}

(* open_cases is read once, then each case is looked at in turn.           *)
OpenCases == {c \in Case : row[c].status \in Active}

Sweep ==
  /\ Pops("sweep")
  /\ heap' = Tail(heap)
  /\ review' = OpenCases
  /\ UNCHANGED <<row, acts, pledge, sent, stage>>

(* At the end of the run a case is written off without a test.             *)
Review(c) ==
  /\ c \in review
  /\ review' = review \ {c}
  /\ IF stage = "finalize" \/ ShouldWriteOff(row[c], c \in Controls, now)
     THEN /\ row' = [row EXCEPT ![c] = WrittenOff(@)]
          /\ acts' = Superseded(acts, c)
     ELSE UNCHANGED <<row, acts>>
  /\ UNCHANGED <<heap, now, pledge, sent, stage>>

Finalize ==
  /\ Idle /\ heap = <<>>
  /\ stage' = "finalize"
  /\ review' = OpenCases
  /\ UNCHANGED <<heap, now, row, acts, pledge, sent>>

-----------------------------------------------------------------------------
(* action_due                                                              *)

Due == Head(heap).subject                \* the action popped
DueCase == acts[Due].case
DueType == acts[Due].type
Visited == [acts EXCEPT ![Due].visits = @ + 1]

(* Out of visits, or the case is closed: the action is dropped.  The       *)
(* action's own status is not looked at.                                   *)
Handled == acts[Due].visits < VisitLimit /\ row[DueCase].status \in Active

Drops ==
  /\ Pops("action_due")
  /\ ~Handled
  /\ acts' = Visited /\ heap' = Tail(heap)
  /\ UNCHANGED <<row, pledge, sent, review, stage>>

Gate == Evaluate(row[DueCase], Head(heap).at, IsContact(DueType), IsMoney(DueType))

AtGate(decision) ==
  /\ Pops("action_due")
  /\ Handled
  /\ DueType # "check_promise"
  /\ Gate.decision = decision
  /\ UNCHANGED <<review, stage>>

(* Mutant: a deferred action is pushed again and another one planned.      *)
DefersAndPlans ==
  /\ AtGate("defer")
  /\ Gate.at # NoTime
  /\ row' = [row EXCEPT ![DueCase].notice = @ \/ Gate.reason = "rbi_notice"]
  /\ PlanAndPush(DueCase, row[DueCase], now', Visited,
                 Push(Tail(heap), Event(Gate.at, "action_due", Due)))
  /\ UNCHANGED <<pledge, sent>>

(* Scheduled again at the instant the gate names, past the horizon too.    *)
(* Without one the action stays deferred, and nothing comes back to it.    *)
Defers ==
  /\ AtGate("defer")
  /\ row' = [row EXCEPT ![DueCase].notice = @ \/ Gate.reason = "rbi_notice"]
  /\ IF Gate.at = NoTime
     THEN acts' = SetStatus(Visited, Due, "deferred") /\ heap' = Tail(heap)
     ELSE /\ acts' = Visited
          /\ heap' = Push(Tail(heap), Event(Gate.at, "action_due", Due))
  /\ UNCHANGED <<pledge, sent>>

Blocks ==
  /\ AtGate("block")
  /\ acts' = SetStatus(Visited, Due, "blocked") /\ heap' = Tail(heap)
  /\ UNCHANGED <<row, pledge, sent>>

(* The promise is broken and the ladder resumes.                           *)
ChecksPromise ==
  /\ Pops("action_due")
  /\ Handled
  /\ DueType = "check_promise"
  /\ PlanAndPush(DueCase, row[DueCase], now',
                 SetStatus(Visited, Due, "executed"), Tail(heap))
  /\ UNCHANGED <<row, pledge, sent, review, stage>>

(* execute_action sends, and marks case and action.                        *)
Attempted(r, type, t) ==
  [r EXCEPT !.attempts = IF CountsAsAttempt(type) THEN @ \cup {t} ELSE @,
            !.status = "scheduled"]

Executes ==
  /\ AtGate("execute")
  /\ row' = [row EXCEPT ![DueCase] = Attempted(@, DueType, now')]
  /\ acts' = SetStatus(Visited, Due, "executed") /\ heap' = Tail(heap)
  /\ sent' = Due
  /\ UNCHANGED pledge

-----------------------------------------------------------------------------
(* What follows an executed action: the world's answer.  A control         *)
(* customer never responds.                                                *)

SentCase == acts[sent].case
SentType == acts[sent].type
Responds == CountsAsAttempt(SentType) /\ SentCase \notin Controls

Answers(r) ==
  /\ sent # 0
  /\ sent' = 0
  /\ row' = [row EXCEPT ![SentCase] = r]
  /\ UNCHANGED <<now, review, stage>>

(* An escalation ends the case, and so does a customer's STOP.             *)
Closes ==
  /\ Answers(WrittenOff(row[SentCase]))
  /\ SentType = "escalate_human" \/ Responds
  /\ acts' = Superseded(acts, SentCase)
  /\ UNCHANGED <<heap, pledge>>

Pays ==
  /\ Answers(Recovered(row[SentCase]))
  /\ Responds
  /\ acts' = Superseded(acts, SentCase)
  /\ UNCHANGED <<heap, pledge>>

Ignores ==
  /\ Answers(row[SentCase])
  /\ CountsAsAttempt(SentType)
  /\ PlanAndPush(SentCase, row[SentCase], now, acts, heap)
  /\ UNCHANGED pledge

(* 18:00 IST some days ahead.                                              *)
PromiseDue(t, days) == t - MinuteOfDay(t) + days * Day + 18 * Hour

(* Mutant: the customer pays a day after the promised instant.             *)
PayAtLate(t, due) == due + Day

(* A customer who keeps the promise pays two hours early.                  *)
PayAt(t, due) == IF t + 30 > due - 2 * Hour THEN t + 30 ELSE due - 2 * Hour

Pledges == [days : PromiseDays, keeps : BOOLEAN]

Promises ==
  /\ sent # 0
  /\ Responds /\ IsContact(SentType)
  /\ \E p \in IF pledge[SentCase] = {} THEN Pledges ELSE pledge[SentCase] :
       LET due == PromiseDue(now, p.days)
           table == Append(Superseded(acts, SentCase), Saved(SentCase, "check_promise"))
           checked == PushInHorizon(heap,
                        Event(due + PromiseGrace, "action_due", Len(table)))
       IN  /\ Answers([row[SentCase] EXCEPT !.promiseDue = due])
           /\ pledge' = [pledge EXCEPT ![SentCase] = {p}]
           /\ acts' = table
           /\ heap' = IF p.keeps
                      THEN PushInHorizon(checked,
                             Event(PayAt(now, due), "promise_paid", SentCase))
                      ELSE checked

Done == stage = "finalize" /\ review = {}

Next ==
  \/ Ingest
  \/ MoneyArrives
  \/ Sweep
  \/ \E c \in Case : Review(c)
  \/ Finalize
  \/ Drops
  \/ Defers
  \/ Blocks
  \/ ChecksPromise
  \/ Executes
  \/ Closes
  \/ Pays
  \/ Ignores
  \/ Promises
  \/ Done /\ UNCHANGED vars

Spec == Init /\ [][Next]_vars

(* The loop runs as long as there is something to do.                      *)
FairSpec == Spec /\ WF_vars(Next)

-----------------------------------------------------------------------------
(* What the abstract contract sees of the replay's store.                  *)
PhaseOf(r) == IF r.status \in Active THEN "active" ELSE r.status

Phases == [c \in Case |-> PhaseOf(row[c])]
Attempts == [c \in Case |-> row[c].attempts]
Openings == [c \in Case |-> row[c].created]
OptOuts == [c \in Case |-> row[c].optedOut]

Contract == INSTANCE RecoveryContract WITH
  Time <- Instants, phase <- Phases, attempts <- Attempts,
  opened <- Openings, optedOut <- OptOuts

(* The replay keeps the same contract as the live service: its measured    *)
(* lift is of an agent bound by the caps the customer is promised.         *)
ImplementsContract == Contract!Spec

(* The heap and the actions table agree.  For an active case at most one   *)
(* action waits in the heap, and it is scheduled: the engine, which never  *)
(* looks at the status of the action it pops, runs no superseded action    *)
(* and none twice (engine.py:70-83).                                       *)
WaitsFor(c) ==
  {i \in DOMAIN heap : heap[i].kind = "action_due" /\ acts[heap[i].subject].case = c}
OneThread ==
  \A c \in OpenCases :
    /\ Cardinality(WaitsFor(c)) <= 1
    /\ \A i \in WaitsFor(c) :
         acts[heap[i].subject].status = "scheduled" /\ heap[i].at >= now

(* A promise is declared broken only for a customer who does not keep it:  *)
(* the payment of one who does is popped before the check                  *)
(* (engine.py:132-178, world.py:132-141).                                  *)
BrokenMeansBroken ==
  (/\ Idle /\ heap # <<>> /\ Head(heap).kind = "action_due"
   /\ Handled /\ DueType = "check_promise") =>
     \A p \in pledge[DueCase] : ~p.keeps

(* A closed case stays as it is: no late payment, sweep or action touches  *)
(* it, so each case is counted once (measure.py).                          *)
ClosedIsFinal ==
  [][\A c \in Case : row[c].status \in Closed => row'[c] = row[c]]_vars

(* The replay ends, however often actions are deferred and planned anew,   *)
(* with every case closed.                                                 *)
EveryCaseCloses == \A c \in Case : <>(Done /\ row[c].status \in Closed)

-----------------------------------------------------------------------------
(* A statement of the repository's documents that the code does not keep.  *)

(* COMPLIANCE.md:78: "Control customers receive no outreach".              *)
ControlUntouched == \A c \in Controls : row[c].attempts = {}
=============================================================================
