------------------------------ MODULE LiveAgent ------------------------------
(***************************************************************************)
(* The live service: the HTTP handlers of app/main.py over the SQLite      *)
(* store, the agent of app/agent.py and the executor of app/executor.py.   *)
(*                                                                         *)
(* Grain of atomicity.  A webhook, an inbound reply and an operator call   *)
(* is one step.  A tick is not: it takes the list of due actions and the   *)
(* time once, then handles one action per step, and every other handler    *)
(* may run in between; each of its steps reads the case afresh, as the     *)
(* code does, but acts on the action as it was in the list.  One ticker    *)
(* runs, as deployed.  Every write of the store is a commit of its own, so *)
(* a restart of the process can cut a handler between two writes: the      *)
(* CrashIn... actions.  A restart loses the tick in progress and changes   *)
(* the hash seed that event ids are made from.                             *)
(***************************************************************************)
EXTENDS Selector

CONSTANTS
  Case,           \* one per failed payment: case_id is derived from its id
  ClassOf, AmountOf, CustomerOf,  \* what the payment says about each case
  TimePoints,     \* the instants the modelled clock may show
  PromiseTimes,   \* the instants a customer may promise to pay at
  IngestUntil,    \* bound: no payment fails after this instant
  MaxActions,     \* bound: interventions ever created
  MaxRestarts,    \* bound: restarts of the process
  EventIdInBody,  \* webhook bodies carry an event_id field
  VoiceMayFail    \* a voice provider is configured and may time out

(* Mutant: the grace period is taken off the promised instant.             *)
PromiseGraceEarly == -6 * Hour

PromiseGrace == 6 * Hour
ActionId == 1 .. MaxActions
Dunning == ActionType \ {"check_promise"}
ActionStatus == {"none", "scheduled", "executed", "deferred", "blocked", "superseded"}
EventKind == {"payment.failed", "payment_link.paid"}

ASSUME LiveAssumption ==
  /\ Case # {} /\ ClassOf \in [Case -> FailureClass] /\ AmountOf \in [Case -> Nat]
  /\ TimePoints \subseteq Nat /\ TimePoints # {} /\ PromiseTimes \subseteq Nat
  /\ IngestUntil \in Nat /\ MaxActions \in Nat /\ MaxRestarts \in Nat
  /\ EventIdInBody \in BOOLEAN /\ VoiceMayFail \in BOOLEAN

VARIABLES
  now,        \* the clock
  row,        \* cases table: the JSON document of each case
  act,        \* actions table
  tickDue,    \* the actions the running tick still has to handle
  tickAt,     \* the running tick's "now"
  processed,  \* webhook_events table
  epoch,      \* incarnation of the process
  noticedAt   \* history: when the pre-debit notice of a case was recorded

vars == <<now, row, act, tickDue, tickAt, processed, epoch, noticedAt>>

EventId(kind, c) == <<kind, c, IF EventIdInBody THEN 0 ELSE epoch>>

(* due is the scheduled_at column, which is all due_actions reads and which *)
(* a later save of the same action does not change.                         *)
ActionRow == [case : Case, type : ActionType, status : ActionStatus, due : Nat]

TypeOK ==
  /\ now \in TimePoints
  /\ row \in [Case -> CaseFields]
  /\ act \in [ActionId -> ActionRow]
  /\ tickDue \subseteq ActionId
  /\ tickAt \in TimePoints
  /\ processed \subseteq EventKind \X Case \X (0 .. MaxRestarts)
  /\ epoch \in 0 .. MaxRestarts
  /\ noticedAt \in [Case -> TimePoints \cup {NoTime}]

(* The document of a case before any handler but the ingest has touched it. *)
Document(c, status, created) ==
  [status |-> status, class |-> ClassOf[c], amount |-> AmountOf[c],
   created |-> created, attempts |-> {}, approved |-> FALSE, optedOut |-> FALSE,
   notice |-> FALSE, paid |-> FALSE, promiseDue |-> NoTime]

NoAction ==
  [case |-> CHOOSE c \in Case : TRUE, type |-> "check_promise", status |-> "none", due |-> 0]

Init ==
  /\ now \in TimePoints /\ \A t \in TimePoints : now <= t
  /\ row = [c \in Case |-> Document(c, "absent", 0)]
  /\ act = [a \in ActionId |-> NoAction]
  /\ tickDue = {}
  /\ tickAt = now
  /\ processed = {}
  /\ epoch = 0
  /\ noticedAt = [c \in Case |-> NoTime]

-----------------------------------------------------------------------------
(* The store and the agent                                                 *)

Unused == {a \in ActionId : act[a].status = "none"}
FreshId == CHOOSE a \in Unused : \A b \in Unused : a <= b

Saved(c, type, due) == [case |-> c, type |-> type, status |-> "scheduled", due |-> due]

(* supersede_scheduled                                                     *)
Superseded(c) ==
  [a \in ActionId |->
     IF act[a].case = c /\ act[a].status = "scheduled"
     THEN [act[a] EXCEPT !.status = "superseded"] ELSE act[a]]

(* plan_and_schedule for the case document r.  A live payment carries no   *)
(* subscription id.  The planned instant is stored as IST text, which      *)
(* due_actions compares with a UTC text: the action falls due IstOffset    *)
(* after the instant that was planned.                                     *)
PlanAndSchedule(c, r) ==
  \E worth \in BOOLEAN :
    LET steps == IF r.status \in Closed THEN {} ELSE NextSteps(r, FALSE, worth, now)
    IN  IF steps = {} THEN act' = act
        ELSE /\ Unused # {}
             /\ \E s \in steps :
                  act' = [act EXCEPT ![FreshId] =
                            Saved(c, s.type, now + s.delay + IstOffset)]

Recovered(r) == [r EXCEPT !.status = "recovered", !.paid = TRUE]

(* Mutant: the scheduled actions of a recovered case are left in place.    *)
MarkRecoveredKeepsLadder(c) ==
  IF row[c].status = "recovered" THEN UNCHANGED <<row, act>>
  ELSE row' = [row EXCEPT ![c] = Recovered(@)] /\ act' = act

MarkRecovered(c) ==
  IF row[c].status = "recovered" THEN UNCHANGED <<row, act>>
  ELSE /\ row' = [row EXCEPT ![c] = Recovered(@)]
       /\ act' = Superseded(c)

(* write_off of the document r of case c; no test of its status.           *)
WriteOff(c, r) ==
  /\ row' = [row EXCEPT ![c] = [r EXCEPT !.status = "written_off"]]
  /\ act' = Superseded(c)

(* The process dies and comes back: what was committed is what is left.    *)
Restarted ==
  /\ epoch < MaxRestarts
  /\ epoch' = epoch + 1
  /\ tickDue' = {}
  /\ UNCHANGED <<now, tickAt, processed>>

-----------------------------------------------------------------------------
(* POST /webhooks/razorpay                                                 *)

(* Mutant: a redelivered failure replaces the stored document.             *)
IngestedAnew(c) == Document(c, "open", now)

(* get_case_by_payment, or else ingest_failure.                            *)
Ingested(c) == IF row[c].status = "absent" THEN Document(c, "open", now) ELSE row[c]

(* The case is planned again on every delivery that is not recognised.     *)
PaymentFailed(c) ==
  /\ now <= IngestUntil
  /\ EventId("payment.failed", c) \notin processed
  /\ row' = [row EXCEPT ![c] = Ingested(c)]
  /\ PlanAndSchedule(c, Ingested(c))
  /\ processed' = processed \cup {EventId("payment.failed", c)}
  /\ UNCHANGED <<now, tickDue, tickAt, epoch, noticedAt>>

(* The case is stored, the action perhaps, and the event is not marked.    *)
CrashInPaymentFailed(c) ==
  /\ now <= IngestUntil
  /\ EventId("payment.failed", c) \notin processed
  /\ row' = [row EXCEPT ![c] = Ingested(c)]
  /\ PlanAndSchedule(c, Ingested(c)) \/ act' = act
  /\ Restarted
  /\ UNCHANGED noticedAt

PaymentLinkPaid(c) ==
  /\ EventId("payment_link.paid", c) \notin processed
  /\ row[c].status # "absent"
  /\ MarkRecovered(c)
  /\ processed' = processed \cup {EventId("payment_link.paid", c)}
  /\ UNCHANGED <<now, tickDue, tickAt, epoch, noticedAt>>

-----------------------------------------------------------------------------
(* POST /inbound/reply.  The reply reaches the newest active case of the   *)
(* phone it came from; a reply with no such case, or whose text has no     *)
(* known intent, changes nothing but the audit.                            *)

(* Mutant: closed cases of the phone are found too.                        *)
AnyOf(p) == {c \in Case : CustomerOf[c] = p /\ row[c].status # "absent"}

ActiveOf(p) == {c \in Case : CustomerOf[c] = p /\ row[c].status \in Active}

Addressed(c) ==
  /\ c \in ActiveOf(CustomerOf[c])
  /\ \A d \in ActiveOf(CustomerOf[c]) : row[d].created <= row[c].created

ReplyUnchanged == UNCHANGED <<now, tickDue, tickAt, processed, epoch, noticedAt>>

ReplyStop(c) ==
  /\ Addressed(c)
  /\ WriteOff(c, [row[c] EXCEPT !.optedOut = TRUE])
  /\ ReplyUnchanged

ReplyPaid(c) == Addressed(c) /\ MarkRecovered(c) /\ ReplyUnchanged

ReplyRefused(c) == Addressed(c) /\ WriteOff(c, row[c]) /\ ReplyUnchanged

(* Mutant: the check of an earlier promise is left in place.               *)
ReplyPromiseKeepsLadder(c, due) ==
  /\ Addressed(c)
  /\ Unused # {}
  /\ row' = [row EXCEPT ![c] = [@ EXCEPT !.promiseDue = due]]
  /\ act' = [act EXCEPT ![FreshId] = Saved(c, "check_promise", due + PromiseGrace)]
  /\ ReplyUnchanged

(* The ladder is superseded and a check is scheduled, in UTC, six hours    *)
(* after the promised instant (which "aaj" can place in the past).         *)
ReplyPromise(c, due) ==
  /\ Addressed(c)
  /\ Unused # {}
  /\ row' = [row EXCEPT ![c] = [@ EXCEPT !.promiseDue = due]]
  /\ act' = [Superseded(c) EXCEPT ![FreshId] =
               Saved(c, "check_promise", due + PromiseGrace)]
  /\ ReplyUnchanged

-----------------------------------------------------------------------------
(* Operator endpoints                                                      *)

Approve(c) ==
  /\ row[c].status # "absent"
  /\ row' = [row EXCEPT ![c] = [@ EXCEPT !.approved = TRUE]]
  /\ UNCHANGED <<now, act, tickDue, tickAt, processed, epoch, noticedAt>>

(* Any stored case, a recovered one included.                              *)
OperatorOptOut(c) ==
  /\ row[c].status # "absent"
  /\ WriteOff(c, [row[c] EXCEPT !.optedOut = TRUE])
  /\ UNCHANGED <<now, tickDue, tickAt, processed, epoch, noticedAt>>

(* The failing draw stores the case as it was read.                        *)
DemoVerify(c) ==
  /\ row[c].status \notin {"absent", "recovered"}
  /\ MarkRecovered(c)
  /\ UNCHANGED <<now, tickDue, tickAt, processed, epoch, noticedAt>>

(* A demo batch, streamed or over the replay socket, runs the replay over  *)
(* the store of the service: its last pass writes off every case still     *)
(* open, the live ones too, one commit after another.                      *)
BatchRunCloses(c) ==
  /\ row[c].status \in Active
  /\ WriteOff(c, row[c])
  /\ UNCHANGED <<now, tickDue, tickAt, processed, epoch, noticedAt>>

-----------------------------------------------------------------------------
(* POST /tick                                                              *)

DueActions == {a \in ActionId : act[a].status = "scheduled" /\ act[a].due <= now}

TickStart ==
  /\ tickDue = {}
  /\ DueActions # {}
  /\ tickDue' = DueActions
  /\ tickAt' = now
  /\ UNCHANGED <<now, row, act, processed, epoch, noticedAt>>

(* The list is in the order of the scheduled_at column.                    *)
NextInTick(a) == a \in tickDue /\ \A b \in tickDue : act[a].due <= act[b].due

CaseOf(a) == row[act[a].case]

SetStatus(a, status) == act' = [act EXCEPT ![a] = [@ EXCEPT !.status = status]]

Handled(a) ==
  /\ tickDue' = tickDue \ {a}
  /\ UNCHANGED <<now, tickAt, processed, epoch>>

SkipClosed(a) ==
  /\ NextInTick(a)
  /\ CaseOf(a).status \in Closed
  /\ act' = Superseded(act[a].case)
  /\ Handled(a)
  /\ UNCHANGED <<row, noticedAt>>

(* A broken promise is audited; nothing is planned in its place.           *)
CheckPromise(a) ==
  /\ NextInTick(a)
  /\ CaseOf(a).status \in Active
  /\ act[a].type = "check_promise"
  /\ SetStatus(a, "executed")
  /\ Handled(a)
  /\ UNCHANGED <<row, noticedAt>>

(* execute_action reaches the gate with the freshly read case.             *)
Gate(a) == Evaluate(CaseOf(a), tickAt, IsContact(act[a].type), IsMoney(act[a].type))

AtGate(a, decision) ==
  /\ NextInTick(a)
  /\ CaseOf(a).status \in Active
  /\ act[a].type \in Dunning
  /\ Gate(a).decision = decision

(* Mutant: the notice is audited and not stored on the case.               *)
RecordNoticeNowhere(a) == UNCHANGED <<row, noticedAt>>

RecordNotice(a) ==
  LET c == act[a].case
      notice == Gate(a).reason = "rbi_notice"
  IN  /\ row' = [row EXCEPT ![c].notice = @ \/ notice]
      /\ noticedAt' = [noticedAt EXCEPT ![c] = IF notice THEN tickAt ELSE @]

(* With an instant the action is scheduled again, without one (above the   *)
(* cap) it stays deferred.                                                 *)
GateDefers(a) ==
  /\ AtGate(a, "defer")
  /\ SetStatus(a, IF Gate(a).at = NoTime THEN "deferred" ELSE "scheduled")
  /\ RecordNotice(a)
  /\ Handled(a)

GateBlocks(a) ==
  /\ AtGate(a, "block")
  /\ SetStatus(a, "blocked")
  /\ Handled(a)
  /\ UNCHANGED <<row, noticedAt>>

NeedsLink(type) == IsContact(type) \/ type = "retry_payment_link"

LinkFails(a) ==
  /\ AtGate(a, "execute")
  /\ NeedsLink(act[a].type)
  /\ SetStatus(a, "blocked")
  /\ Handled(a)
  /\ UNCHANGED <<row, noticedAt>>

(* An exception of the voice provider leaves the handler: nothing is       *)
(* stored and the rest of the list is abandoned.                           *)
VoiceRaises(a) ==
  /\ VoiceMayFail
  /\ AtGate(a, "execute")
  /\ act[a].type = "nudge_voice"
  /\ tickDue' = {}
  /\ UNCHANGED <<now, row, act, tickAt, processed, epoch, noticedAt>>

(* Sent: the attempt is counted and an open case becomes scheduled.        *)
Attempted(r, type) ==
  [r EXCEPT !.attempts = IF CountsAsAttempt(type) THEN @ \cup {tickAt} ELSE @,
            !.status = "scheduled"]

Executes(a) ==
  LET c == act[a].case
  IN  /\ AtGate(a, "execute")
      /\ SetStatus(a, "executed")
      /\ row' = [row EXCEPT ![c] = Attempted(@, act[a].type)]
      /\ Handled(a)
      /\ UNCHANGED noticedAt

TickStep(a) ==
  \/ SkipClosed(a)
  \/ CheckPromise(a)
  \/ GateDefers(a)
  \/ GateBlocks(a)
  \/ LinkFails(a)
  \/ VoiceRaises(a)
  \/ Executes(a)

-----------------------------------------------------------------------------
(* Crashes.  A case is closed by storing its document and then superseding *)
(* its actions; an opt-out stores the flag before it stores the status.    *)
CrashInClosing(c) ==
  /\ \/ /\ row[c].status \notin {"absent", "recovered"}
        /\ row' = [row EXCEPT ![c] = Recovered(@)]
        /\ act' \in {act, Superseded(c)}
     \/ /\ row[c].status # "absent"
        /\ \E s \in {row[c].status, "written_off"} :
             row' = [row EXCEPT ![c] = [@ EXCEPT !.optedOut = TRUE, !.status = s]]
        /\ act' = act
     \/ /\ row[c].status \in Active
        /\ row' = [row EXCEPT ![c] = [@ EXCEPT !.status = "written_off"]]
        /\ act' = act
  /\ Restarted
  /\ UNCHANGED noticedAt

(* The promise is stored and its check is not: with the ladder superseded, *)
(* the case is left active with nothing scheduled.                         *)
CrashInPromise(c, due) ==
  /\ Addressed(c)
  /\ row' = [row EXCEPT ![c] = [@ EXCEPT !.promiseDue = due]]
  /\ act' \in {act, Superseded(c)}
  /\ Restarted
  /\ UNCHANGED noticedAt

(* The first of two saves of a deferred action is stored as "deferred".    *)
CrashInDefers(a) ==
  /\ AtGate(a, "defer")
  /\ RecordNotice(a)
  /\ act' = act \/ SetStatus(a, "deferred")
  /\ Restarted

(* The message is out and the action saved; the attempt is not counted.    *)
CrashInExecutes(a) ==
  /\ AtGate(a, "execute")
  /\ SetStatus(a, "executed")
  /\ Restarted
  /\ UNCHANGED <<row, noticedAt>>

Restart == Restarted /\ UNCHANGED <<row, act, noticedAt>>

Advance ==
  /\ now' \in {t \in TimePoints : t > now /\ \A u \in TimePoints : u > now => t <= u}
  /\ UNCHANGED <<row, act, tickDue, tickAt, processed, epoch, noticedAt>>

Handlers(c) ==
  \/ PaymentFailed(c)
  \/ PaymentLinkPaid(c)
  \/ ReplyStop(c)
  \/ ReplyPaid(c)
  \/ ReplyRefused(c)
  \/ \E due \in PromiseTimes : ReplyPromise(c, due)
  \/ Approve(c)
  \/ OperatorOptOut(c)
  \/ DemoVerify(c)
  \/ BatchRunCloses(c)

Crashes ==
  \/ \E c \in Case :
       \/ CrashInPaymentFailed(c)
       \/ CrashInClosing(c)
       \/ \E due \in PromiseTimes : CrashInPromise(c, due)
  \/ \E a \in ActionId : CrashInDefers(a) \/ CrashInExecutes(a)
  \/ Restart

Next ==
  \/ \E c \in Case : Handlers(c)
  \/ TickStart
  \/ \E a \in ActionId : TickStep(a)
  \/ Crashes
  \/ Advance

Spec == Init /\ [][Next]_vars

(* The ticker calls /tick every minute and waits for the answer, and time  *)
(* passes; nothing else is bound to happen.                                *)
FairSpec ==
  /\ Spec
  /\ WF_vars(Advance)
  /\ WF_vars(TickStart)
  /\ WF_vars(\E a \in ActionId : TickStep(a))

-----------------------------------------------------------------------------
(* What the abstract contract sees of the store.                           *)
PhaseOf(r) == IF r.status \in Active THEN "active" ELSE r.status

Phases == [c \in Case |-> PhaseOf(row[c])]
Attempts == [c \in Case |-> row[c].attempts]
Openings == [c \in Case |-> row[c].created]
OptOuts == [c \in Case |-> row[c].optedOut]

Contract == INSTANCE RecoveryContract WITH
  Time <- TimePoints, phase <- Phases, attempts <- Attempts,
  opened <- Openings, optedOut <- OptOuts

(* The handlers, whatever their interleaving with a tick, do to each case  *)
(* only what the contract of a recovery case allows.                       *)
ImplementsContract == Contract!Spec

(* Recorded attempts of a case are at least the cooldown apart, across     *)
(* several planned actions, deferrals and restarts (policy.py:104-111).    *)
AttemptsSpaced == Contract!Spaced

(* No window of attempt_window_hours holds more than max_attempts_per_case *)
(* recorded attempts of a case (policy.py:98-102).                         *)
AttemptsCapped == Contract!Capped

(* An opt-out, by reply or by an operator, is final: no redelivery clears  *)
(* it and no later attempt of the case is recorded (policy.py:69-70).      *)
OptOutIsFinal == Contract!OptOutIsFinal

(* Until a restart, an action that a tick could still pick up belongs to   *)
(* an active case: every way of closing a case supersedes its scheduled    *)
(* actions, and no handler, a tick acting on a stale list included,        *)
(* schedules one for a closed case.                                        *)
ScheduledIsActive ==
  epoch = 0 =>
    \A a \in ActionId :
      act[a].status = "scheduled" => row[act[a].case].status \in Active

(* Until a restart, a pending promise check is the one of the customer's   *)
(* latest promise: a new promise replaces the check of the older one       *)
(* (main.py:435-454).                                                      *)
CheckMatchesPromise ==
  epoch = 0 =>
    \A a \in ActionId :
      act[a].status = "scheduled" /\ act[a].type = "check_promise" =>
        act[a].due = row[act[a].case].promiseDue + PromiseGrace

(* Money booked on a case and its status agree: a recovered case has been  *)
(* paid, and a paid case is recovered unless an opt-out closed it later.   *)
MoneyAgrees ==
  \A c \in Case :
    /\ row[c].status = "recovered" => row[c].paid
    /\ row[c].paid => \/ row[c].status = "recovered"
                      \/ row[c].status = "written_off" /\ row[c].optedOut

(* A charge or link above the auto-action cap has gone out only for a case *)
(* that a human approved, before that tick reached it (policy.py:74-82).   *)
ChargesApproved ==
  \A a \in ActionId :
    (/\ act[a].status = "executed"
     /\ act[a].type \in MoneyTypes
     /\ row[act[a].case].amount > AutoActionCap) => row[act[a].case].approved

(* The first attempt on a large mandate comes after its pre-debit notice   *)
(* was recorded, and the record survives (policy.py:84-96).                *)
NoticePrecedesAttempts ==
  \A c \in Case :
    (/\ row[c].class = "MANDATE_ISSUE"
     /\ row[c].amount >= RbiThreshold
     /\ row[c].attempts # {}) =>
       /\ row[c].notice
       /\ noticedAt[c] # NoTime
       /\ \A u \in row[c].attempts : noticedAt[c] <= u

(* Every scheduled action is eventually executed, blocked, superseded or   *)
(* left deferred: no deferral repeats for ever.                            *)
ScheduledSettles ==
  \A a \in ActionId : act[a].status = "scheduled" ~> act[a].status # "scheduled"

-----------------------------------------------------------------------------
(* Statements of the repository's documents that the code does not keep.   *)

(* main.py:402-403: a promise-to-pay "pauses the ladder, schedules a       *)
(* check": while a check is pending, no dunning action is scheduled.       *)
PromisePausesLadder ==
  \A a, b \in ActionId :
    ~ /\ act[a].case = act[b].case
      /\ act[a].status = "scheduled" /\ act[a].type = "check_promise"
      /\ act[b].status = "scheduled" /\ act[b].type \in Dunning

(* policy.py:85: a large mandate gets a 24 h pre-debit notice before the   *)
(* first attempt.                                                          *)
NoticeLeadTime ==
  \A c \in Case :
    noticedAt[c] # NoTime =>
      \A u \in row[c].attempts : u >= noticedAt[c] + NoticeDelay

(* COMPLIANCE.md:16: "Automation always terminates in a human, never a     *)
(* silent drop": a case that is still open is eventually closed.           *)
CasesTerminate ==
  \A c \in Case : row[c].status \in Active ~> row[c].status \in Closed
=============================================================================
