--------------------------- MODULE LiveAgentProofs ---------------------------
(***************************************************************************)
(* Theorems about the live service, for any set of cases, any policy       *)
(* numbers and any number of ticks, redeliveries and restarts.             *)
(***************************************************************************)
EXTENDS LiveAgent, GateProofs

(* The inductive invariant: types, finitely many attempts, and a blank     *)
(* document for a case nobody has ingested.                                *)
FiniteAttempts == \A c \in Case : IsFiniteSet(row[c].attempts)
AbsentIsBlank ==
  \A c \in Case : row[c].status = "absent" => row[c] = Document(c, "absent", 0)
LiveInv == TypeOK /\ FiniteAttempts /\ AbsentIsBlank

(* The ways a step may change the document of a case, as the contract      *)
(* sees it.                                                                *)
SameView(old, new) ==
  /\ PhaseOf(new) = PhaseOf(old)
  /\ new.attempts = old.attempts /\ new.created = old.created
  /\ new.optedOut = old.optedOut
Counts(old, new) ==
  /\ old.status \in Active /\ new.status \in Active
  /\ ~old.optedOut /\ ~new.optedOut
  /\ ~NeedsNotice(old)
  /\ ~CoolingDown(old, tickAt)
  /\ ~(AttemptsInWindow(old, tickAt) >= MaxAttempts)
  /\ ~(tickAt >= old.created + CaseExpiry)
  /\ new.attempts = old.attempts \cup {tickAt} /\ new.created = old.created
Closes(old, new) ==
  /\ new.attempts = old.attempts /\ new.created = old.created
  /\ \/ /\ old.status # "absent" /\ new.status = "recovered"
        /\ new.optedOut = old.optedOut
     \/ /\ old.status \in Active /\ new.status = "written_off"
        /\ new.optedOut = old.optedOut
     \/ /\ old.status # "absent" /\ new.status \in {old.status, "written_off"}
        /\ new.optedOut
Opens(c, old, new) == old.status = "absent" /\ new = Document(c, "open", now)

Changes(c, old, new) ==
  Opens(c, old, new) \/ SameView(old, new) \/ Counts(old, new) \/ Closes(old, new)

(* What a step never takes back from a stored case.                        *)
Keeps(old, new) ==
  /\ new.amount = old.amount /\ new.class = old.class
  /\ old.approved => new.approved
  /\ old.notice => new.notice

RowStep ==
  \/ row' = row
  \/ \E c \in Case, r \in CaseFields :
       /\ row' = [row EXCEPT ![c] = r]
       /\ r.status # "absent"
       /\ Changes(c, row[c], r)
       /\ row[c].status = "absent" \/ Keeps(row[c], r)

LEMMA DocumentType ==
  ASSUME NEW c \in Case, NEW status \in {"absent", "open"}, NEW created \in Nat
  PROVE  /\ Document(c, status, created) \in CaseFields
         /\ Document(c, status, created).status = status
         /\ Document(c, status, created).attempts = {}
         /\ Document(c, status, created).created = created
         /\ Document(c, status, created).optedOut = FALSE
  BY LiveAssumption DEF Document, CaseFields, Active, Closed, NoTime

(* What the store's clock and rows hold, for any case.                     *)
LEMMA RowFacts ==
  ASSUME TypeOK, NEW c \in Case
  PROVE  /\ row[c] \in CaseFields /\ now \in Nat /\ tickAt \in Nat
         /\ row[c].status \in {"open", "scheduled", "recovered", "written_off", "absent"}
  BY LiveAssumption DEF TypeOK, CaseFields, Active, Closed

(* A change keeps the rows typed and the attempts finite.                  *)
LEMMA RowStepKeepsRows ==
  ASSUME LiveInv, RowStep
  PROVE  row' \in [Case -> CaseFields] /\ FiniteAttempts' /\ AbsentIsBlank'
<1>1. CASE row' = row
  BY <1>1 DEF LiveInv, TypeOK, FiniteAttempts, AbsentIsBlank, Document
<1>2. ASSUME NEW c \in Case, NEW r \in CaseFields,
             row' = [row EXCEPT ![c] = r], r.status # "absent", Changes(c, row[c], r)
      PROVE  row' \in [Case -> CaseFields] /\ FiniteAttempts' /\ AbsentIsBlank'
  <2>1. /\ row \in [Case -> CaseFields]
        /\ row'[c] = r
        /\ \A d \in Case : d # c => row'[d] = row[d]
    BY <1>2 DEF LiveInv, TypeOK
  <2>2. row' \in [Case -> CaseFields]
    BY <1>2, <2>1
  <2>3. IsFiniteSet(r.attempts)
    <3>1. IsFiniteSet(row[c].attempts)
      BY DEF LiveInv, FiniteAttempts
    <3>2. \/ r.attempts = {} \/ r.attempts = row[c].attempts
          \/ r.attempts = row[c].attempts \cup {tickAt}
      BY <1>2 DEF Changes, Opens, SameView, Counts, Closes, Document
    <3> QED
      BY <3>1, <3>2, FS_EmptySet, FS_AddElement
  <2>4. FiniteAttempts'
    BY <2>1, <2>3 DEF LiveInv, FiniteAttempts
  <2>5. AbsentIsBlank'
    BY <1>2, <2>1 DEF LiveInv, AbsentIsBlank, Document
  <2> QED
    BY <2>2, <2>4, <2>5
<1> QED
  BY <1>1, <1>2 DEF RowStep

-----------------------------------------------------------------------------
(* Actions stay typed.                                                     *)
ActType == act \in [ActionId -> ActionRow]

LEMMA SupersededType ==
  ASSUME ActType, NEW c \in Case PROVE Superseded(c) \in [ActionId -> ActionRow]
  BY DEF ActType, Superseded, ActionRow, ActionStatus

LEMMA SetStatusType ==
  ASSUME ActType, NEW a \in ActionId, NEW status \in ActionStatus, SetStatus(a, status)
  PROVE  ActType'
  BY DEF ActType, SetStatus, ActionRow

LEMMA SavedType ==
  ASSUME NEW c \in Case, NEW type \in ActionType, NEW due \in Nat
  PROVE  Saved(c, type, due) \in ActionRow
  BY DEF Saved, ActionRow, ActionStatus

LEMMA PlanType ==
  ASSUME ActType, NEW c \in Case, NEW r \in CaseFields, IsFiniteSet(r.attempts),
         now \in Nat, PlanAndSchedule(c, r)
  PROVE  ActType'
<1>1. CASE act' = act
  BY <1>1 DEF ActType
<1>2. ASSUME NEW worth \in BOOLEAN, NEW s \in NextSteps(r, FALSE, worth, now),
             act' = [act EXCEPT ![FreshId] = Saved(c, s.type, now + s.delay + IstOffset)]
      PROVE  ActType'
  <2>1. s.type \in ActionType /\ now + s.delay + IstOffset \in Nat
    <3>1. IsStep(s)
      BY <1>2, NextStepsType
    <3> QED
      BY <3>1 DEF IsStep, Planned, IstOffset
  <2>2. Saved(c, s.type, now + s.delay + IstOffset) \in ActionRow
    BY <2>1, SavedType
  <2> QED
    BY <1>2, <2>2 DEF ActType
<1> QED
  BY <1>1, <1>2 DEF PlanAndSchedule

LEMMA CheckType ==
  ASSUME ActType, NEW c \in Case, NEW due \in Nat,
         act' = [Superseded(c) EXCEPT ![FreshId] = Saved(c, "check_promise", due)]
  PROVE  ActType'
<1>1. Saved(c, "check_promise", due) \in ActionRow
  BY SavedType DEF ActionType
<1> QED
  BY <1>1, SupersededType DEF ActType

(* The variables other than row and act.                                   *)
RestType ==
  /\ now \in TimePoints /\ tickAt \in TimePoints
  /\ tickDue \subseteq ActionId
  /\ processed \subseteq EventKind \X Case \X (0 .. MaxRestarts)
  /\ epoch \in 0 .. MaxRestarts
  /\ noticedAt \in [Case -> TimePoints \cup {NoTime}]

Typed == RestType' /\ ActType' /\ RowStep

LEMMA TypeParts == TypeOK <=> RestType /\ ActType /\ row \in [Case -> CaseFields]
  BY DEF TypeOK, RestType, ActType

LEMMA EventIdType ==
  ASSUME RestType, NEW kind \in EventKind, NEW c \in Case
  PROVE  EventId(kind, c) \in EventKind \X Case \X (0 .. MaxRestarts)
  BY LiveAssumption DEF EventId, RestType

LEMMA RestartedType ==
  ASSUME RestType, Restarted, noticedAt' = noticedAt PROVE RestType'
  BY LiveAssumption DEF RestType, Restarted

-----------------------------------------------------------------------------
(* The handlers.                                                           *)
LEMMA IngestedRow ==
  ASSUME LiveInv, NEW c \in Case, row' = [row EXCEPT ![c] = Ingested(c)]
  PROVE  /\ RowStep
         /\ Ingested(c) \in CaseFields
         /\ IsFiniteSet(Ingested(c).attempts)
<1>1. row[c] \in CaseFields /\ now \in Nat /\ IsFiniteSet(row[c].attempts)
  BY RowFacts DEF LiveInv, FiniteAttempts
<1>2. CASE row[c].status = "absent"
  <2>1. Ingested(c) = Document(c, "open", now)
    BY <1>2 DEF Ingested
  <2>2. Changes(c, row[c], Ingested(c))
    BY <1>2, <2>1 DEF Changes, Opens
  <2>3. /\ Ingested(c) \in CaseFields
        /\ Ingested(c).status = "open" /\ Ingested(c).attempts = {}
    BY <1>1, <2>1, LiveAssumption DEF Document, CaseFields, Active, Closed, NoTime
  <2>4. RowStep
    BY <1>2, <2>2, <2>3 DEF RowStep
  <2> QED
    BY <2>3, <2>4, FS_EmptySet
<1>3. CASE row[c].status # "absent"
  <2>1. Ingested(c) = row[c]
    BY <1>3 DEF Ingested
  <2>2. row' = row
    BY <2>1 DEF LiveInv, TypeOK
  <2> QED
    BY <1>1, <2>1, <2>2 DEF RowStep
<1> QED
  BY <1>2, <1>3

LEMMA MarkRecoveredTyped ==
  ASSUME LiveInv, NEW c \in Case, row[c].status # "absent", MarkRecovered(c)
  PROVE  RowStep /\ ActType'
<1>1. CASE UNCHANGED <<row, act>>
  BY <1>1, TypeParts DEF RowStep, ActType, LiveInv
<1>2. CASE row' = [row EXCEPT ![c] = Recovered(@)] /\ act' = Superseded(c)
  <2>1. row[c] \in CaseFields
    BY RowFacts DEF LiveInv
  <2>2. Recovered(row[c]) \in CaseFields /\ Recovered(row[c]).status = "recovered"
    BY <2>1 DEF Recovered, CaseFields, Closed
  <2>3. Closes(row[c], Recovered(row[c])) /\ Keeps(row[c], Recovered(row[c]))
    BY <2>1, <2>2 DEF Closes, Keeps, Recovered, CaseFields
  <2>4. row' = [row EXCEPT ![c] = Recovered(row[c])]
    BY <1>2 DEF LiveInv, TypeOK
  <2> QED
    BY <1>2, <2>2, <2>3, <2>4, SupersededType, TypeParts DEF RowStep, Changes, ActType, LiveInv
<1> QED
  BY <1>1, <1>2 DEF MarkRecovered

(* A write-off of an active case, or of any case that opts out.            *)
LEMMA WriteOffTyped ==
  ASSUME LiveInv, NEW c \in Case, row[c].status # "absent",
         NEW r \in CaseFields, WriteOff(c, r),
         (r = row[c] /\ row[c].status \in Active) \/ r = [row[c] EXCEPT !.optedOut = TRUE]
  PROVE  RowStep /\ ActType'
<1> DEFINE new == [r EXCEPT !.status = "written_off"]
<1>1. row[c] \in CaseFields
  BY RowFacts DEF LiveInv
<1>2. new \in CaseFields /\ new.status = "written_off"
  BY DEF CaseFields, Closed
<1>3. Closes(row[c], new) /\ Keeps(row[c], new)
  BY <1>1 DEF Closes, Keeps, CaseFields
<1>4. row' = [row EXCEPT ![c] = new] /\ act' = Superseded(c)
  BY DEF WriteOff
<1> QED
  BY <1>2, <1>3, <1>4, SupersededType, TypeParts DEF RowStep, Changes, ActType, LiveInv

LEMMA PaymentFailedTyped ==
  ASSUME LiveInv, NEW c \in Case, PaymentFailed(c) PROVE Typed
<1>1. RowStep /\ Ingested(c) \in CaseFields /\ IsFiniteSet(Ingested(c).attempts)
  BY IngestedRow DEF PaymentFailed
<1>2. ActType'
  BY <1>1, PlanType, RowFacts, TypeParts DEF PaymentFailed, LiveInv
<1>3. EventId("payment.failed", c) \in EventKind \X Case \X (0 .. MaxRestarts)
  BY EventIdType, TypeParts DEF LiveInv, EventKind
<1>4. RestType'
  BY <1>3, TypeParts DEF PaymentFailed, LiveInv, RestType
<1> QED
  BY <1>1, <1>2, <1>4 DEF Typed

LEMMA PaymentLinkPaidTyped ==
  ASSUME LiveInv, NEW c \in Case, PaymentLinkPaid(c) PROVE Typed
<1>1. RowStep /\ ActType'
  BY MarkRecoveredTyped DEF PaymentLinkPaid
<1>2. EventId("payment_link.paid", c) \in EventKind \X Case \X (0 .. MaxRestarts)
  BY EventIdType, TypeParts DEF LiveInv, EventKind
<1>3. RestType'
  BY <1>2, TypeParts DEF PaymentLinkPaid, LiveInv, RestType
<1> QED
  BY <1>1, <1>3 DEF Typed

LEMMA OptOutRow ==
  ASSUME LiveInv, NEW c \in Case
  PROVE  [row[c] EXCEPT !.optedOut = TRUE] \in CaseFields
  BY RowFacts DEF LiveInv, CaseFields

LEMMA AddressedActive ==
  ASSUME NEW c \in Case, Addressed(c)
  PROVE  row[c].status \in Active /\ row[c].status # "absent"
  BY DEF Addressed, ActiveOf, Active

LEMMA ReplyPromiseTyped ==
  ASSUME LiveInv, NEW c \in Case, NEW due \in PromiseTimes, ReplyPromise(c, due)
  PROVE  Typed
<1> DEFINE new == [row[c] EXCEPT !.promiseDue = due]
<1>1. due \in Nat /\ due + PromiseGrace \in Nat
  BY LiveAssumption DEF PromiseGrace, Hour
<1>2. row[c] \in CaseFields /\ row[c].status # "absent"
  BY RowFacts, AddressedActive DEF LiveInv, ReplyPromise
<1>3. new \in CaseFields /\ new.status # "absent" /\ SameView(row[c], new)
      /\ Keeps(row[c], new)
  BY <1>1, <1>2 DEF CaseFields, SameView, Keeps, PhaseOf
<1>4. RowStep
  BY <1>3 DEF RowStep, Changes, ReplyPromise, LiveInv, TypeOK
<1>5. ActType'
  BY <1>1, CheckType, TypeParts DEF ReplyPromise, LiveInv
<1>6. RestType'
  BY TypeParts DEF ReplyPromise, ReplyUnchanged, LiveInv, RestType
<1> QED
  BY <1>4, <1>5, <1>6 DEF Typed

LEMMA ApproveTyped ==
  ASSUME LiveInv, NEW c \in Case, Approve(c) PROVE Typed
<1> DEFINE new == [row[c] EXCEPT !.approved = TRUE]
<1>1. row[c] \in CaseFields /\ row[c].status # "absent"
  BY RowFacts DEF LiveInv, Approve
<1>2. new \in CaseFields /\ new.status # "absent" /\ SameView(row[c], new)
      /\ Keeps(row[c], new)
  BY <1>1 DEF CaseFields, SameView, Keeps, PhaseOf
<1>3. RowStep
  BY <1>2 DEF RowStep, Changes, Approve, LiveInv, TypeOK
<1>4. ActType' /\ RestType'
  BY TypeParts DEF Approve, LiveInv, ActType, RestType
<1> QED
  BY <1>3, <1>4 DEF Typed

LEMMA HandlersTyped ==
  ASSUME LiveInv, NEW c \in Case, Handlers(c) PROVE Typed
<1> DEFINE out == [row[c] EXCEPT !.optedOut = TRUE]
<1>1. CASE PaymentFailed(c)
  BY <1>1, PaymentFailedTyped
<1>2. CASE PaymentLinkPaid(c)
  BY <1>2, PaymentLinkPaidTyped
<1>3. CASE ReplyStop(c)
  <2>1. RowStep /\ ActType'
    BY <1>3, OptOutRow, AddressedActive, WriteOffTyped DEF ReplyStop
  <2>2. RestType'
    BY <1>3, TypeParts DEF ReplyStop, ReplyUnchanged, LiveInv, RestType
  <2> QED
    BY <2>1, <2>2 DEF Typed
<1>4. CASE ReplyPaid(c)
  <2>1. RowStep /\ ActType'
    BY <1>4, AddressedActive, MarkRecoveredTyped DEF ReplyPaid
  <2>2. RestType'
    BY <1>4, TypeParts DEF ReplyPaid, ReplyUnchanged, LiveInv, RestType
  <2> QED
    BY <2>1, <2>2 DEF Typed
<1>5. CASE ReplyRefused(c)
  <2>1. RowStep /\ ActType'
    BY <1>5, RowFacts, AddressedActive, WriteOffTyped DEF ReplyRefused, LiveInv
  <2>2. RestType'
    BY <1>5, TypeParts DEF ReplyRefused, ReplyUnchanged, LiveInv, RestType
  <2> QED
    BY <2>1, <2>2 DEF Typed
<1>6. ASSUME NEW due \in PromiseTimes, ReplyPromise(c, due) PROVE Typed
  BY <1>6, ReplyPromiseTyped
<1>7. CASE Approve(c)
  BY <1>7, ApproveTyped
<1>8. CASE OperatorOptOut(c)
  <2>1. RowStep /\ ActType'
    BY <1>8, OptOutRow, WriteOffTyped DEF OperatorOptOut
  <2>2. RestType'
    BY <1>8, TypeParts DEF OperatorOptOut, LiveInv, RestType
  <2> QED
    BY <2>1, <2>2 DEF Typed
<1>9. CASE DemoVerify(c)
  <2>1. RowStep /\ ActType'
    BY <1>9, MarkRecoveredTyped DEF DemoVerify
  <2>2. RestType'
    BY <1>9, TypeParts DEF DemoVerify, LiveInv, RestType
  <2> QED
    BY <2>1, <2>2 DEF Typed
<1>10. CASE BatchRunCloses(c)
  <2>1. row[c].status # "absent"
    BY <1>10 DEF BatchRunCloses, Active
  <2>2. RowStep /\ ActType'
    BY <1>10, <2>1, RowFacts, WriteOffTyped DEF BatchRunCloses, LiveInv
  <2>3. RestType'
    BY <1>10, TypeParts DEF BatchRunCloses, LiveInv, RestType
  <2> QED
    BY <2>2, <2>3 DEF Typed
<1> QED
  BY <1>1, <1>2, <1>3, <1>4, <1>5, <1>6, <1>7, <1>8, <1>9, <1>10 DEF Handlers

-----------------------------------------------------------------------------
(* The tick.                                                               *)
LEMMA ActFacts ==
  ASSUME TypeOK, NEW a \in ActionId
  PROVE  /\ act[a].case \in Case /\ act[a].type \in ActionType
         /\ CaseOf(a) \in CaseFields
  BY DEF TypeOK, ActionRow, CaseOf

LEMMA HandledType ==
  ASSUME RestType, NEW a \in ActionId, Handled(a), noticedAt' = noticedAt
  PROVE  RestType'
  BY DEF RestType, Handled

(* A recorded notice changes nothing the contract sees.                    *)
LEMMA RecordNoticeTyped ==
  ASSUME LiveInv, NEW a \in ActionId, CaseOf(a).status \in Active, RecordNotice(a)
  PROVE  RowStep /\ noticedAt' \in [Case -> TimePoints \cup {NoTime}]
<1> DEFINE c == act[a].case
           new == [row[c] EXCEPT !.notice = @ \/ Gate(a).reason = "rbi_notice"]
<1>1. c \in Case /\ row[c] \in CaseFields /\ row[c].status \in Active
  BY ActFacts DEF LiveInv, CaseOf
<1>2. row' = [row EXCEPT ![c] = new]
  BY <1>1 DEF RecordNotice, LiveInv, TypeOK
<1>3. new \in CaseFields /\ new.status \in Active /\ SameView(row[c], new)
      /\ Keeps(row[c], new)
  BY <1>1 DEF CaseFields, SameView, Keeps, PhaseOf
<1>4. RowStep
  BY <1>1, <1>2, <1>3 DEF RowStep, Changes, Active
<1>5. noticedAt' \in [Case -> TimePoints \cup {NoTime}]
  BY <1>1 DEF RecordNotice, LiveInv, TypeOK
<1> QED
  BY <1>4, <1>5

(* An executed action counts at most one attempt, as the gate allows.      *)
LEMMA ExecutesTyped ==
  ASSUME LiveInv, NEW a \in ActionId, Executes(a) PROVE Typed
<1> DEFINE c == act[a].case
           new == Attempted(row[c], act[a].type)
<1>1. /\ c \in Case /\ row[c] \in CaseFields /\ row[c].status \in Active
      /\ tickAt \in Nat
  BY ActFacts, RowFacts DEF LiveInv, CaseOf, Executes, AtGate
<1>2. row' = [row EXCEPT ![c] = new]
  BY <1>1 DEF Executes, LiveInv, TypeOK
<1>3. /\ ~row[c].optedOut /\ ~NeedsNotice(row[c])
      /\ ~(AttemptsInWindow(row[c], tickAt) >= MaxAttempts)
      /\ ~CoolingDown(row[c], tickAt)
      /\ ~(tickAt >= row[c].created + CaseExpiry)
  BY GateExecutes DEF Executes, AtGate, Gate, CaseOf
<1>4. /\ new \in CaseFields /\ new.status \in Active /\ new.status # "absent"
      /\ new.optedOut = row[c].optedOut /\ new.created = row[c].created
      /\ new.attempts = IF CountsAsAttempt(act[a].type)
                        THEN row[c].attempts \cup {tickAt} ELSE row[c].attempts
      /\ Keeps(row[c], new)
  BY <1>1 DEF Attempted, Keeps, CaseFields, Active
<1>5. Counts(row[c], new) \/ SameView(row[c], new)
  <2>1. CASE CountsAsAttempt(act[a].type)
    BY <1>1, <1>3, <1>4, <2>1 DEF Counts
  <2>2. CASE ~CountsAsAttempt(act[a].type)
    BY <1>1, <1>4, <2>2 DEF SameView, PhaseOf
  <2> QED
    BY <2>1, <2>2
<1>6. RowStep
  BY <1>1, <1>2, <1>4, <1>5 DEF RowStep, Changes
<1>7. ActType'
  BY SetStatusType, TypeParts DEF Executes, LiveInv, ActionStatus
<1>8. RestType'
  BY HandledType, TypeParts DEF Executes, LiveInv
<1> QED
  BY <1>6, <1>7, <1>8 DEF Typed

LEMMA TickStepTyped ==
  ASSUME LiveInv, NEW a \in ActionId, TickStep(a) PROVE Typed
<1>1. CASE SkipClosed(a)
  <2>1. ActType'
    BY <1>1, ActFacts, SupersededType, TypeParts DEF SkipClosed, LiveInv, ActType
  <2>2. RestType' /\ RowStep
    BY <1>1, HandledType, TypeParts DEF SkipClosed, LiveInv, RowStep
  <2> QED
    BY <2>1, <2>2 DEF Typed
<1>2. CASE CheckPromise(a)
  <2>1. ActType'
    BY <1>2, SetStatusType, TypeParts DEF CheckPromise, LiveInv, ActionStatus
  <2>2. RestType' /\ RowStep
    BY <1>2, HandledType, TypeParts DEF CheckPromise, LiveInv, RowStep
  <2> QED
    BY <2>1, <2>2 DEF Typed
<1>3. CASE GateDefers(a)
  <2>1. ActType'
    BY <1>3, SetStatusType, TypeParts DEF GateDefers, LiveInv, ActionStatus
  <2>2. RowStep /\ noticedAt' \in [Case -> TimePoints \cup {NoTime}]
    BY <1>3, RecordNoticeTyped DEF GateDefers, AtGate
  <2>3. RestType'
    BY <1>3, <2>2, TypeParts DEF GateDefers, Handled, LiveInv, RestType
  <2> QED
    BY <2>1, <2>2, <2>3 DEF Typed
<1>4. CASE GateBlocks(a) \/ LinkFails(a)
  <2>1. ActType'
    BY <1>4, SetStatusType, TypeParts DEF GateBlocks, LinkFails, LiveInv, ActionStatus
  <2>2. RestType' /\ RowStep
    BY <1>4, HandledType, TypeParts DEF GateBlocks, LinkFails, LiveInv, RowStep
  <2> QED
    BY <2>1, <2>2 DEF Typed
<1>5. CASE VoiceRaises(a)
  BY <1>5, TypeParts DEF VoiceRaises, LiveInv, Typed, RowStep, ActType, RestType
<1>6. CASE Executes(a)
  BY <1>6, ExecutesTyped
<1> QED
  BY <1>1, <1>2, <1>3, <1>4, <1>5, <1>6 DEF TickStep

-----------------------------------------------------------------------------
(* Crashes.                                                                *)
LEMMA CrashInClosingTyped ==
  ASSUME LiveInv, NEW c \in Case, CrashInClosing(c) PROVE Typed
<1> DEFINE old == row[c]
<1>0. old \in CaseFields /\ row \in [Case -> CaseFields]
  BY RowFacts DEF LiveInv, TypeOK
<1>1. RestType'
  BY RestartedType, TypeParts DEF CrashInClosing, LiveInv
<1>2. ActType'
  BY SupersededType, TypeParts DEF CrashInClosing, LiveInv, ActType
<1>3. PICK new \in CaseFields :
        /\ row' = [row EXCEPT ![c] = new] /\ new.status # "absent"
        /\ Closes(old, new) /\ Keeps(old, new)
  <2>1. CASE /\ old.status \notin {"absent", "recovered"}
             /\ row' = [row EXCEPT ![c] = Recovered(@)]
    <3>1. /\ Recovered(old) \in CaseFields /\ Recovered(old).status # "absent"
          /\ Closes(old, Recovered(old)) /\ Keeps(old, Recovered(old))
      BY <1>0, <2>1 DEF Recovered, CaseFields, Closed, Closes, Keeps
    <3> QED
      BY <1>0, <2>1, <3>1
  <2>2. ASSUME old.status # "absent", NEW s \in {old.status, "written_off"},
               row' = [row EXCEPT ![c] = [@ EXCEPT !.optedOut = TRUE, !.status = s]]
        PROVE  \E new \in CaseFields : /\ row' = [row EXCEPT ![c] = new]
                                       /\ new.status # "absent"
                                       /\ Closes(old, new) /\ Keeps(old, new)
    <3> DEFINE new == [old EXCEPT !.optedOut = TRUE, !.status = s]
    <3>1. new \in CaseFields /\ new.status = s /\ new.optedOut = TRUE
      BY <1>0, <2>2 DEF CaseFields, Closed
    <3>2. /\ new.attempts = old.attempts /\ new.created = old.created
          /\ Keeps(old, new)
      BY <1>0 DEF CaseFields, Keeps
    <3>3. Closes(old, new) /\ new.status # "absent"
      BY <2>2, <3>1, <3>2 DEF Closes
    <3> QED
      BY <1>0, <2>2, <3>1, <3>2, <3>3
  <2>3. CASE /\ old.status \in Active
             /\ row' = [row EXCEPT ![c] = [@ EXCEPT !.status = "written_off"]]
    <3> DEFINE new == [old EXCEPT !.status = "written_off"]
    <3>1. /\ new \in CaseFields /\ new.status # "absent"
          /\ Closes(old, new) /\ Keeps(old, new)
      BY <1>0, <2>3 DEF CaseFields, Active, Closed, Closes, Keeps
    <3> QED
      BY <1>0, <2>3, <3>1
  <2> QED
    BY <2>1, <2>2, <2>3 DEF CrashInClosing
<1>4. RowStep
  BY <1>3 DEF RowStep, Changes
<1> QED
  BY <1>1, <1>2, <1>4 DEF Typed

LEMMA CrashInPromiseTyped ==
  ASSUME LiveInv, NEW c \in Case, NEW due \in PromiseTimes, CrashInPromise(c, due)
  PROVE  Typed
<1> DEFINE new == [row[c] EXCEPT !.promiseDue = due]
<1>1. row[c] \in CaseFields /\ row[c].status # "absent" /\ due \in Nat
  BY RowFacts, AddressedActive, LiveAssumption DEF LiveInv, CrashInPromise
<1>2. new \in CaseFields /\ new.status # "absent" /\ SameView(row[c], new)
      /\ Keeps(row[c], new)
  BY <1>1 DEF CaseFields, SameView, Keeps, PhaseOf
<1>3. RowStep
  BY <1>2 DEF RowStep, Changes, CrashInPromise, LiveInv, TypeOK
<1>4. ActType'
  BY SupersededType, TypeParts DEF CrashInPromise, LiveInv, ActType
<1>5. RestType'
  BY RestartedType, TypeParts DEF CrashInPromise, LiveInv
<1> QED
  BY <1>3, <1>4, <1>5 DEF Typed

LEMMA CrashesTyped == ASSUME LiveInv, Crashes PROVE Typed
<1>1. ASSUME NEW c \in Case, CrashInPaymentFailed(c) PROVE Typed
  <2>1. RowStep /\ Ingested(c) \in CaseFields /\ IsFiniteSet(Ingested(c).attempts)
    BY <1>1, IngestedRow DEF CrashInPaymentFailed
  <2>2. PlanAndSchedule(c, Ingested(c)) => ActType'
    BY <2>1, PlanType, RowFacts, TypeParts DEF LiveInv
  <2>3. act' = act => ActType'
    BY TypeParts DEF LiveInv, ActType
  <2>4. RestType'
    BY <1>1, RestartedType, TypeParts DEF CrashInPaymentFailed, LiveInv
  <2> QED
    BY <1>1, <2>1, <2>2, <2>3, <2>4 DEF Typed, CrashInPaymentFailed
<1>2. ASSUME NEW c \in Case, CrashInClosing(c) PROVE Typed
  BY <1>2, CrashInClosingTyped
<1>3. ASSUME NEW c \in Case, NEW due \in PromiseTimes, CrashInPromise(c, due) PROVE Typed
  BY <1>3, CrashInPromiseTyped
<1>4. ASSUME NEW a \in ActionId, CrashInDefers(a) PROVE Typed
  <2>1. RowStep /\ noticedAt' \in [Case -> TimePoints \cup {NoTime}]
    BY <1>4, RecordNoticeTyped DEF CrashInDefers, AtGate
  <2>2. ActType'
    BY <1>4, SetStatusType, TypeParts DEF CrashInDefers, LiveInv, ActType, ActionStatus
  <2>3. RestType'
    BY <1>4, <2>1, TypeParts, LiveAssumption DEF CrashInDefers, Restarted, LiveInv, RestType
  <2> QED
    BY <2>1, <2>2, <2>3 DEF Typed
<1>5. ASSUME NEW a \in ActionId, CrashInExecutes(a) PROVE Typed
  <2>1. ActType'
    BY <1>5, SetStatusType, TypeParts DEF CrashInExecutes, LiveInv, ActionStatus
  <2>2. RestType' /\ RowStep
    BY <1>5, RestartedType, TypeParts DEF CrashInExecutes, LiveInv, RowStep
  <2> QED
    BY <2>1, <2>2 DEF Typed
<1>6. CASE Restart
  <2>1. RestType'
    BY <1>6, RestartedType, TypeParts DEF Restart, LiveInv
  <2> QED
    BY <1>6, <2>1, TypeParts DEF Restart, Typed, RowStep, ActType, LiveInv
<1> QED
  BY <1>1, <1>2, <1>3, <1>4, <1>5, <1>6 DEF Crashes

-----------------------------------------------------------------------------
(* Every step changes at most one case, in a way the contract knows.       *)
LEMMA StepTyped == ASSUME LiveInv, [Next]_vars PROVE Typed
<1>1. CASE \E c \in Case : Handlers(c)
  BY <1>1, HandlersTyped
<1>2. CASE TickStart
  BY <1>2, TypeParts DEF TickStart, DueActions, LiveInv, Typed, RowStep, ActType, RestType
<1>3. CASE \E a \in ActionId : TickStep(a)
  BY <1>3, TickStepTyped
<1>4. CASE Crashes
  BY <1>4, CrashesTyped
<1>5. CASE Advance
  BY <1>5, TypeParts DEF Advance, LiveInv, Typed, RowStep, ActType, RestType
<1>6. CASE UNCHANGED vars
  BY <1>6, TypeParts DEF vars, LiveInv, Typed, RowStep, ActType, RestType
<1> QED
  BY <1>1, <1>2, <1>3, <1>4, <1>5, <1>6 DEF Next

LEMMA InitInv == Init => LiveInv
<1> SUFFICES ASSUME Init PROVE LiveInv
  OBVIOUS
<1>1. \A c \in Case : Document(c, "absent", 0) \in CaseFields
  BY DocumentType
<1>2. row \in [Case -> CaseFields]
  BY <1>1 DEF Init
<1>3. NoAction \in ActionRow
  BY LiveAssumption DEF NoAction, ActionRow, ActionStatus, ActionType
<1>4. TypeOK
  BY <1>2, <1>3, LiveAssumption DEF Init, TypeOK, NoTime
<1>5. FiniteAttempts /\ AbsentIsBlank
  BY FS_EmptySet DEF Init, FiniteAttempts, AbsentIsBlank, Document
<1> QED
  BY <1>4, <1>5 DEF LiveInv

LEMMA StepInv == LiveInv /\ [Next]_vars => LiveInv'
<1> SUFFICES ASSUME LiveInv, [Next]_vars PROVE LiveInv'
  OBVIOUS
<1>1. Typed
  BY StepTyped
<1>2. row' \in [Case -> CaseFields] /\ FiniteAttempts' /\ AbsentIsBlank'
  BY <1>1, RowStepKeepsRows DEF Typed
<1>3. TypeOK'
  BY <1>1, <1>2 DEF Typed, TypeOK, RestType, ActType
<1> QED
  BY <1>2, <1>3 DEF LiveInv

(* The store, the clock and the running tick stay well typed whatever the  *)
(* handlers, ticks, redeliveries and restarts.                             *)
THEOREM LiveTypes == Spec => []TypeOK
<1>1. Spec => []LiveInv
  BY InitInv, StepInv, PTL DEF Spec
<1>2. LiveInv => TypeOK
  BY DEF LiveInv
<1> QED
  BY <1>1, <1>2, PTL

-----------------------------------------------------------------------------
(* The refinement.                                                         *)

(* A new document of one case, seen through the mapping.                   *)
LEMMA ViewOfUpdate ==
  ASSUME LiveInv, NEW c \in Case, NEW r \in CaseFields, row' = [row EXCEPT ![c] = r]
  PROVE  /\ Phases' = [Phases EXCEPT ![c] = PhaseOf(r)]
         /\ Attempts' = [Attempts EXCEPT ![c] = r.attempts]
         /\ Openings' = [Openings EXCEPT ![c] = r.created]
         /\ OptOuts' = [OptOuts EXCEPT ![c] = r.optedOut]
<1>1. \A d \in Case : row'[d] = IF d = c THEN r ELSE row[d]
  BY DEF LiveInv, TypeOK
<1>2. Phases' = [Phases EXCEPT ![c] = PhaseOf(r)]
  <2>1. \A d \in Case : PhaseOf(row[d])' = IF d = c THEN PhaseOf(r) ELSE PhaseOf(row[d])
    BY <1>1 DEF PhaseOf
  <2> QED
    BY <2>1 DEF Phases
<1>3. Attempts' = [Attempts EXCEPT ![c] = r.attempts]
  <2>1. \A d \in Case : row'[d].attempts = IF d = c THEN r.attempts ELSE row[d].attempts
    BY <1>1
  <2> QED
    BY <2>1 DEF Attempts
<1>4. Openings' = [Openings EXCEPT ![c] = r.created]
  <2>1. \A d \in Case : row'[d].created = IF d = c THEN r.created ELSE row[d].created
    BY <1>1
  <2> QED
    BY <2>1 DEF Openings
<1>5. OptOuts' = [OptOuts EXCEPT ![c] = r.optedOut]
  <2>1. \A d \in Case : row'[d].optedOut = IF d = c THEN r.optedOut ELSE row[d].optedOut
    BY <1>1
  <2> QED
    BY <2>1 DEF OptOuts
<1> QED
  BY <1>2, <1>3, <1>4, <1>5

LEMMA ContractCardinality == \A S : Contract!Cardinality(S) = Cardinality(S)
  BY DEF Contract!Cardinality, Cardinality

LEMMA RowStepRefines ==
  ASSUME LiveInv, Typed PROVE [Contract!Next]_(Contract!vars)
<1>1. CASE row' = row
  BY <1>1 DEF Contract!vars, Phases, Attempts, Openings, OptOuts, PhaseOf
<1>2. ASSUME NEW c \in Case, NEW r \in CaseFields,
             row' = [row EXCEPT ![c] = r], r.status # "absent", Changes(c, row[c], r)
      PROVE  [Contract!Next]_(Contract!vars)
  <2> DEFINE old == row[c]
  <2>1. /\ Phases' = [Phases EXCEPT ![c] = PhaseOf(r)]
        /\ Attempts' = [Attempts EXCEPT ![c] = r.attempts]
        /\ Openings' = [Openings EXCEPT ![c] = r.created]
        /\ OptOuts' = [OptOuts EXCEPT ![c] = r.optedOut]
    BY <1>2, ViewOfUpdate
  <2>2. /\ Phases[c] = PhaseOf(old) /\ Attempts[c] = old.attempts
        /\ Openings[c] = old.created /\ OptOuts[c] = old.optedOut
    BY DEF Phases, Attempts, Openings, OptOuts
  <2>3. /\ old \in CaseFields /\ now \in TimePoints /\ tickAt \in TimePoints
    BY RowFacts DEF LiveInv, TypeOK
  <2>4. /\ Phases = [Phases EXCEPT ![c] = Phases[c]]
        /\ Attempts = [Attempts EXCEPT ![c] = Attempts[c]]
        /\ Openings = [Openings EXCEPT ![c] = Openings[c]]
        /\ OptOuts = [OptOuts EXCEPT ![c] = OptOuts[c]]
    BY DEF Phases, Attempts, Openings, OptOuts
  <2>5. CASE Opens(c, old, r)
    <3>1. /\ old.status = "absent" /\ old.attempts = {} /\ old.optedOut = FALSE
      <4>1. old.status = "absent" /\ old = Document(c, "absent", 0)
        BY <2>5 DEF LiveInv, AbsentIsBlank, Opens
      <4> QED
        BY <4>1 DEF Document
    <3>2. /\ r.status = "open" /\ r.attempts = {} /\ r.created = now /\ r.optedOut = FALSE
      BY <2>5 DEF Opens, Document
    <3>3. Contract!Open(c, now)
      BY <2>1, <2>2, <2>4, <3>1, <3>2 DEF Contract!Open, PhaseOf, Active
    <3> QED
      BY <2>3, <3>3 DEF Contract!Next
  <2>6. CASE SameView(old, r)
    BY <2>1, <2>2, <2>4, <2>6 DEF SameView, Contract!vars
  <2>7. CASE Counts(old, r)
    <3>1. /\ PhaseOf(old) = "active" /\ PhaseOf(r) = "active"
          /\ ~old.optedOut /\ r.optedOut = old.optedOut
      BY <1>2, <2>3, <2>7 DEF Counts, PhaseOf, CaseFields
    <3>2. \A u \in old.attempts : tickAt >= u + Cooldown
      <4>1. old.attempts \subseteq Nat /\ tickAt \in Nat /\ Cooldown \in Nat
        BY <2>3, LiveAssumption, PolicyAssumption DEF CaseFields
      <4> QED
        BY <2>7, <4>1 DEF Counts, CoolingDown
    <3>3. Cardinality(Contract!Recent(c, tickAt)) < MaxAttempts
      <4>1. Contract!Recent(c, tickAt) = {u \in old.attempts : u >= tickAt - AttemptWindow}
        BY <2>2 DEF Contract!Recent
      <4>2. ~(Cardinality(Contract!Recent(c, tickAt)) >= MaxAttempts)
        BY <2>7, <4>1 DEF Counts, AttemptsInWindow
      <4>3. IsFiniteSet(Contract!Recent(c, tickAt))
        BY <4>1, FS_Subset DEF LiveInv, FiniteAttempts
      <4>4. Cardinality(Contract!Recent(c, tickAt)) \in Nat
        BY <4>3, FS_CardinalityType
      <4> QED
        BY <4>2, <4>4, PolicyAssumption
    <3>4. tickAt < old.created + CaseExpiry
      BY <2>3, <2>7, LiveAssumption, PolicyAssumption DEF Counts, CaseFields
    <3>5. r.attempts = old.attempts \cup {tickAt} /\ r.created = old.created
      BY <2>7 DEF Counts
    <3>6. Contract!Attempt(c, tickAt)
      BY <2>1, <2>2, <2>4, <3>1, <3>2, <3>3, <3>4, <3>5,
         ContractCardinality DEF Contract!Attempt
    <3> QED
      BY <2>3, <3>6 DEF Contract!Next
  <2>8. CASE Closes(old, r)
    <3>1. r.attempts = old.attempts /\ r.created = old.created
      BY <2>8 DEF Closes
    <3>2. CASE /\ old.status # "absent" /\ r.status = "recovered"
               /\ r.optedOut = old.optedOut
      <4>1. PhaseOf(r) = "recovered"
            /\ PhaseOf(old) \in {"active", "recovered", "written_off"}
        BY <2>3, <3>2 DEF PhaseOf, Active, Closed, CaseFields
      <4>2. CASE PhaseOf(old) = "recovered"
        BY <2>1, <2>2, <2>4, <3>1, <3>2, <4>1, <4>2 DEF Contract!vars
      <4>3. CASE PhaseOf(old) # "recovered"
        BY <2>1, <2>2, <2>4, <3>1, <3>2, <4>1, <4>3 DEF Contract!Recover, Contract!Next
      <4> QED
        BY <4>2, <4>3
    <3>3. CASE /\ old.status \in Active /\ r.status = "written_off"
               /\ r.optedOut = old.optedOut
      <4>1. PhaseOf(r) = "written_off" /\ PhaseOf(old) = "active"
        BY <3>3 DEF PhaseOf, Active
      <4>2. Contract!WriteOff(c)
        BY <2>1, <2>2, <2>4, <3>1, <3>3, <4>1 DEF Contract!WriteOff
      <4> QED
        BY <4>2 DEF Contract!Next
    <3>4. CASE /\ old.status # "absent" /\ r.status \in {old.status, "written_off"}
               /\ r.optedOut
      <4>1. /\ PhaseOf(old) # "absent" /\ PhaseOf(r) \in {PhaseOf(old), "written_off"}
            /\ r.optedOut = TRUE
        BY <1>2, <2>3, <3>4 DEF PhaseOf, Active, CaseFields
      <4>2. Contract!OptOut(c)
        BY <2>1, <2>2, <2>4, <3>1, <4>1 DEF Contract!OptOut
      <4> QED
        BY <4>2 DEF Contract!Next
    <3> QED
      BY <2>8, <3>2, <3>3, <3>4 DEF Closes
  <2> QED
    BY <1>2, <2>5, <2>6, <2>7, <2>8 DEF Changes
<1> QED
  BY <1>1, <1>2 DEF Typed, RowStep

LEMMA InitRefines == Init => Contract!Init
<1> SUFFICES ASSUME Init PROVE Contract!Init
  OBVIOUS
<1>1. \A c \in Case : /\ row[c].status = "absent" /\ row[c].attempts = {}
                      /\ row[c].created = 0 /\ row[c].optedOut = FALSE
  BY DEF Init, Document
<1>2. Phases = [c \in Case |-> "absent"]
  BY <1>1 DEF Phases, PhaseOf, Active
<1>3. Attempts = [c \in Case |-> {}]
  BY <1>1 DEF Attempts
<1>4. Openings \in [Case -> Nat]
  BY <1>1 DEF Openings
<1>5. OptOuts = [c \in Case |-> FALSE]
  BY <1>1 DEF OptOuts
<1> QED
  BY <1>2, <1>3, <1>4, <1>5 DEF Contract!Init

(* The live service implements the contract of a recovery case: every      *)
(* handler, tick step and crash is one of its steps or changes nothing the *)
(* contract sees.                                                          *)
THEOREM LiveImplementsContract == Spec => ImplementsContract
<1>1. Spec => []LiveInv
  BY InitInv, StepInv, PTL DEF Spec
<1>2. LiveInv /\ [Next]_vars => [Contract!Next]_(Contract!vars)
  BY StepTyped, RowStepRefines
<1> QED
  BY <1>1, <1>2, InitRefines, PTL DEF Spec, ImplementsContract, Contract!Spec

-----------------------------------------------------------------------------
(* What the contract's theorems give the live service.  Proved is the same *)
(* instance of the contract, through the module that holds them.           *)
Proved == INSTANCE RecoveryContractProofs WITH
  Time <- TimePoints, phase <- Phases, attempts <- Attempts,
  opened <- Openings, optedOut <- OptOuts

LEMMA ProvedCardinality == \A S : Proved!Cardinality(S) = Contract!Cardinality(S)
  BY DEF Contract!Cardinality, Proved!Cardinality

LEMMA SameSteps ==
  [Contract!Next]_(Contract!vars) => [Proved!Next]_(Proved!vars)
<1>1. \A c \in Case, t \in TimePoints : Contract!Attempt(c, t) => Proved!Attempt(c, t)
  BY ProvedCardinality
  DEF Contract!Attempt, Proved!Attempt, Contract!Recent, Proved!Recent
<1>2. \A c \in Case, t \in TimePoints : Contract!Open(c, t) => Proved!Open(c, t)
  BY DEF Contract!Open, Proved!Open
<1>3. \A c \in Case : /\ Contract!Recover(c) => Proved!Recover(c)
                      /\ Contract!WriteOff(c) => Proved!WriteOff(c)
                      /\ Contract!OptOut(c) => Proved!OptOut(c)
  BY DEF Contract!Recover, Proved!Recover, Contract!WriteOff, Proved!WriteOff,
         Contract!OptOut, Proved!OptOut
<1>4. Contract!Next => Proved!Next
  BY <1>1, <1>2, <1>3 DEF Contract!Next, Proved!Next
<1>5. UNCHANGED Contract!vars => UNCHANGED Proved!vars
  BY DEF Contract!vars, Proved!vars
<1> QED
  BY <1>4, <1>5

LEMMA SameProperties ==
  Proved!Spaced /\ Proved!Capped => Contract!Spaced /\ Contract!Capped
  BY ProvedCardinality
  DEF Proved!Spaced, Proved!Capped, Contract!Spaced, Contract!Capped

(* Recorded attempts of a case stay a cooldown apart, and no window holds  *)
(* more than the cap, however ticks, redeliveries and restarts interleave. *)
THEOREM LivePacing == Spec => [](AttemptsSpaced /\ AttemptsCapped)
<1>1. Proved!ContractAssumption
  BY PolicyAssumption, LiveAssumption DEF Proved!ContractAssumption
<1>2. Contract!Init => Proved!Init
  BY DEF Contract!Init, Proved!Init
<1>3. Proved!Spec => [](Proved!Spaced /\ Proved!Capped)
  BY <1>1, Proved!ContractSafety
<1>4. ImplementsContract => Proved!Spec
  BY <1>2, SameSteps, PTL DEF ImplementsContract, Contract!Spec, Proved!Spec
<1> QED
  BY <1>3, <1>4, SameProperties, LiveImplementsContract, PTL
  DEF AttemptsSpaced, AttemptsCapped

(* No window of the policy holds more attempts than the cap, whatever the  *)
(* redeliveries and restarts that start the ladder of a case again.        *)
THEOREM LiveCapped == Spec => []AttemptsCapped
  BY LivePacing, PTL

(* An opt-out is never cleared and no attempt is recorded after it, for    *)
(* every set of cases and however redeliveries, ticks and restarts fall.   *)
THEOREM LiveOptOut == Spec => OptOutIsFinal
<1>1. Proved!ContractAssumption
  BY PolicyAssumption, LiveAssumption DEF Proved!ContractAssumption
<1>2. Contract!Init => Proved!Init
  BY DEF Contract!Init, Proved!Init
<1>3. Proved!Spec => Proved!OptOutIsFinal
  BY <1>1, Proved!ContractSafety
<1>4. ImplementsContract => Proved!Spec
  BY <1>2, SameSteps, PTL DEF ImplementsContract, Contract!Spec, Proved!Spec
<1> DEFINE Silent ==
      \A c \in Case : OptOuts[c] => OptOuts'[c] /\ Attempts'[c] = Attempts[c]
<1>5. [Silent]_(Proved!vars) => [Silent]_(Contract!vars)
  BY DEF Contract!vars, Proved!vars
<1> QED
  BY <1>3, <1>4, <1>5, LiveImplementsContract, PTL
  DEF OptOutIsFinal, Contract!OptOutIsFinal, Proved!OptOutIsFinal

-----------------------------------------------------------------------------
(***************************************************************************)
(* Safety beyond the contract: what the actions table says together with   *)
(* the cases table.                                                        *)
(***************************************************************************)

(* A stored case stays stored, with its payload, approval and notice.      *)
LEMMA StoredStays ==
  ASSUME LiveInv, RowStep, NEW c \in Case, row[c].status # "absent"
  PROVE  row'[c].status # "absent" /\ Keeps(row[c], row'[c])
<1>1. CASE row' = row
  BY <1>1 DEF Keeps
<1>2. ASSUME NEW d \in Case, NEW r \in CaseFields,
             row' = [row EXCEPT ![d] = r], r.status # "absent",
             row[d].status = "absent" \/ Keeps(row[d], r)
      PROVE  row'[c].status # "absent" /\ Keeps(row[c], row'[c])
  <2>1. row'[c] = IF c = d THEN r ELSE row[c]
    BY <1>2 DEF LiveInv, TypeOK
  <2> QED
    BY <1>2, <2>1 DEF Keeps
<1> QED
  BY <1>1, <1>2 DEF RowStep

-----------------------------------------------------------------------------
(* Approval of charges.  An action exists only for a stored case, so that  *)
(* a case whose charge went out is never ingested anew.                    *)
ActionHasCase ==
  \A a \in ActionId : act[a].status # "none" => row[act[a].case].status # "absent"

ChargeInv == LiveInv /\ ActionHasCase /\ ChargesApproved

(* What a step may do to one row of the actions table.                     *)
ActStep(a) ==
  LET c == act'[a].case
  IN  \/ act'[a] = act[a]
      \/ /\ row'[c].status # "absent"
         /\ act'[a].status # "executed"
      \/ /\ row[c].status # "absent"
         /\ act'[a].status = "executed"
         /\ act'[a].type \in MoneyTypes => ~NeedsApproval(row[c], TRUE)

LEMMA ActStepKeepsCharges ==
  ASSUME ChargeInv, Typed, \A a \in ActionId : ActStep(a)
  PROVE  ActionHasCase' /\ ChargesApproved'
<1>1. ActType' /\ RowStep /\ ActType
  BY TypeParts DEF Typed, ChargeInv, LiveInv
<1>2. ASSUME NEW a \in ActionId, act'[a].status # "none"
      PROVE  row'[act'[a].case].status # "absent"
  <2>1. act'[a].case \in Case
    BY <1>1 DEF ActType, ActionRow
  <2> QED
    BY <1>1, <1>2, <2>1, StoredStays DEF ActStep, ChargeInv, ActionHasCase
<1>3. ASSUME NEW a \in ActionId, act'[a].status = "executed",
             act'[a].type \in MoneyTypes, row'[act'[a].case].amount > AutoActionCap
      PROVE  row'[act'[a].case].approved
  <2> DEFINE c == act'[a].case
  <2>1. c \in Case
    BY <1>1 DEF ActType, ActionRow
  <2>2. row[c].status # "absent"
    BY <1>3, <2>1 DEF ActStep, ChargeInv, ActionHasCase
  <2>3. Keeps(row[c], row'[c])
    BY <1>1, <2>1, <2>2, StoredStays DEF ChargeInv
  <2>4. row[c].amount > AutoActionCap
    BY <1>3, <2>3 DEF Keeps
  <2>5. row[c].approved
    BY <1>3, <2>4 DEF ActStep, NeedsApproval, ChargeInv, ChargesApproved
  <2> QED
    BY <2>3, <2>5 DEF Keeps
<1> QED
  BY <1>2, <1>3 DEF ActionHasCase, ChargesApproved

(* Superseding touches only the scheduled actions of a stored case.        *)
LEMMA SupersedeStep ==
  ASSUME ChargeInv, Typed, NEW c \in Case, act' = Superseded(c), NEW a \in ActionId
  PROVE  ActStep(a)
<1>1. CASE act[a].case = c /\ act[a].status = "scheduled"
  <2>1. act'[a] = [act[a] EXCEPT !.status = "superseded"] /\ act[a] \in ActionRow
    BY <1>1 DEF Superseded, ChargeInv, LiveInv, TypeOK
  <2>2. act'[a].case = c /\ act'[a].status = "superseded"
    BY <1>1, <2>1 DEF ActionRow
  <2>3. row'[c].status # "absent"
    BY <1>1, StoredStays DEF ChargeInv, ActionHasCase, Typed
  <2> QED
    BY <2>2, <2>3 DEF ActStep
<1>2. CASE ~(act[a].case = c /\ act[a].status = "scheduled")
  BY <1>2 DEF Superseded, ActStep
<1> QED
  BY <1>1, <1>2

(* A status other than "executed" for an action of a stored case.          *)
LEMMA SetStatusStep ==
  ASSUME ChargeInv, Typed, NEW b \in ActionId, NEW status \in ActionStatus \ {"executed"},
         CaseOf(b).status # "absent", SetStatus(b, status), NEW a \in ActionId
  PROVE  ActStep(a)
<1>1. CASE a # b
  BY <1>1 DEF SetStatus, ActStep, ChargeInv, LiveInv, TypeOK
<1>2. CASE a = b
  <2>1. act'[a].case = act[a].case /\ act'[a].status = status
    BY <1>2 DEF SetStatus, ChargeInv, LiveInv, TypeOK, ActionRow
  <2>2. row'[act[a].case].status # "absent"
    BY <1>2, ActFacts, StoredStays DEF CaseOf, ChargeInv, LiveInv, Typed
  <2> QED
    BY <2>1, <2>2 DEF ActStep
<1> QED
  BY <1>1, <1>2

(* A promise supersedes the ladder and schedules its check.                *)
LEMMA PromiseStep ==
  ASSUME ChargeInv, Typed, NEW c \in Case, NEW due \in PromiseTimes,
         ReplyPromise(c, due), NEW a \in ActionId
  PROVE  ActStep(a)
<1>1. row'[c].status # "absent"
  BY AddressedActive, StoredStays DEF ReplyPromise, ChargeInv, Typed
<1>2. CASE a = FreshId
  BY <1>1, <1>2 DEF ReplyPromise, Superseded, ActStep, Saved
<1>3. CASE a # FreshId /\ act[a].case = c /\ act[a].status = "scheduled"
  <2>1. act'[a] = [act[a] EXCEPT !.status = "superseded"] /\ act[a] \in ActionRow
    BY <1>3 DEF ReplyPromise, Superseded, ChargeInv, LiveInv, TypeOK
  <2>2. act'[a].case = c /\ act'[a].status = "superseded"
    BY <1>3, <2>1 DEF ActionRow
  <2> QED
    BY <1>1, <2>2 DEF ActStep
<1>4. CASE a # FreshId /\ ~(act[a].case = c /\ act[a].status = "scheduled")
  BY <1>4 DEF ReplyPromise, Superseded, ActStep
<1> QED
  BY <1>2, <1>3, <1>4

(* An action leaves the gate with "execute" only approved or under the cap. *)
LEMMA ExecuteStep ==
  ASSUME ChargeInv, NEW b \in ActionId, AtGate(b, "execute"), SetStatus(b, "executed"),
         NEW a \in ActionId
  PROVE  ActStep(a)
<1>1. CASE a # b
  BY <1>1 DEF SetStatus, ActStep, ChargeInv, LiveInv, TypeOK
<1>2. CASE a = b
  <2>1. /\ act'[a].case = act[a].case /\ act'[a].status = "executed"
        /\ act'[a].type = act[a].type
    BY <1>2 DEF SetStatus, ChargeInv, LiveInv, TypeOK, ActionRow
  <2>2. ~NeedsApproval(row[act[a].case], IsMoney(act[a].type))
    BY <1>2, GateExecutes DEF AtGate, Gate, CaseOf
  <2>3. row[act[a].case].status # "absent"
    BY <1>2 DEF AtGate, CaseOf, Active
  <2> QED
    BY <2>1, <2>2, <2>3 DEF ActStep, IsMoney, NeedsApproval
<1> QED
  BY <1>1, <1>2

LEMMA UnchangedStep ==
  ASSUME act' = act, NEW a \in ActionId PROVE ActStep(a)
  BY DEF ActStep

LEMMA PlanStep ==
  ASSUME ChargeInv, Typed, NEW c \in Case, NEW r, PlanAndSchedule(c, r),
         row'[c].status # "absent", NEW a \in ActionId
  PROVE  ActStep(a)
<1>1. CASE act' = act
  BY <1>1, UnchangedStep
<1>2. ASSUME NEW s,
             act' = [act EXCEPT ![FreshId] = Saved(c, s.type, now + s.delay + IstOffset)]
      PROVE  ActStep(a)
  <2>1. CASE a = FreshId
    BY <1>2, <2>1 DEF ActStep, Saved, ChargeInv, LiveInv, TypeOK
  <2>2. CASE a # FreshId
    BY <1>2, <2>2 DEF ActStep, ChargeInv, LiveInv, TypeOK
  <2> QED
    BY <2>1, <2>2
<1> QED
  BY <1>1, <1>2 DEF PlanAndSchedule

LEMMA MarkRecoveredStep ==
  ASSUME ChargeInv, Typed, NEW c \in Case, MarkRecovered(c), NEW a \in ActionId
  PROVE  ActStep(a)
  BY SupersedeStep, UnchangedStep DEF MarkRecovered

LEMMA HandlersStep ==
  ASSUME ChargeInv, Typed, NEW c \in Case, Handlers(c), NEW a \in ActionId
  PROVE  ActStep(a)
<1>1. CASE PaymentFailed(c)
  <2>1. row'[c].status # "absent"
    BY <1>1, StoredStays DEF PaymentFailed, Ingested, Document, ChargeInv, LiveInv, TypeOK
  <2> QED
    BY <1>1, <2>1, PlanStep DEF PaymentFailed
<1>2. CASE PaymentLinkPaid(c) \/ ReplyPaid(c) \/ DemoVerify(c)
  BY <1>2, MarkRecoveredStep DEF PaymentLinkPaid, ReplyPaid, DemoVerify
<1>3. CASE ReplyStop(c) \/ ReplyRefused(c) \/ OperatorOptOut(c) \/ BatchRunCloses(c)
  BY <1>3, SupersedeStep
  DEF ReplyStop, ReplyRefused, OperatorOptOut, BatchRunCloses, WriteOff
<1>4. ASSUME NEW due \in PromiseTimes, ReplyPromise(c, due) PROVE ActStep(a)
  BY <1>4, PromiseStep
<1>5. CASE Approve(c)
  BY <1>5, UnchangedStep DEF Approve
<1> QED
  BY <1>1, <1>2, <1>3, <1>4, <1>5 DEF Handlers

LEMMA TickChargeStep ==
  ASSUME ChargeInv, Typed, NEW b \in ActionId, TickStep(b), NEW a \in ActionId
  PROVE  ActStep(a)
<1>1. CASE SkipClosed(b)
  BY <1>1, ActFacts, SupersedeStep DEF SkipClosed, ChargeInv, LiveInv
<1>2. CASE CheckPromise(b)
  <2>1. ActStep(a) \/ a = b
    BY <1>2 DEF CheckPromise, SetStatus, ActStep, ChargeInv, LiveInv, TypeOK
  <2>2. ASSUME a = b PROVE ActStep(a)
    <3>1. /\ act'[b].case = act[b].case /\ act'[b].type = "check_promise"
          /\ act'[b].status = "executed"
      BY <1>2 DEF CheckPromise, SetStatus, ChargeInv, LiveInv, TypeOK, ActionRow
    <3>2. row[act[b].case].status # "absent"
      BY <1>2 DEF CheckPromise, CaseOf, Active
    <3> QED
      BY <2>2, <3>1, <3>2 DEF ActStep, MoneyTypes
  <2> QED
    BY <2>1, <2>2
<1>3. CASE GateDefers(b) \/ GateBlocks(b) \/ LinkFails(b)
  <2>1. CaseOf(b).status # "absent"
    BY <1>3 DEF GateDefers, GateBlocks, LinkFails, AtGate, Active
  <2>2. PICK status \in {"deferred", "scheduled", "blocked"} : SetStatus(b, status)
    BY <1>3 DEF GateDefers, GateBlocks, LinkFails
  <2> QED
    BY <2>1, <2>2, SetStatusStep DEF ActionStatus
<1>4. CASE VoiceRaises(b)
  BY <1>4, UnchangedStep DEF VoiceRaises
<1>5. CASE Executes(b)
  BY <1>5, ExecuteStep DEF Executes
<1> QED
  BY <1>1, <1>2, <1>3, <1>4, <1>5 DEF TickStep

LEMMA CrashesStep ==
  ASSUME ChargeInv, Typed, Crashes, NEW a \in ActionId PROVE ActStep(a)
<1>1. ASSUME NEW c \in Case, CrashInPaymentFailed(c) PROVE ActStep(a)
  <2>1. row'[c].status # "absent"
    BY <1>1, StoredStays
    DEF CrashInPaymentFailed, Ingested, Document, ChargeInv, LiveInv, TypeOK
  <2> QED
    BY <1>1, <2>1, PlanStep, UnchangedStep DEF CrashInPaymentFailed
<1>2. ASSUME NEW c \in Case, CrashInClosing(c) PROVE ActStep(a)
  BY <1>2, SupersedeStep, UnchangedStep DEF CrashInClosing
<1>3. ASSUME NEW c \in Case, NEW due \in PromiseTimes, CrashInPromise(c, due)
      PROVE  ActStep(a)
  BY <1>3, SupersedeStep, UnchangedStep DEF CrashInPromise
<1>4. ASSUME NEW b \in ActionId, CrashInDefers(b) PROVE ActStep(a)
  <2>1. CaseOf(b).status # "absent"
    BY <1>4 DEF CrashInDefers, AtGate, Active
  <2> QED
    BY <1>4, <2>1, SetStatusStep, UnchangedStep DEF CrashInDefers, ActionStatus
<1>5. ASSUME NEW b \in ActionId, CrashInExecutes(b) PROVE ActStep(a)
  BY <1>5, ExecuteStep DEF CrashInExecutes
<1>6. CASE Restart
  BY <1>6, UnchangedStep DEF Restart
<1> QED
  BY <1>1, <1>2, <1>3, <1>4, <1>5, <1>6 DEF Crashes

LEMMA EveryActStep ==
  ASSUME ChargeInv, [Next]_vars, NEW a \in ActionId PROVE ActStep(a)
<1>1. CASE Next
  <2>1. Typed
    BY <1>1, StepTyped DEF ChargeInv
  <2>2. CASE \E c \in Case : Handlers(c)
    BY <2>1, <2>2, HandlersStep
  <2>3. CASE \E b \in ActionId : TickStep(b)
    BY <2>1, <2>3, TickChargeStep
  <2>4. CASE Crashes
    BY <2>1, <2>4, CrashesStep
  <2>5. CASE TickStart \/ Advance
    BY <2>5, UnchangedStep DEF TickStart, Advance
  <2> QED
    BY <1>1, <2>2, <2>3, <2>4, <2>5 DEF Next
<1>2. CASE UNCHANGED vars
  BY <1>2, UnchangedStep DEF vars
<1> QED
  BY <1>1, <1>2

LEMMA ChargeInit == Init => ChargeInv
<1> SUFFICES ASSUME Init PROVE ChargeInv
  OBVIOUS
<1>1. \A a \in ActionId : act[a].status = "none"
  BY DEF Init, NoAction
<1> QED
  BY <1>1, InitInv DEF ChargeInv, ActionHasCase, ChargesApproved

(* A charge or link above the cap went out only with a human's approval,   *)
(* for every set of cases, ladder length, clock and number of restarts     *)
(* (policy.py:74-82 with agent.py:182-186): the gate asked, and neither    *)
(* the ingest of a redelivered failure nor any other handler forgets the   *)
(* approval afterwards.                                                    *)
THEOREM LiveCharges == Spec => []ChargesApproved
<1>1. ChargeInv /\ [Next]_vars => ChargeInv'
  <2> SUFFICES ASSUME ChargeInv, [Next]_vars PROVE ChargeInv'
    OBVIOUS
  <2>1. LiveInv'
    BY StepInv DEF ChargeInv
  <2>2. \A a \in ActionId : ActStep(a)
    BY EveryActStep
  <2>3. Typed
    BY StepTyped DEF ChargeInv
  <2> QED
    BY <2>1, <2>2, <2>3, ActStepKeepsCharges DEF ChargeInv
<1>2. ChargeInv => ChargesApproved
  BY DEF ChargeInv
<1> QED
  BY ChargeInit, <1>1, <1>2, PTL DEF Spec

-----------------------------------------------------------------------------
(* The pre-debit notice.  A notice is recorded by a tick, before the first *)
(* attempt; a tick never runs ahead of the clock nor behind an older one.  *)
Due(r) == r.class = "MANDATE_ISSUE" /\ r.amount >= RbiThreshold

Noted(r, noted) ==
  /\ r.notice => noted # NoTime
  /\ Due(r) /\ r.attempts # {} => r.notice /\ \A u \in r.attempts : noted <= u

NoticeInv ==
  /\ LiveInv
  /\ tickAt <= now
  /\ \A c \in Case : noticedAt[c] <= tickAt /\ Noted(row[c], noticedAt[c])

LEMMA GateNotice ==
  ASSUME NEW r, NEW t, NEW contact, NEW money,
         Evaluate(r, t, contact, money).reason = "rbi_notice"
  PROVE  NeedsNotice(r)
  BY DEF Evaluate, Block, Defer, Execute

LEMMA NoticeFacts ==
  ASSUME LiveInv, NEW c \in Case
  PROVE  /\ noticedAt[c] \in Int /\ now \in Nat /\ tickAt \in Nat
         /\ row[c] \in CaseFields
         /\ TimePoints \subseteq Nat
<1>1. noticedAt[c] \in TimePoints \cup {NoTime} /\ now \in TimePoints /\ tickAt \in TimePoints
  BY DEF LiveInv, TypeOK
<1>2. row[c] \in CaseFields
  BY DEF LiveInv, TypeOK
<1>3. TimePoints \subseteq Nat
  BY LiveAssumption
<1>4. noticedAt[c] \in Nat \/ noticedAt[c] = NoTime
  BY <1>1, <1>3
<1> QED
  BY <1>1, <1>2, <1>3, <1>4 DEF NoTime

Notes(a) ==
  /\ CaseOf(a).status \in Active
  /\ RecordNotice(a)
  /\ tickAt' = tickAt /\ now' = now

(* No notice appears on a document except by being recorded.               *)
NoNotice ==
  /\ noticedAt' = noticedAt
  /\ \A c \in Case : row'[c].notice => row[c].notice

LEMMA SameRows == ASSUME row' = row, noticedAt' = noticedAt PROVE NoNotice
  BY DEF NoNotice

LEMMA OneRow ==
  ASSUME LiveInv, noticedAt' = noticedAt, NEW c \in Case, NEW r,
         row' = [row EXCEPT ![c] = r], r.notice => row[c].notice
  PROVE  NoNotice
  BY DEF NoNotice, LiveInv, TypeOK

LEMMA IngestNoNotice ==
  ASSUME LiveInv, noticedAt' = noticedAt, NEW c \in Case,
         row' = [row EXCEPT ![c] = Ingested(c)]
  PROVE  NoNotice
  BY OneRow DEF Ingested, Document

LEMMA RecoverNoNotice ==
  ASSUME LiveInv, noticedAt' = noticedAt, NEW c \in Case,
         row' = [row EXCEPT ![c] = Recovered(@)]
  PROVE  NoNotice
<1>1. row' = [row EXCEPT ![c] = Recovered(row[c])] /\ row[c] \in CaseFields
  BY NoticeFacts DEF LiveInv, TypeOK
<1>2. Recovered(row[c]).notice = row[c].notice
  BY <1>1 DEF Recovered, CaseFields
<1> QED
  BY <1>1, <1>2, OneRow

LEMMA HandlersNoNotice ==
  ASSUME LiveInv, NEW c \in Case, Handlers(c) PROVE NoNotice
<1>0. row[c] \in CaseFields /\ row \in [Case -> CaseFields]
  BY NoticeFacts DEF LiveInv, TypeOK
<1>1. CASE PaymentFailed(c)
  BY <1>1, IngestNoNotice DEF PaymentFailed
<1>2. CASE PaymentLinkPaid(c) \/ ReplyPaid(c) \/ DemoVerify(c)
  BY <1>2, RecoverNoNotice, SameRows
  DEF PaymentLinkPaid, ReplyPaid, DemoVerify, ReplyUnchanged, MarkRecovered
<1>3. CASE ReplyStop(c) \/ OperatorOptOut(c)
  <2> DEFINE new == [[row[c] EXCEPT !.optedOut = TRUE] EXCEPT !.status = "written_off"]
  <2>1. row' = [row EXCEPT ![c] = new] /\ noticedAt' = noticedAt
    BY <1>3 DEF ReplyStop, OperatorOptOut, WriteOff, ReplyUnchanged
  <2>2. new.notice = row[c].notice
    BY <1>0 DEF CaseFields
  <2> QED
    BY <2>1, <2>2, OneRow
<1>4. CASE ReplyRefused(c) \/ BatchRunCloses(c)
  <2> DEFINE new == [row[c] EXCEPT !.status = "written_off"]
  <2>1. row' = [row EXCEPT ![c] = new] /\ noticedAt' = noticedAt
    BY <1>4 DEF ReplyRefused, BatchRunCloses, WriteOff, ReplyUnchanged
  <2>2. new.notice = row[c].notice
    BY <1>0 DEF CaseFields
  <2> QED
    BY <2>1, <2>2, OneRow
<1>5. ASSUME NEW due \in PromiseTimes, ReplyPromise(c, due) PROVE NoNotice
  <2> DEFINE new == [row[c] EXCEPT !.promiseDue = due]
  <2>1. row' = [row EXCEPT ![c] = new] /\ noticedAt' = noticedAt
    BY <1>0, <1>5 DEF ReplyPromise, ReplyUnchanged
  <2>2. new.notice = row[c].notice
    BY <1>0 DEF CaseFields
  <2> QED
    BY <2>1, <2>2, OneRow
<1>6. CASE Approve(c)
  <2> DEFINE new == [row[c] EXCEPT !.approved = TRUE]
  <2>1. row' = [row EXCEPT ![c] = new] /\ noticedAt' = noticedAt
    BY <1>0, <1>6 DEF Approve
  <2>2. new.notice = row[c].notice
    BY <1>0 DEF CaseFields
  <2> QED
    BY <2>1, <2>2, OneRow
<1> QED
  BY <1>1, <1>2, <1>3, <1>4, <1>5, <1>6 DEF Handlers

LEMMA TickNotice ==
  ASSUME LiveInv, NEW a \in ActionId, TickStep(a) PROVE NoNotice \/ Notes(a)
<1> DEFINE c == act[a].case
<1>0. c \in Case /\ row[c] \in CaseFields /\ row \in [Case -> CaseFields]
  BY ActFacts, NoticeFacts DEF LiveInv, TypeOK
<1>1. CASE SkipClosed(a) \/ CheckPromise(a) \/ GateBlocks(a) \/ LinkFails(a) \/ VoiceRaises(a)
  BY <1>1, SameRows DEF SkipClosed, CheckPromise, GateBlocks, LinkFails, VoiceRaises
<1>2. CASE GateDefers(a)
  BY <1>2 DEF GateDefers, AtGate, Handled, Notes
<1>3. CASE Executes(a)
  <2>1. row' = [row EXCEPT ![c] = Attempted(row[c], act[a].type)] /\ noticedAt' = noticedAt
    BY <1>0, <1>3 DEF Executes
  <2>2. Attempted(row[c], act[a].type).notice = row[c].notice
    BY <1>0 DEF Attempted, CaseFields
  <2> QED
    BY <1>0, <2>1, <2>2, OneRow
<1> QED
  BY <1>1, <1>2, <1>3 DEF TickStep

LEMMA CrashNotice ==
  ASSUME LiveInv, Crashes PROVE NoNotice \/ \E a \in ActionId : Notes(a)
<1>1. ASSUME NEW c \in Case, CrashInPaymentFailed(c) PROVE NoNotice
  BY <1>1, IngestNoNotice DEF CrashInPaymentFailed
<1>2. ASSUME NEW c \in Case, CrashInClosing(c) PROVE NoNotice
  <2>0. row[c] \in CaseFields /\ row \in [Case -> CaseFields]
    BY NoticeFacts DEF LiveInv, TypeOK
  <2>1. CASE row' = [row EXCEPT ![c] = Recovered(@)]
    BY <1>2, <2>1, RecoverNoNotice DEF CrashInClosing
  <2>2. ASSUME NEW s,
               row' = [row EXCEPT ![c] = [@ EXCEPT !.optedOut = TRUE, !.status = s]]
        PROVE  NoNotice
    <3> DEFINE new == [row[c] EXCEPT !.optedOut = TRUE, !.status = s]
    <3>1. row' = [row EXCEPT ![c] = new] /\ new.notice = row[c].notice
      BY <2>0, <2>2 DEF CaseFields
    <3> QED
      BY <1>2, <3>1, OneRow DEF CrashInClosing
  <2>3. CASE row' = [row EXCEPT ![c] = [@ EXCEPT !.status = "written_off"]]
    <3> DEFINE new == [row[c] EXCEPT !.status = "written_off"]
    <3>1. row' = [row EXCEPT ![c] = new] /\ new.notice = row[c].notice
      BY <2>0, <2>3 DEF CaseFields
    <3> QED
      BY <1>2, <3>1, OneRow DEF CrashInClosing
  <2> QED
    BY <1>2, <2>1, <2>2, <2>3 DEF CrashInClosing
<1>3. ASSUME NEW c \in Case, NEW due \in PromiseTimes, CrashInPromise(c, due)
      PROVE  NoNotice
  <2>0. row[c] \in CaseFields /\ row \in [Case -> CaseFields]
    BY NoticeFacts DEF LiveInv, TypeOK
  <2> DEFINE new == [row[c] EXCEPT !.promiseDue = due]
  <2>1. row' = [row EXCEPT ![c] = new] /\ new.notice = row[c].notice
    BY <1>3, <2>0 DEF CrashInPromise, CaseFields
  <2> QED
    BY <1>3, <2>1, OneRow DEF CrashInPromise
<1>4. ASSUME NEW a \in ActionId, CrashInDefers(a) PROVE Notes(a)
  BY <1>4 DEF CrashInDefers, AtGate, Restarted, Notes
<1>5. CASE Restart \/ \E a \in ActionId : CrashInExecutes(a)
  BY <1>5, SameRows DEF CrashInExecutes, Restart
<1> QED
  BY <1>1, <1>2, <1>3, <1>4, <1>5 DEF Crashes

LEMMA StepNotice ==
  ASSUME LiveInv, [Next]_vars PROVE NoNotice \/ \E a \in ActionId : Notes(a)
<1>1. CASE TickStart \/ Advance \/ UNCHANGED vars
  BY <1>1, SameRows DEF TickStart, Advance, vars
<1> QED
  BY <1>1, HandlersNoNotice, TickNotice, CrashNotice DEF Next

(* A tick's time is the clock's when it starts, and then stays.            *)
LEMMA TickBehindClock ==
  ASSUME LiveInv, tickAt <= now, [Next]_vars
  PROVE  tickAt <= tickAt' /\ tickAt' <= now'
<1>0. now \in Nat /\ tickAt \in Nat
  BY LiveAssumption DEF LiveInv, TypeOK
<1>1. CASE TickStart
  BY <1>0, <1>1 DEF TickStart
<1>2. CASE Advance
  BY <1>0, <1>2, LiveAssumption DEF Advance
<1>3. CASE \E c \in Case : Handlers(c)
  BY <1>0, <1>3
  DEF Handlers, PaymentFailed, PaymentLinkPaid, ReplyStop, ReplyPaid, ReplyRefused,
      ReplyPromise, ReplyUnchanged, Approve, OperatorOptOut, DemoVerify, BatchRunCloses
<1>4. CASE \E a \in ActionId : TickStep(a)
  BY <1>0, <1>4 DEF TickStep, SkipClosed, CheckPromise, GateDefers, GateBlocks,
                    LinkFails, VoiceRaises, Executes, Handled
<1>5. CASE Crashes
  <2>1. Restarted
    BY <1>5 DEF Crashes, CrashInPaymentFailed, CrashInClosing, CrashInPromise,
                CrashInDefers, CrashInExecutes, Restart
  <2> QED
    BY <1>0, <2>1 DEF Restarted
<1>6. CASE UNCHANGED vars
  BY <1>0, <1>6 DEF vars
<1> QED
  BY <1>1, <1>2, <1>3, <1>4, <1>5, <1>6 DEF Next

(* A change of documents that records no notice: an attempt is added only  *)
(* to a case that needs no notice, or that has had one, and at the tick's  *)
(* time, which no notice is later than.                                    *)
LEMMA RowKeepsNoted ==
  ASSUME NoticeInv, Typed, \A d \in Case : row'[d].notice => row[d].notice,
         NEW c \in Case
  PROVE  Noted(row'[c], noticedAt[c])
<1>1. /\ Noted(row[c], noticedAt[c]) /\ noticedAt[c] <= tickAt
      /\ row[c] \in CaseFields /\ row'[c].notice => row[c].notice
  BY NoticeFacts DEF NoticeInv
<1>2. CASE row'[c] = row[c]
  BY <1>1, <1>2
<1>3. ASSUME NEW r \in CaseFields, row'[c] = r, Changes(c, row[c], r),
             row[c].status = "absent" \/ Keeps(row[c], r)
      PROVE  Noted(row'[c], noticedAt[c])
  <2>1. r.notice => noticedAt[c] # NoTime
    BY <1>1, <1>3 DEF Noted
  <2>2. CASE Opens(c, row[c], r)
    BY <1>3, <2>1, <2>2 DEF Opens, Document, Noted
  <2>3. CASE row[c].status = "absent" /\ ~Opens(c, row[c], r)
    <3>1. row[c] = Document(c, "absent", 0)
      BY <2>3 DEF NoticeInv, LiveInv, AbsentIsBlank
    <3>2. row[c].attempts = {}
      BY <3>1 DEF Document
    <3>3. r.attempts = {}
      BY <1>3, <2>3, <3>2 DEF Changes, SameView, Counts, Closes, Active
    <3> QED
      BY <1>3, <2>1, <3>3 DEF Noted
  <2>4. CASE Keeps(row[c], r) /\ ~Counts(row[c], r) /\ ~Opens(c, row[c], r)
    <3>1. r.attempts = row[c].attempts
      BY <1>3, <2>4 DEF Changes, SameView, Closes
    <3> QED
      BY <1>1, <1>3, <2>1, <2>4, <3>1 DEF Noted, Keeps, Due
  <2>5. CASE Keeps(row[c], r) /\ Counts(row[c], r)
    <3>1. r.attempts = row[c].attempts \cup {tickAt} /\ ~NeedsNotice(row[c])
      BY <2>5 DEF Counts
    <3>2. Due(r) => row[c].notice
      BY <1>1, <2>5, <3>1 DEF Due, NeedsNotice, Noted, Keeps
    <3>3. Due(r) => r.notice /\ Due(row[c])
      BY <2>5, <3>2 DEF Keeps, Due
    <3>4. Due(r) => \A u \in r.attempts : noticedAt[c] <= u
      BY <1>1, <3>1, <3>3 DEF Noted
    <3> QED
      BY <1>3, <2>1, <3>3, <3>4 DEF Noted
  <2> QED
    BY <1>3, <2>2, <2>3, <2>4, <2>5
<1>4. row' = row \/ \E d \in Case, r \in CaseFields :
        /\ row' = [row EXCEPT ![d] = r] /\ Changes(d, row[d], r)
        /\ row[d].status = "absent" \/ Keeps(row[d], r)
  BY DEF Typed, RowStep
<1>5. ASSUME NEW d \in Case, NEW r \in CaseFields, row' = [row EXCEPT ![d] = r]
      PROVE  row'[c] = row[c] \/ (d = c /\ row'[c] = r)
  BY <1>5 DEF NoticeInv, LiveInv, TypeOK
<1> QED
  BY <1>2, <1>3, <1>4, <1>5

(* Recording a notice, which the gate asks for before any attempt.         *)
LEMMA NotesKeepsNoted ==
  ASSUME NoticeInv, NEW a \in ActionId, Notes(a), NEW c \in Case
  PROVE  Noted(row'[c], noticedAt'[c]) /\ noticedAt'[c] <= tickAt'
<1>0. /\ act[a].case \in Case /\ row \in [Case -> CaseFields]
      /\ row[c] \in CaseFields /\ tickAt \in Nat
      /\ Noted(row[c], noticedAt[c]) /\ noticedAt[c] <= tickAt /\ tickAt' = tickAt
      /\ noticedAt \in [Case -> TimePoints \cup {NoTime}]
  BY ActFacts, NoticeFacts DEF NoticeInv, LiveInv, TypeOK, Notes
<1>1. CASE c # act[a].case \/ Gate(a).reason # "rbi_notice"
  <2>1. noticedAt'[c] = noticedAt[c]
    BY <1>0, <1>1 DEF Notes, RecordNotice
  <2>2. row'[c] = row[c]
    <3>1. CASE c # act[a].case
      BY <1>0, <3>1 DEF Notes, RecordNotice
    <3>2. CASE c = act[a].case /\ Gate(a).reason # "rbi_notice"
      <4>1. row' = [row EXCEPT ![c].notice = row[c].notice]
        BY <1>0, <3>2 DEF Notes, RecordNotice, CaseFields
      <4> QED
        BY <1>0, <4>1 DEF CaseFields
    <3> QED
      BY <1>1, <3>1, <3>2
  <2> QED
    BY <1>0, <2>1, <2>2
<1>2. CASE c = act[a].case /\ Gate(a).reason = "rbi_notice"
  <2>1. row[c].attempts = {}
    BY <1>2, GateNotice DEF Gate, CaseOf, NeedsNotice
  <2>2. row'[c].attempts = row[c].attempts
    BY <1>0, <1>2 DEF Notes, RecordNotice, CaseFields
  <2>3. noticedAt'[c] = tickAt
    BY <1>0, <1>2 DEF Notes, RecordNotice
  <2> QED
    BY <1>0, <2>1, <2>2, <2>3 DEF Noted, NoTime
<1> QED
  BY <1>1, <1>2

(* The first attempt on a large mandate follows the recorded notice, for   *)
(* every set of cases and whatever restarts lose in between                *)
(* (policy.py:84-96, executor.py:111-127).                                 *)
THEOREM LiveNotices == Spec => []NoticePrecedesAttempts
<1>1. Init => NoticeInv
  <2> SUFFICES ASSUME Init PROVE NoticeInv
    OBVIOUS
  <2>1. LiveInv /\ now \in Nat
    BY InitInv, LiveAssumption DEF LiveInv, TypeOK
  <2>2. \A c \in Case : noticedAt[c] = NoTime /\ ~row[c].notice /\ row[c].attempts = {}
    BY DEF Init, Document
  <2> QED
    BY <2>1, <2>2 DEF Init, NoticeInv, Noted, NoTime
<1>2. NoticeInv /\ [Next]_vars => NoticeInv'
  <2> SUFFICES ASSUME NoticeInv, [Next]_vars PROVE NoticeInv'
    OBVIOUS
  <2>1. LiveInv' /\ Typed /\ tickAt <= tickAt' /\ tickAt' <= now'
    BY StepInv, StepTyped, TickBehindClock DEF NoticeInv
  <2>2. ASSUME NEW c \in Case
        PROVE  noticedAt'[c] <= tickAt' /\ Noted(row'[c], noticedAt'[c])
    <3>1. CASE NoNotice
      <4>1. Noted(row'[c], noticedAt[c]) /\ noticedAt' = noticedAt
        BY <2>1, <3>1, RowKeepsNoted DEF NoNotice
      <4>2. noticedAt[c] <= tickAt /\ noticedAt[c] \in Int /\ tickAt \in Nat
        BY NoticeFacts DEF NoticeInv
      <4>3. tickAt' \in Nat
        BY <2>1, LiveAssumption DEF LiveInv, TypeOK
      <4> QED
        BY <2>1, <4>1, <4>2, <4>3
    <3>2. ASSUME NEW a \in ActionId, Notes(a)
          PROVE  noticedAt'[c] <= tickAt' /\ Noted(row'[c], noticedAt'[c])
      BY <3>2, NotesKeepsNoted
    <3> QED
      BY <3>1, <3>2, StepNotice DEF NoticeInv
  <2> QED
    BY <2>1, <2>2 DEF NoticeInv
<1>3. NoticeInv => NoticePrecedesAttempts
  BY DEF NoticeInv, Noted, Due, NoticePrecedesAttempts
<1> QED
  BY <1>1, <1>2, <1>3, PTL DEF Spec

-----------------------------------------------------------------------------
(* No action is left scheduled for a closed case, until a restart.         *)
Pending(a) == act[a].status = "scheduled" => row[act[a].case].status \in Active
NoneForClosed == \A a \in ActionId : Pending(a)

(* Closing a case together with its scheduled actions.                     *)
LEMMA ClosingLeavesNone ==
  ASSUME LiveInv, NoneForClosed, NEW c \in Case, NEW r, act' = Superseded(c),
         row' = [row EXCEPT ![c] = r]
  PROVE  NoneForClosed'
<1> SUFFICES ASSUME NEW a \in ActionId, act'[a].status = "scheduled"
             PROVE  row'[act'[a].case].status \in Active
  BY DEF NoneForClosed, Pending
<1>0. act[a] \in ActionRow /\ row \in [Case -> CaseFields]
  BY DEF LiveInv, TypeOK
<1>1. ~(act[a].case = c /\ act[a].status = "scheduled")
  <2>1. SUFFICES ASSUME act[a].case = c /\ act[a].status = "scheduled" PROVE FALSE
    OBVIOUS
  <2>2. act'[a].status = "superseded"
    BY <1>0, <2>1 DEF Superseded, ActionRow
  <2> QED
    BY <2>2
<1>2. act'[a] = act[a] /\ act[a].case # c /\ act[a].case \in Case
  BY <1>0, <1>1 DEF Superseded, ActionRow
<1>3. row'[act[a].case] = row[act[a].case]
  BY <1>0, <1>2
<1> QED
  BY <1>2, <1>3 DEF NoneForClosed, Pending

(* Documents change and no active case closes; an action scheduled now was *)
(* scheduled before, or belongs to an active case.                         *)
LEMMA OpenStaysNone ==
  ASSUME LiveInv, NoneForClosed, NEW c \in Case, NEW r, row' = [row EXCEPT ![c] = r],
         row[c].status \in Active => r.status \in Active,
         \A a \in ActionId :
           \/ act'[a] = act[a]
           \/ act'[a].status # "scheduled"
           \/ (act'[a].case = c /\ r.status \in Active)
  PROVE  NoneForClosed'
<1> SUFFICES ASSUME NEW a \in ActionId, act'[a].status = "scheduled"
             PROVE  row'[act'[a].case].status \in Active
  BY DEF NoneForClosed, Pending
<1>0. act[a].case \in Case /\ row \in [Case -> CaseFields]
  BY DEF LiveInv, TypeOK, ActionRow
<1>1. CASE act'[a] = act[a]
  <2>1. row[act[a].case].status \in Active
    BY <1>1 DEF NoneForClosed, Pending
  <2>2. row'[act[a].case] = IF act[a].case = c THEN r ELSE row[act[a].case]
    BY <1>0
  <2> QED
    BY <1>1, <2>1, <2>2
<1>2. CASE act'[a].case = c /\ r.status \in Active
  BY <1>0, <1>2
<1> QED
  BY <1>1, <1>2

LEMMA SameRowUpdate ==
  ASSUME LiveInv, NEW c \in Case, row' = row PROVE row' = [row EXCEPT ![c] = row[c]]
  BY DEF LiveInv, TypeOK

LEMMA RecoveringLeavesNone ==
  ASSUME LiveInv, NoneForClosed, NEW c \in Case, MarkRecovered(c)
  PROVE  NoneForClosed'
<1>1. CASE UNCHANGED <<row, act>>
  BY <1>1 DEF NoneForClosed, Pending
<1>2. CASE row' = [row EXCEPT ![c] = Recovered(@)] /\ act' = Superseded(c)
  BY <1>2, ClosingLeavesNone
<1> QED
  BY <1>1, <1>2 DEF MarkRecovered

LEMMA PlanningLeavesNone ==
  ASSUME LiveInv, NoneForClosed, NEW c \in Case, PaymentFailed(c)
  PROVE  NoneForClosed'
<1> DEFINE r == Ingested(c)
<1>1. /\ row' = [row EXCEPT ![c] = r] /\ r.status # "absent"
      /\ row[c].status \in Active => r.status \in Active
      /\ r \in CaseFields
  BY IngestedRow DEF PaymentFailed, Ingested, Document, Active
<1>2. ASSUME NEW a \in ActionId
      PROVE  \/ act'[a] = act[a]
             \/ act'[a].status # "scheduled"
             \/ (act'[a].case = c /\ r.status \in Active)
  <2>1. CASE act' = act
    BY <2>1
  <2>2. CASE r.status \notin Closed /\ \E s :
               act' = [act EXCEPT ![FreshId] = Saved(c, s.type, now + s.delay + IstOffset)]
    <3>1. PICK s :
            act' = [act EXCEPT ![FreshId] = Saved(c, s.type, now + s.delay + IstOffset)]
      BY <2>2
    <3>2. r.status \in Active
      BY <1>1, <2>2 DEF CaseFields
    <3>3. CASE a = FreshId
      BY <3>1, <3>2, <3>3 DEF Saved, LiveInv, TypeOK
    <3>4. CASE a # FreshId
      BY <3>1, <3>4 DEF LiveInv, TypeOK
    <3> QED
      BY <3>3, <3>4
  <2> QED
    BY <2>1, <2>2 DEF PaymentFailed, PlanAndSchedule
<1> QED
  BY <1>1, <1>2, OpenStaysNone

LEMMA PromisingLeavesNone ==
  ASSUME LiveInv, NoneForClosed, NEW c \in Case, NEW due \in PromiseTimes,
         ReplyPromise(c, due)
  PROVE  NoneForClosed'
<1> DEFINE r == [row[c] EXCEPT !.promiseDue = due]
<1>1. row' = [row EXCEPT ![c] = r] /\ r.status = row[c].status
  BY RowFacts DEF ReplyPromise, LiveInv, TypeOK, CaseFields
<1>2. row[c].status \in Active
  BY AddressedActive DEF ReplyPromise
<1>3. ASSUME NEW a \in ActionId
      PROVE  \/ act'[a] = act[a]
             \/ act'[a].status # "scheduled"
             \/ (act'[a].case = c /\ r.status \in Active)
  <2>1. CASE a = FreshId
    BY <1>1, <1>2, <2>1 DEF ReplyPromise, Superseded, Saved
  <2>2. CASE a # FreshId
    BY <2>2 DEF ReplyPromise, Superseded, LiveInv, TypeOK, ActionRow
  <2> QED
    BY <2>1, <2>2
<1> QED
  BY <1>1, <1>2, <1>3, OpenStaysNone

LEMMA HandlersLeaveNone ==
  ASSUME LiveInv, NoneForClosed, NEW c \in Case, Handlers(c) PROVE NoneForClosed'
<1>1. CASE PaymentFailed(c)
  BY <1>1, PlanningLeavesNone
<1>2. CASE PaymentLinkPaid(c) \/ ReplyPaid(c) \/ DemoVerify(c)
  BY <1>2, RecoveringLeavesNone DEF PaymentLinkPaid, ReplyPaid, DemoVerify
<1>3. CASE ReplyStop(c) \/ ReplyRefused(c) \/ OperatorOptOut(c) \/ BatchRunCloses(c)
  BY <1>3, ClosingLeavesNone
  DEF ReplyStop, ReplyRefused, OperatorOptOut, BatchRunCloses, WriteOff
<1>4. ASSUME NEW due \in PromiseTimes, ReplyPromise(c, due) PROVE NoneForClosed'
  BY <1>4, PromisingLeavesNone
<1>5. CASE Approve(c)
  <2> DEFINE r == [row[c] EXCEPT !.approved = TRUE]
  <2>1. row' = [row EXCEPT ![c] = r] /\ r.status = row[c].status /\ act' = act
    BY <1>5, RowFacts DEF Approve, LiveInv, TypeOK, CaseFields
  <2> QED
    BY <2>1, OpenStaysNone
<1> QED
  BY <1>1, <1>2, <1>3, <1>4, <1>5 DEF Handlers

(* A tick writes an action back only for a case it has just read as active. *)
LEMMA WritingBackLeavesNone ==
  ASSUME LiveInv, NoneForClosed, NEW b \in ActionId, NEW status,
         CaseOf(b).status \in Active, SetStatus(b, status),
         NEW r, row' = [row EXCEPT ![act[b].case] = r], r.status \in Active
  PROVE  NoneForClosed'
<1>1. act[b].case \in Case
  BY ActFacts DEF LiveInv
<1>2. ASSUME NEW a \in ActionId
      PROVE  act'[a] = act[a] \/ act'[a].case = act[b].case
  BY DEF SetStatus, LiveInv, TypeOK, ActionRow
<1> QED
  BY <1>1, <1>2, OpenStaysNone

LEMMA TickLeavesNone ==
  ASSUME LiveInv, NoneForClosed, NEW b \in ActionId, TickStep(b) PROVE NoneForClosed'
<1> DEFINE c == act[b].case
<1>0. c \in Case /\ row[c] \in CaseFields /\ row \in [Case -> CaseFields]
  BY ActFacts, RowFacts DEF LiveInv, TypeOK
<1>1. CASE SkipClosed(b)
  BY <1>0, <1>1, SameRowUpdate, ClosingLeavesNone DEF SkipClosed
<1>2. CASE CheckPromise(b) \/ GateBlocks(b) \/ LinkFails(b)
  <2>1. row' = [row EXCEPT ![c] = row[c]] /\ row[c].status \in Active
    BY <1>0, <1>2 DEF CheckPromise, GateBlocks, LinkFails, AtGate, CaseOf
  <2>2. \E status : SetStatus(b, status)
    BY <1>2 DEF CheckPromise, GateBlocks, LinkFails
  <2> QED
    BY <2>1, <2>2, WritingBackLeavesNone DEF CaseOf
<1>3. CASE GateDefers(b)
  <2> DEFINE r == [row[c] EXCEPT !.notice = @ \/ Gate(b).reason = "rbi_notice"]
  <2>1. row' = [row EXCEPT ![c] = r] /\ r.status = row[c].status
    BY <1>0, <1>3 DEF GateDefers, RecordNotice, CaseFields
  <2>2. row[c].status \in Active /\ \E status : SetStatus(b, status)
    BY <1>3 DEF GateDefers, AtGate, CaseOf
  <2> QED
    BY <2>1, <2>2, WritingBackLeavesNone DEF CaseOf
<1>4. CASE VoiceRaises(b)
  BY <1>4 DEF VoiceRaises, NoneForClosed, Pending
<1>5. CASE Executes(b)
  <2> DEFINE r == Attempted(row[c], act[b].type)
  <2>1. row' = [row EXCEPT ![c] = r] /\ r.status \in Active
    BY <1>0, <1>5 DEF Executes, Attempted, CaseFields, Active
  <2>2. CaseOf(b).status \in Active /\ SetStatus(b, "executed")
    BY <1>5 DEF Executes, AtGate
  <2> HIDE DEF r
  <2> QED
    BY <2>1, <2>2, WritingBackLeavesNone
<1> QED
  BY <1>1, <1>2, <1>3, <1>4, <1>5 DEF TickStep

PendingInv == LiveInv /\ ScheduledIsActive

(* A step that leaves the process unrestarted is no crash and follows none. *)
LEMMA OnlyCrashesRestart ==
  ASSUME LiveInv, [Next]_vars, epoch' = 0 PROVE epoch = 0 /\ ~Crashes
<1>1. epoch \in Nat
  BY LiveAssumption DEF LiveInv, TypeOK
<1>2. ASSUME Crashes PROVE Restarted
  BY <1>2 DEF Crashes, CrashInPaymentFailed, CrashInClosing, CrashInPromise,
              CrashInDefers, CrashInExecutes, Restart
<1>3. ~Crashes
  BY <1>1, <1>2 DEF Restarted
<1>4. epoch' = epoch
  BY <1>3 DEF Next, vars, TickStart, Advance, Handlers, PaymentFailed, PaymentLinkPaid,
    ReplyStop, ReplyPaid, ReplyRefused, ReplyPromise, ReplyUnchanged, Approve,
    OperatorOptOut, DemoVerify, BatchRunCloses, TickStep, SkipClosed, CheckPromise, GateDefers,
    GateBlocks, LinkFails, VoiceRaises, Executes, Handled
<1> QED
  BY <1>3, <1>4

LEMMA PendingInvHolds == Spec => []PendingInv
<1>1. Init => PendingInv
  BY InitInv DEF PendingInv, ScheduledIsActive, Init, NoAction
<1>2. PendingInv /\ [Next]_vars => PendingInv'
  <2> SUFFICES ASSUME PendingInv, [Next]_vars, epoch' = 0 PROVE ScheduledIsActive'
    BY StepInv DEF PendingInv, ScheduledIsActive
  <2>1. epoch = 0 /\ ~Crashes
    BY OnlyCrashesRestart DEF PendingInv
  <2>2. LiveInv /\ NoneForClosed
    BY <2>1 DEF PendingInv, ScheduledIsActive, NoneForClosed, Pending
  <2>3. ASSUME TickStart \/ Advance \/ UNCHANGED vars
        PROVE  NoneForClosed'
    BY <2>2, <2>3 DEF TickStart, Advance, vars, NoneForClosed, Pending
  <2>4. NoneForClosed'
    BY <2>1, <2>2, <2>3, HandlersLeaveNone, TickLeavesNone DEF Next
  <2> QED
    BY <2>4 DEF ScheduledIsActive, NoneForClosed, Pending
<1> QED
  BY <1>1, <1>2, PTL DEF Spec

(* Until a restart, an action a tick could still pick up belongs to an     *)
(* active case, for every set of cases and every interleaving of handlers  *)
(* with the steps of a tick (agent.py:127-171, store.py:218-226).          *)
THEOREM LivePending == Spec => []ScheduledIsActive
<1>1. PendingInv => ScheduledIsActive
  BY DEF PendingInv
<1> QED
  BY <1>1, PendingInvHolds, PTL

-----------------------------------------------------------------------------
(* Money booked and the status of the case.                                *)
Agrees(r) ==
  /\ r.status = "recovered" => r.paid
  /\ r.paid => r.status = "recovered" \/ (r.status = "written_off" /\ r.optedOut)

MoneyInv == LiveInv /\ \A c \in Case : Agrees(row[c])

(* One document is stored anew, or none.                                   *)
LEMMA OneRowAgrees ==
  ASSUME MoneyInv, NEW c \in Case, NEW r, row' = [row EXCEPT ![c] = r], Agrees(r)
  PROVE  \A d \in Case : Agrees(row'[d])
  BY DEF MoneyInv, LiveInv, TypeOK

LEMMA SameRowsAgree ==
  ASSUME MoneyInv, row' = row PROVE \A d \in Case : Agrees(row'[d])
  BY DEF MoneyInv

LEMMA IngestedAgrees ==
  ASSUME MoneyInv, NEW c \in Case, row' = [row EXCEPT ![c] = Ingested(c)]
  PROVE  \A d \in Case : Agrees(row'[d])
<1>1. Agrees(Ingested(c))
  BY DEF MoneyInv, Ingested, Document, Agrees
<1> QED
  BY <1>1, OneRowAgrees

LEMMA RecoveredAgrees ==
  ASSUME MoneyInv, NEW c \in Case, row' = [row EXCEPT ![c] = Recovered(@)]
  PROVE  \A d \in Case : Agrees(row'[d])
<1>1. row' = [row EXCEPT ![c] = Recovered(row[c])] /\ row[c] \in CaseFields
  BY RowFacts DEF MoneyInv, LiveInv, TypeOK
<1>2. Agrees(Recovered(row[c]))
  BY <1>1 DEF Recovered, Agrees, CaseFields
<1> QED
  BY <1>1, <1>2, OneRowAgrees

(* A case is given up: an active one, or any one that opts out.            *)
LEMMA ClosedAgrees ==
  ASSUME MoneyInv, NEW c \in Case, NEW r, row' = [row EXCEPT ![c] = r],
         \/ r = [row[c] EXCEPT !.status = "written_off"] /\ row[c].status \in Active
         \/ r = [[row[c] EXCEPT !.optedOut = TRUE] EXCEPT !.status = "written_off"]
         \/ r = [[row[c] EXCEPT !.optedOut = TRUE] EXCEPT !.status = row[c].status]
  PROVE  \A d \in Case : Agrees(row'[d])
<1>1. row[c] \in CaseFields /\ Agrees(row[c])
  BY RowFacts DEF MoneyInv, LiveInv
<1>2. Agrees(r)
  BY <1>1 DEF Agrees, CaseFields, Active
<1> QED
  BY <1>2, OneRowAgrees

(* Fields beside the status and the money.                                 *)
LEMMA EditedAgrees ==
  ASSUME MoneyInv, NEW c \in Case, NEW r, row' = [row EXCEPT ![c] = r],
         r.paid = row[c].paid, r.optedOut = row[c].optedOut,
         r.status = row[c].status \/ (row[c].status \in Active /\ r.status \in Active)
  PROVE  \A d \in Case : Agrees(row'[d])
<1>1. Agrees(row[c])
  BY DEF MoneyInv
<1>2. Agrees(r)
  BY <1>1 DEF Agrees, Active
<1> QED
  BY <1>2, OneRowAgrees

LEMMA HandlersAgree ==
  ASSUME MoneyInv, NEW c \in Case, Handlers(c)
  PROVE  \A d \in Case : Agrees(row'[d])
<1>0. row[c] \in CaseFields /\ row \in [Case -> CaseFields]
  BY RowFacts DEF MoneyInv, LiveInv, TypeOK
<1>1. CASE PaymentFailed(c)
  BY <1>1, IngestedAgrees DEF PaymentFailed
<1>2. CASE PaymentLinkPaid(c) \/ ReplyPaid(c) \/ DemoVerify(c)
  BY <1>2, RecoveredAgrees, SameRowsAgree DEF PaymentLinkPaid, ReplyPaid, DemoVerify, MarkRecovered
<1>3. CASE ReplyStop(c) \/ OperatorOptOut(c)
  BY <1>3, ClosedAgrees DEF ReplyStop, OperatorOptOut, WriteOff
<1>4. CASE ReplyRefused(c) \/ BatchRunCloses(c)
  BY <1>4, AddressedActive, ClosedAgrees DEF ReplyRefused, BatchRunCloses, WriteOff
<1>5. ASSUME NEW due \in PromiseTimes, ReplyPromise(c, due)
      PROVE  \A d \in Case : Agrees(row'[d])
  <2> DEFINE new == [row[c] EXCEPT !.promiseDue = due]
  <2>1. row' = [row EXCEPT ![c] = new]
    BY <1>0, <1>5 DEF ReplyPromise
  <2>2. new.paid = row[c].paid /\ new.optedOut = row[c].optedOut /\ new.status = row[c].status
    BY <1>0 DEF CaseFields
  <2> QED
    BY <2>1, <2>2, EditedAgrees
<1>6. CASE Approve(c)
  <2> DEFINE new == [row[c] EXCEPT !.approved = TRUE]
  <2>1. row' = [row EXCEPT ![c] = new]
    BY <1>0, <1>6 DEF Approve
  <2>2. new.paid = row[c].paid /\ new.optedOut = row[c].optedOut /\ new.status = row[c].status
    BY <1>0 DEF CaseFields
  <2> QED
    BY <2>1, <2>2, EditedAgrees
<1> QED
  BY <1>1, <1>2, <1>3, <1>4, <1>5, <1>6 DEF Handlers

LEMMA NoticingAgrees ==
  ASSUME MoneyInv, NEW a \in ActionId, RecordNotice(a)
  PROVE  \A d \in Case : Agrees(row'[d])
<1> DEFINE c == act[a].case
           new == [row[c] EXCEPT !.notice = @ \/ Gate(a).reason = "rbi_notice"]
<1>1. c \in Case /\ row[c] \in CaseFields /\ row \in [Case -> CaseFields]
  BY ActFacts, RowFacts DEF MoneyInv, LiveInv, TypeOK
<1>2. row' = [row EXCEPT ![c] = new]
  BY <1>1 DEF RecordNotice
<1>3. new.paid = row[c].paid /\ new.optedOut = row[c].optedOut /\ new.status = row[c].status
  BY <1>1 DEF CaseFields
<1> QED
  BY <1>1, <1>2, <1>3, EditedAgrees

LEMMA TickAgrees ==
  ASSUME MoneyInv, NEW a \in ActionId, TickStep(a)
  PROVE  \A d \in Case : Agrees(row'[d])
<1> DEFINE c == act[a].case
<1>1. CASE SkipClosed(a) \/ CheckPromise(a) \/ GateBlocks(a) \/ LinkFails(a) \/ VoiceRaises(a)
  BY <1>1, SameRowsAgree DEF SkipClosed, CheckPromise, GateBlocks, LinkFails, VoiceRaises
<1>2. CASE GateDefers(a)
  BY <1>2, NoticingAgrees DEF GateDefers
<1>3. CASE Executes(a)
  <2> DEFINE new == Attempted(row[c], act[a].type)
  <2>1. c \in Case /\ row[c] \in CaseFields /\ row \in [Case -> CaseFields]
    BY ActFacts, RowFacts DEF MoneyInv, LiveInv, TypeOK
  <2>2. row' = [row EXCEPT ![c] = new] /\ row[c].status \in Active
    BY <1>3, <2>1 DEF Executes, AtGate, CaseOf
  <2>3. new.paid = row[c].paid /\ new.optedOut = row[c].optedOut /\ new.status \in Active
    BY <2>1 DEF Attempted, CaseFields, Active
  <2> QED
    BY <2>1, <2>2, <2>3, EditedAgrees
<1> QED
  BY <1>1, <1>2, <1>3 DEF TickStep

LEMMA CrashesAgree ==
  ASSUME MoneyInv, Crashes
  PROVE  \A d \in Case : Agrees(row'[d])
<1>1. ASSUME NEW c \in Case, CrashInPaymentFailed(c)
      PROVE  \A d \in Case : Agrees(row'[d])
  BY <1>1, IngestedAgrees DEF CrashInPaymentFailed
<1>2. ASSUME NEW c \in Case, CrashInClosing(c)
      PROVE  \A d \in Case : Agrees(row'[d])
  <2>0. row[c] \in CaseFields /\ row \in [Case -> CaseFields]
    BY RowFacts DEF MoneyInv, LiveInv, TypeOK
  <2>1. CASE row' = [row EXCEPT ![c] = Recovered(@)]
    BY <2>1, RecoveredAgrees
  <2>2. ASSUME NEW s \in {row[c].status, "written_off"},
               row' = [row EXCEPT ![c] = [@ EXCEPT !.optedOut = TRUE, !.status = s]]
        PROVE  \A d \in Case : Agrees(row'[d])
    <3>1. row' = [row EXCEPT ![c] = [[row[c] EXCEPT !.optedOut = TRUE] EXCEPT !.status = s]]
      BY <2>0, <2>2
    <3> QED
      BY <2>2, <3>1, ClosedAgrees
  <2>3. CASE row' = [row EXCEPT ![c] = [@ EXCEPT !.status = "written_off"]]
             /\ row[c].status \in Active
    <3>1. row' = [row EXCEPT ![c] = [row[c] EXCEPT !.status = "written_off"]]
      BY <2>0, <2>3
    <3> QED
      BY <2>3, <3>1, ClosedAgrees
  <2> QED
    BY <1>2, <2>1, <2>2, <2>3 DEF CrashInClosing
<1>3. ASSUME NEW c \in Case, NEW due \in PromiseTimes, CrashInPromise(c, due)
      PROVE  \A d \in Case : Agrees(row'[d])
  <2> DEFINE new == [row[c] EXCEPT !.promiseDue = due]
  <2>1. row[c] \in CaseFields /\ row \in [Case -> CaseFields]
    BY RowFacts DEF MoneyInv, LiveInv, TypeOK
  <2>2. row' = [row EXCEPT ![c] = new]
    BY <1>3, <2>1 DEF CrashInPromise
  <2>3. new.paid = row[c].paid /\ new.optedOut = row[c].optedOut /\ new.status = row[c].status
    BY <2>1 DEF CaseFields
  <2> QED
    BY <2>2, <2>3, EditedAgrees
<1>4. ASSUME NEW a \in ActionId, CrashInDefers(a)
      PROVE  \A d \in Case : Agrees(row'[d])
  BY <1>4, NoticingAgrees DEF CrashInDefers
<1>5. CASE Restart \/ \E a \in ActionId : CrashInExecutes(a)
  BY <1>5, SameRowsAgree DEF CrashInExecutes, Restart
<1> QED
  BY <1>1, <1>2, <1>3, <1>4, <1>5 DEF Crashes

(* Money booked on a case and its status agree, for every set of cases and *)
(* whatever crashes cut a closure in two: only an opt-out makes a paid     *)
(* case anything but recovered (agent.py:196-215, main.py:381-396).        *)
THEOREM LiveMoney == Spec => []MoneyAgrees
<1>1. Init => MoneyInv
  <2> SUFFICES ASSUME Init PROVE MoneyInv
    OBVIOUS
  <2>1. \A c \in Case : Agrees(row[c])
    BY DEF Init, Document, Agrees
  <2> QED
    BY <2>1, InitInv DEF MoneyInv
<1>2. MoneyInv /\ [Next]_vars => MoneyInv'
  <2> SUFFICES ASSUME MoneyInv, [Next]_vars PROVE MoneyInv'
    OBVIOUS
  <2>1. ASSUME TickStart \/ Advance \/ UNCHANGED vars
        PROVE  \A d \in Case : Agrees(row'[d])
    BY <2>1, SameRowsAgree DEF TickStart, Advance, vars
  <2>2. \A d \in Case : Agrees(row'[d])
    BY <2>1, HandlersAgree, TickAgrees, CrashesAgree DEF Next
  <2>3. LiveInv'
    BY StepInv DEF MoneyInv
  <2> QED
    BY <2>2, <2>3 DEF MoneyInv, Agrees
<1>3. MoneyInv => MoneyAgrees
  BY DEF MoneyInv, Agrees, MoneyAgrees
<1> QED
  BY <1>1, <1>2, <1>3, PTL DEF Spec

-----------------------------------------------------------------------------
(* A pending check is the one of the latest promise, until a restart.      *)
Matches ==
  \A a \in ActionId :
    act[a].status = "scheduled" /\ act[a].type = "check_promise" =>
      act[a].due = row[act[a].case].promiseDue + PromiseGrace

ChecksMatch == LiveInv /\ NoneForClosed /\ Matches

(* No check becomes pending, or stays so with another due time.            *)
NoNewCheck(a) ==
  \/ act'[a] = act[a]
  \/ act'[a].status # "scheduled"
  \/ act'[a].type # "check_promise"

(* The promise of an active case stands, and no check is scheduled.        *)
LEMMA MatchesKept ==
  ASSUME ChecksMatch, \A a \in ActionId : NoNewCheck(a),
         \A c \in Case : row[c].status \in Active => row'[c].promiseDue = row[c].promiseDue
  PROVE  Matches'
<1> SUFFICES ASSUME NEW a \in ActionId,
                    act'[a].status = "scheduled", act'[a].type = "check_promise"
             PROVE  act'[a].due = row'[act'[a].case].promiseDue + PromiseGrace
  BY DEF Matches
<1>1. act'[a] = act[a] /\ act[a].case \in Case
  BY DEF NoNewCheck, ChecksMatch, LiveInv, TypeOK, ActionRow
<1>2. row[act[a].case].status \in Active
  BY <1>1 DEF ChecksMatch, NoneForClosed, Pending
<1> QED
  BY <1>1, <1>2 DEF ChecksMatch, Matches

LEMMA OneRowMatches ==
  ASSUME ChecksMatch, \A a \in ActionId : NoNewCheck(a), NEW c \in Case, NEW r,
         row' = [row EXCEPT ![c] = r],
         row[c].status \in Active => r.promiseDue = row[c].promiseDue
  PROVE  Matches'
<1>1. \A d \in Case : row[d].status \in Active => row'[d].promiseDue = row[d].promiseDue
  BY DEF ChecksMatch, LiveInv, TypeOK
<1> QED
  BY <1>1, MatchesKept

LEMMA SameRowsMatch ==
  ASSUME ChecksMatch, \A a \in ActionId : NoNewCheck(a), row' = row
  PROVE  Matches'
  BY MatchesKept

LEMMA SupersedingNoCheck ==
  ASSUME LiveInv, NEW c \in Case, act' = Superseded(c), NEW a \in ActionId
  PROVE  NoNewCheck(a)
<1>1. act[a] \in ActionRow
  BY DEF LiveInv, TypeOK
<1>2. CASE act[a].case = c /\ act[a].status = "scheduled"
  BY <1>1, <1>2 DEF Superseded, ActionRow, NoNewCheck
<1>3. CASE ~(act[a].case = c /\ act[a].status = "scheduled")
  BY <1>3 DEF Superseded, NoNewCheck
<1> QED
  BY <1>2, <1>3

(* A status is stored for an action that is no check, or a closing one.    *)
LEMMA StatusNoCheck ==
  ASSUME LiveInv, NEW b \in ActionId, NEW s, SetStatus(b, s),
         act[b].type # "check_promise" \/ s # "scheduled", NEW a \in ActionId
  PROVE  NoNewCheck(a)
  BY DEF SetStatus, LiveInv, TypeOK, ActionRow, NoNewCheck

LEMMA PlanningNoCheck ==
  ASSUME LiveInv, NEW c \in Case, NEW r \in CaseFields, IsFiniteSet(r.attempts),
         PlanAndSchedule(c, r), NEW a \in ActionId
  PROVE  NoNewCheck(a)
<1>1. CASE act' = act
  BY <1>1 DEF NoNewCheck
<1>2. ASSUME NEW worth \in BOOLEAN, NEW s \in NextSteps(r, FALSE, worth, now),
             act' = [act EXCEPT ![FreshId] = Saved(c, s.type, now + s.delay + IstOffset)]
      PROVE  NoNewCheck(a)
  <2>1. s.type # "check_promise"
    BY <1>2, NextStepsType, RowFacts DEF IsStep, Planned, LiveInv
  <2> QED
    BY <1>2, <2>1 DEF Saved, LiveInv, TypeOK, NoNewCheck
<1> QED
  BY <1>1, <1>2 DEF PlanAndSchedule

LEMMA IngestedMatches ==
  ASSUME ChecksMatch, NEW c \in Case, PaymentFailed(c)
  PROVE  Matches'
<1>1. Ingested(c) \in CaseFields /\ IsFiniteSet(Ingested(c).attempts)
  BY IngestedRow DEF PaymentFailed, ChecksMatch
<1>2. \A a \in ActionId : NoNewCheck(a)
  BY <1>1, PlanningNoCheck DEF PaymentFailed, ChecksMatch
<1>3. row[c].status \in Active => Ingested(c).promiseDue = row[c].promiseDue
  BY DEF Ingested, Active
<1> QED
  BY <1>2, <1>3, OneRowMatches DEF PaymentFailed

LEMMA RecoveringMatches ==
  ASSUME ChecksMatch, NEW c \in Case, MarkRecovered(c)
  PROVE  Matches'
<1>0. row[c] \in CaseFields /\ row \in [Case -> CaseFields]
  BY RowFacts DEF ChecksMatch, LiveInv, TypeOK
<1>1. CASE UNCHANGED <<row, act>>
  BY <1>1, SameRowsMatch DEF NoNewCheck
<1>2. CASE row' = [row EXCEPT ![c] = Recovered(@)] /\ act' = Superseded(c)
  <2>1. row' = [row EXCEPT ![c] = Recovered(row[c])]
    BY <1>0, <1>2
  <2>2. Recovered(row[c]).promiseDue = row[c].promiseDue
    BY <1>0 DEF Recovered, CaseFields
  <2> QED
    BY <1>2, <2>1, <2>2, OneRowMatches, SupersedingNoCheck DEF ChecksMatch
<1> QED
  BY <1>1, <1>2 DEF MarkRecovered

LEMMA ClosingMatches ==
  ASSUME ChecksMatch, NEW c \in Case, NEW r, WriteOff(c, r), r \in CaseFields,
         r.promiseDue = row[c].promiseDue
  PROVE  Matches'
<1>1. row' = [row EXCEPT ![c] = [r EXCEPT !.status = "written_off"]] /\ act' = Superseded(c)
  BY DEF WriteOff
<1>2. [r EXCEPT !.status = "written_off"].promiseDue = row[c].promiseDue
  BY DEF CaseFields
<1> QED
  BY <1>1, <1>2, OneRowMatches, SupersedingNoCheck DEF ChecksMatch

(* A promise is stored with its own check, and the older one is superseded. *)
LEMMA PromisingMatches ==
  ASSUME ChecksMatch, NEW c \in Case, NEW due \in PromiseTimes, ReplyPromise(c, due)
  PROVE  Matches'
<1> SUFFICES ASSUME NEW a \in ActionId,
                    act'[a].status = "scheduled", act'[a].type = "check_promise"
             PROVE  act'[a].due = row'[act'[a].case].promiseDue + PromiseGrace
  BY DEF Matches
<1>0. /\ act[a] \in ActionRow /\ act[a].case \in Case
      /\ row[c] \in CaseFields /\ row \in [Case -> CaseFields]
  BY RowFacts DEF ChecksMatch, LiveInv, TypeOK, ActionRow
<1>1. /\ row' = [row EXCEPT ![c] = [row[c] EXCEPT !.promiseDue = due]]
      /\ act' = [Superseded(c) EXCEPT ![FreshId] = Saved(c, "check_promise", due + PromiseGrace)]
  BY <1>0 DEF ReplyPromise
<1>2. row'[c].promiseDue = due /\ \A d \in Case \ {c} : row'[d] = row[d]
  BY <1>0, <1>1 DEF CaseFields
<1>3. CASE a = FreshId
  <2>1. act'[a] = Saved(c, "check_promise", due + PromiseGrace)
    BY <1>1, <1>3 DEF Superseded
  <2> QED
    BY <1>2, <2>1 DEF Saved
<1>4. CASE a # FreshId
  <2>1. act'[a] = Superseded(c)[a]
    BY <1>1, <1>4 DEF Superseded
  <2>2. ~(act[a].case = c /\ act[a].status = "scheduled")
    BY <1>0, <2>1 DEF Superseded, ActionRow
  <2>3. act'[a] = act[a]
    BY <2>1, <2>2 DEF Superseded
  <2>4. act[a].case # c
    BY <2>2, <2>3
  <2> QED
    BY <1>0, <1>2, <2>3, <2>4 DEF ChecksMatch, Matches
<1> QED
  BY <1>3, <1>4

LEMMA HandlersMatch ==
  ASSUME ChecksMatch, NEW c \in Case, Handlers(c) PROVE Matches'
<1>0. row[c] \in CaseFields /\ row \in [Case -> CaseFields]
  BY RowFacts DEF ChecksMatch, LiveInv, TypeOK
<1>1. CASE PaymentFailed(c)
  BY <1>1, IngestedMatches
<1>2. CASE PaymentLinkPaid(c) \/ ReplyPaid(c) \/ DemoVerify(c)
  BY <1>2, RecoveringMatches DEF PaymentLinkPaid, ReplyPaid, DemoVerify
<1>3. CASE ReplyStop(c) \/ OperatorOptOut(c)
  <2> DEFINE out == [row[c] EXCEPT !.optedOut = TRUE]
  <2>1. out \in CaseFields /\ out.promiseDue = row[c].promiseDue
    BY <1>0 DEF CaseFields
  <2>2. WriteOff(c, out)
    BY <1>3 DEF ReplyStop, OperatorOptOut
  <2> HIDE DEF out
  <2> QED
    BY <2>1, <2>2, ClosingMatches
<1>4. CASE ReplyRefused(c) \/ BatchRunCloses(c)
  BY <1>0, <1>4, ClosingMatches DEF ReplyRefused, BatchRunCloses
<1>5. ASSUME NEW due \in PromiseTimes, ReplyPromise(c, due) PROVE Matches'
  BY <1>5, PromisingMatches
<1>6. CASE Approve(c)
  <2> DEFINE new == [row[c] EXCEPT !.approved = TRUE]
  <2>1. row' = [row EXCEPT ![c] = new] /\ new.promiseDue = row[c].promiseDue
    BY <1>0, <1>6 DEF Approve, CaseFields
  <2>2. \A a \in ActionId : NoNewCheck(a)
    BY <1>6 DEF Approve, NoNewCheck
  <2> QED
    BY <2>1, <2>2, OneRowMatches
<1> QED
  BY <1>1, <1>2, <1>3, <1>4, <1>5, <1>6 DEF Handlers

LEMMA TickMatches ==
  ASSUME ChecksMatch, NEW b \in ActionId, TickStep(b) PROVE Matches'
<1> DEFINE c == act[b].case
<1>0. c \in Case /\ row[c] \in CaseFields /\ row \in [Case -> CaseFields]
  BY ActFacts, RowFacts DEF ChecksMatch, LiveInv, TypeOK
<1>1. CASE SkipClosed(b)
  BY <1>0, <1>1, SupersedingNoCheck, SameRowsMatch DEF SkipClosed, ChecksMatch
<1>2. CASE CheckPromise(b) \/ GateBlocks(b) \/ LinkFails(b)
  <2>1. row' = row /\ \E s \in {"executed", "blocked"} : SetStatus(b, s)
    BY <1>2 DEF CheckPromise, GateBlocks, LinkFails
  <2>2. \A a \in ActionId : NoNewCheck(a)
    BY <2>1, StatusNoCheck DEF ChecksMatch
  <2> QED
    BY <2>1, <2>2, SameRowsMatch
<1>3. CASE GateDefers(b)
  <2> DEFINE r == [row[c] EXCEPT !.notice = @ \/ Gate(b).reason = "rbi_notice"]
  <2>1. row' = [row EXCEPT ![c] = r] /\ r.promiseDue = row[c].promiseDue
    BY <1>0, <1>3 DEF GateDefers, RecordNotice, CaseFields
  <2>2. act[b].type # "check_promise" /\ \E s : SetStatus(b, s)
    BY <1>3 DEF GateDefers, AtGate, Dunning
  <2>3. \A a \in ActionId : NoNewCheck(a)
    BY <2>2, StatusNoCheck DEF ChecksMatch
  <2> QED
    BY <1>0, <2>1, <2>3, OneRowMatches
<1>4. CASE VoiceRaises(b)
  BY <1>4, SameRowsMatch DEF VoiceRaises, NoNewCheck
<1>5. CASE Executes(b)
  <2> DEFINE r == Attempted(row[c], act[b].type)
  <2>1. row' = [row EXCEPT ![c] = r] /\ SetStatus(b, "executed")
    BY <1>0, <1>5 DEF Executes
  <2>2. r.promiseDue = row[c].promiseDue
    BY <1>0 DEF Attempted, CaseFields
  <2>3. \A a \in ActionId : NoNewCheck(a)
    BY <2>1, StatusNoCheck DEF ChecksMatch
  <2> QED
    BY <1>0, <2>1, <2>2, <2>3, OneRowMatches
<1> QED
  BY <1>1, <1>2, <1>3, <1>4, <1>5 DEF TickStep

(* Until a restart, a pending promise check is the one of the latest       *)
(* promise, for every set of cases and every order in which replies,       *)
(* redeliveries and tick steps fall (main.py:435-454).                     *)
THEOREM LiveChecks == Spec => []CheckMatchesPromise
<1>1. Init => CheckMatchesPromise
  BY DEF CheckMatchesPromise, Init, NoAction
<1>2. PendingInv /\ CheckMatchesPromise /\ [Next]_vars => CheckMatchesPromise'
  <2> SUFFICES ASSUME PendingInv, CheckMatchesPromise, [Next]_vars, epoch' = 0
               PROVE  CheckMatchesPromise'
    BY DEF CheckMatchesPromise
  <2>0. epoch \in Nat
    BY LiveAssumption DEF PendingInv, LiveInv, TypeOK
  <2>1. epoch = 0 /\ ~Crashes
    BY <2>0, OnlyCrashesRestart DEF PendingInv
  <2>2. ChecksMatch
    BY <2>1 DEF PendingInv, ScheduledIsActive, NoneForClosed, Pending, ChecksMatch,
                CheckMatchesPromise, Matches
  <2>3. ASSUME TickStart \/ Advance \/ UNCHANGED vars
        PROVE  Matches'
    BY <2>2, <2>3, SameRowsMatch DEF TickStart, Advance, vars, NoNewCheck
  <2>4. Matches'
    BY <2>1, <2>2, <2>3, HandlersMatch, TickMatches DEF Next
  <2> QED
    BY <2>4 DEF Matches, CheckMatchesPromise
<1> QED
  BY <1>1, <1>2, PendingInvHolds, PTL DEF Spec
=============================================================================
