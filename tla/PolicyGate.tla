----------------------------- MODULE PolicyGate -----------------------------
(***************************************************************************)
(* The policy gate of app/policy.py: pure operators over a stored case, a  *)
(* proposed instant and the policy section of config.yaml.  Every          *)
(* customer-facing or money-moving action passes through Evaluate.         *)
(*                                                                         *)
(* Time is a natural number of minutes since a midnight UTC; seconds are   *)
(* dropped.  A case is the part of app/models.py:RecoveryCase the gate and *)
(* the handlers read: attempt_times is a set, which loses nothing while    *)
(* the cooldown is positive because two attempts then differ in time.      *)
(***************************************************************************)
EXTENDS Integers, FiniteSets

CONSTANTS
  AttemptWindow,   \* attempt_window_hours, in minutes
  MaxAttempts,     \* max_attempts_per_case
  Cooldown,        \* cooldown_minutes
  CaseExpiry,      \* case_expiry_hours, in minutes
  FinalFollowup,   \* final_followup_hours, in minutes
  AutoActionCap,   \* auto_action_cap_paise
  QuietStart,      \* quiet_hours_ist[0], an hour of the IST day
  QuietEnd         \* quiet_hours_ist[1]

ASSUME PolicyAssumption ==
  /\ AttemptWindow \in Nat
  /\ MaxAttempts \in Nat \ {0}
  /\ Cooldown \in Nat \ {0}
  /\ CaseExpiry \in Nat
  /\ FinalFollowup \in Nat
  /\ AutoActionCap \in Nat
  /\ QuietStart \in 0 .. 24
  /\ QuietEnd \in 0 .. 24

Hour == 60
Day == 24 * Hour
IstOffset == 330             \* Asia/Kolkata is UTC+05:30 all year
RbiThreshold == 500000       \* paise, from Rs 5000

(* Mutant: the notice is timed a day ahead of the proposal.                *)
NoticeDelayBefore == -24 * Hour

NoticeDelay == 24 * Hour
NoTime == -1                 \* Python's None for an instant

FailureClass ==
  {"INSUFFICIENT_FUNDS", "NETWORK_TIMEOUT", "ISSUER_UNAVAILABLE",
   "SOFT_DECLINE_OTHER", "HARD_DECLINE", "MANDATE_ISSUE",
   "CUSTOMER_ABANDONMENT", "INVOICE_OVERDUE", "SUBSCRIPTION_FAILED",
   "UNKNOWN", "CARD_EXPIRED", "GATEWAY_TIMEOUT", "PRICE_SHOCK",
   "OVERDUE_GENUINE", "LATE_AUTH"}

Active == {"open", "scheduled"}
Closed == {"recovered", "written_off"}

ContactTypes == {"nudge_whatsapp", "nudge_sms", "nudge_email", "nudge_voice"}
MoneyTypes == {"retry_payment_link", "retry_charge"}
ActionType == ContactTypes \cup MoneyTypes \cup {"escalate_human", "check_promise"}

IsContact(type) == type \in ContactTypes
IsMoney(type) == type \in MoneyTypes
CountsAsAttempt(type) == IsContact(type) \/ IsMoney(type)

(* A case that has been ingested holds at least these fields.              *)
CaseFields ==
  [status : Active \cup Closed \cup {"absent"},
   class : FailureClass, amount : Nat, created : Nat,
   attempts : SUBSET Nat, approved : BOOLEAN, optedOut : BOOLEAN,
   notice : BOOLEAN, paid : BOOLEAN, promiseDue : Nat \cup {NoTime}]

-----------------------------------------------------------------------------
(* Quiet hours                                                             *)

MinuteOfDay(t) == (t + IstOffset) % Day

InQuietHours(t) ==
  LET m == MinuteOfDay(t)
      s == QuietStart * Hour
      e == QuietEnd * Hour
  IN  IF s <= e THEN s <= m /\ m < e ELSE m >= s \/ m < e

(* The instant at or after t that is outside the quiet window.             *)
NextQuietHoursOpen(t) ==
  LET m == MinuteOfDay(t)
      openToday == t - m + QuietEnd * Hour
  IN  IF ~InQuietHours(t) THEN t
      ELSE IF t < openToday THEN openToday ELSE openToday + Day

-----------------------------------------------------------------------------
(* The gate                                                                *)

(* Mutant: the window's hours are taken for minutes.                       *)
AttemptsInWindowShort(r, t) ==
  Cardinality({u \in r.attempts : u >= t - AttemptWindow \div Hour})

AttemptsInWindow(r, t) == Cardinality({u \in r.attempts : u >= t - AttemptWindow})

(* Mutant: the cooldown is counted from the first attempt.                 *)
FirstAttempt(r) == CHOOSE u \in r.attempts : \A v \in r.attempts : v >= u

LastAttempt(r) == CHOOSE u \in r.attempts : \A v \in r.attempts : v <= u

Execute == [decision |-> "execute", reason |-> "policy_clear", at |-> NoTime]
Block(why) == [decision |-> "block", reason |-> why, at |-> NoTime]
Defer(why, until) == [decision |-> "defer", reason |-> why, at |-> until]

(* Mutant: an amount in rupees is compared with a cap in paise.            *)
NeedsApprovalRupees(r, money) ==
  money /\ r.amount \div 100 > AutoActionCap /\ ~r.approved

NeedsApproval(r, money) == money /\ r.amount > AutoActionCap /\ ~r.approved

(* Mutant: the same slip with the notice's threshold.                      *)
NeedsNoticeRupees(r) ==
  /\ r.class = "MANDATE_ISSUE"
  /\ r.amount \div 100 >= RbiThreshold
  /\ r.attempts = {}
  /\ ~r.notice

NeedsNotice(r) ==
  /\ r.class = "MANDATE_ISSUE"
  /\ r.amount >= RbiThreshold
  /\ r.attempts = {}
  /\ ~r.notice

(* Mutant: the cooldown's minutes are taken for seconds.                   *)
CoolingDownShort(r, t) == \E u \in r.attempts : t < u + Cooldown \div 60

CoolingDown(r, t) == \E u \in r.attempts : t < u + Cooldown

(* The checks in the order of the code's early returns.                    *)
Evaluate(r, t, contact, money) ==
  IF r.status \in Closed THEN Block("case_closed")
  ELSE IF r.optedOut THEN Block("customer_opted_out")
  ELSE IF NeedsApproval(r, money) THEN Defer("above_cap", NoTime)
  ELSE IF NeedsNotice(r) THEN Defer("rbi_notice", t + NoticeDelay)
  ELSE IF AttemptsInWindow(r, t) >= MaxAttempts THEN Block("attempt_cap_reached")
  ELSE IF CoolingDown(r, t) THEN Defer("cooldown", LastAttempt(r) + Cooldown)
  ELSE IF t >= r.created + CaseExpiry THEN Block("past_case_expiry")
  ELSE IF contact /\ NextQuietHoursOpen(t) # t
       THEN Defer("quiet_hours_ist", NextQuietHoursOpen(t))
  ELSE Execute

(* The sweep's test: a case past the final follow-up window is given up    *)
(* when it is a control case or when no non-contact action could run.      *)
ShouldWriteOff(r, control, t) ==
  /\ t - r.created >= FinalFollowup
  /\ control \/ Evaluate(r, t, FALSE, FALSE).decision = "block"
=============================================================================
