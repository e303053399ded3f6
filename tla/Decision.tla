------------------------------- MODULE Decision -------------------------------
(***************************************************************************)
(* What the service says of a case beside what the agent does with it: the *)
(* decision inspector and the uplift of each action (app/main.py           *)
(* case_decision, case_uplift), the revalidation endpoint (app/policy.py), *)
(* against the gate the executor asks and the step the selector takes.     *)
(* The recovery model is untrained in the service and predicts by rule     *)
(* (app/recovery_model.py).  Probabilities are in ten-thousandths, rounded *)
(* half up; the code rounds the binary fraction nearest to a tie.          *)
(***************************************************************************)
EXTENDS Selector

CONSTANTS
  Dossiers,     \* case documents asked about
  Moments       \* instants at which they are

ASSUME DecisionAssumption == Dossiers \subseteq CaseFields /\ Moments \subseteq Nat

VARIABLES
  doc, debit, moment,    \* the case, whether it debits a mandate, and now
  inspection,            \* the inspector's reply, if asked
  weighing,              \* the actions whose uplift is worth them, if asked
  recheck                \* revalidate's reason, if asked

decisionVars == <<doc, debit, moment, inspection, weighing, recheck>>

Unasked == "unasked"
Candidates == ActionType \ {"check_promise"}

DecisionInit ==
  /\ doc \in Dossiers /\ debit \in BOOLEAN /\ moment \in Moments
  /\ doc.status # "absent" /\ doc.created <= moment
  /\ \A u \in doc.attempts : u <= moment
  /\ inspection = [asked |-> FALSE, selected |-> {}, verdict |-> << >>]
  /\ weighing = [asked |-> FALSE, worthwhile |-> {}]
  /\ recheck = Unasked

-----------------------------------------------------------------------------
(* Paise                                                                   *)
ActionCost ==
  [retry_payment_link |-> 500, retry_charge |-> 200, nudge_whatsapp |-> 800,
   nudge_sms |-> 300, nudge_email |-> 100, nudge_voice |-> 2000,
   escalate_human |-> 5000]

(* Hundredths; a class the model has no rule for is worth 35.              *)
BaseChance(class) ==
  CASE class = "LATE_AUTH" -> 72          [] class = "NETWORK_TIMEOUT" -> 70
    [] class = "INSUFFICIENT_FUNDS" -> 65 [] class = "ISSUER_UNAVAILABLE" -> 60
    [] class = "INVOICE_OVERDUE" -> 55    [] class = "SUBSCRIPTION_FAILED" -> 50
    [] class = "SOFT_DECLINE_OTHER" -> 50 [] class = "CUSTOMER_ABANDONMENT" -> 45
    [] class = "MANDATE_ISSUE" -> 40      [] class = "HARD_DECLINE" -> 25
    [] OTHER -> 35

Channel(type) ==
  CASE type \in {"nudge_voice", "nudge_whatsapp"} -> 110
    [] type = "nudge_sms" -> 105
    [] type = "retry_charge" -> 95
    [] OTHER -> 100

Fatigue(n) == IF n < 4 THEN 100 - 8 * n ELSE 70

Chance(class, type, n) ==
  LET p == (BaseChance(class) * Channel(type) * Fatigue(n) + 50) \div 100
  IN  IF p < 9500 THEN p ELSE 9500

(* What a chance of an amount is expected to bring, in paise rounded up:    *)
(* it exceeds a whole number of paise exactly when the expectation does.   *)
Expected(p, amount) ==
  p * (amount \div 10000) + (p * (amount % 10000) + 9999) \div 10000

(* Mutant: the last candidate's value is kept, not the best.               *)
SomeWorthLast(r) ==
  LET type == "escalate_human"
  IN  Expected(Chance(r.class, type, Cardinality(r.attempts)), r.amount) > ActionCost[type]

(* The selector's first test: an action of positive net expected value.    *)
SomeWorth(r) ==
  \E type \in Candidates :
    Expected(Chance(r.class, type, Cardinality(r.attempts)), r.amount) > ActionCost[type]

StepNow == NextSteps(doc, debit, SomeWorth(doc), moment)

(* Mutant: the flag is left at its default.                                *)
InspectedContactDefault(type) == TRUE

(* The inspector's idea of a contact is everything but a charge; the       *)
(* executor's is a nudge.                                                  *)
InspectedContact(type) == type # "retry_charge"

Inspect ==
  /\ ~inspection.asked
  /\ inspection' =
       [asked |-> TRUE, selected |-> {s.type : s \in StepNow},
        verdict |-> [type \in Candidates |->
                       Evaluate(doc, moment, InspectedContact(type), IsMoney(type))]]
  /\ UNCHANGED <<doc, debit, moment, weighing, recheck>>

(* The chance that the customer pays unasked, in hundredths.               *)
Unaided(class) ==
  CASE class = "NETWORK_TIMEOUT" -> 55      [] class = "GATEWAY_TIMEOUT" -> 50
    [] class = "LATE_AUTH" -> 45            [] class = "ISSUER_UNAVAILABLE" -> 40
    [] class = "INSUFFICIENT_FUNDS" -> 35   [] class = "SOFT_DECLINE_OTHER" -> 30
    [] class = "SUBSCRIPTION_FAILED" -> 30  [] class = "INVOICE_OVERDUE" -> 25
    [] class = "OVERDUE_GENUINE" -> 18      [] class = "MANDATE_ISSUE" -> 15
    [] class = "PRICE_SHOCK" -> 12          [] class = "CARD_EXPIRED" -> 8
    [] class = "HARD_DECLINE" -> 5          [] OTHER -> 20

(* Mutant: it does not wane.                                               *)
WaningNever(n) == 100

Waning(n) == IF n < 5 THEN 100 - 15 * n ELSE 30

(* The incremental value is more than half a paisa: it rounds to one.      *)
Worthwhile(r, type) ==
  LET n == Cardinality(r.attempts)
      uplift == Chance(r.class, type, n) - Unaided(r.class) * Waning(n)
  IN  Expected(2 * uplift, r.amount) > 2 * ActionCost[type] + 1

Weigh ==
  /\ ~weighing.asked
  /\ weighing' = [asked |-> TRUE, worthwhile |-> {c \in Candidates : Worthwhile(doc, c)}]
  /\ UNCHANGED <<doc, debit, moment, inspection, recheck>>

(* No case waits for approval by its own flag: nothing sets it.            *)
Revalidate ==
  /\ recheck = Unasked
  /\ recheck' = CASE doc.status = "recovered" -> "already_recovered"
                  [] doc.status = "written_off" -> "written_off"
                  [] doc.status \in Active /\ doc.optedOut -> "customer_opted_out"
                  [] doc.status \in Active /\ ~doc.optedOut -> "state_valid"
  /\ UNCHANGED <<doc, debit, moment, inspection, weighing>>

DecisionNext == Inspect \/ Weigh \/ Revalidate

DecisionSpec == DecisionInit /\ [][DecisionNext]_decisionVars

-----------------------------------------------------------------------------
DecisionTypeOK ==
  /\ doc \in CaseFields /\ debit \in BOOLEAN /\ moment \in Nat
  /\ inspection.selected \subseteq Candidates /\ weighing.worthwhile \subseteq Candidates

(* The gate as the executor asks it for the action.                        *)
GateOf(type) == Evaluate(doc, moment, IsContact(type), IsMoney(type))

(* The inspector shows the verdict the executor would get, but for a       *)
(* payment link and an escalation in the quiet hours: those it shows as    *)
(* deferred to the morning, and they run.  Revalidation, which the         *)
(* executor never asks, refuses nothing that its gate lets through         *)
(* (main.py:1019-1026, executor.py:60-75, policy.py:219-246).              *)
InspectorShowsTheGate ==
  /\ inspection.asked => \A type \in Candidates :
       \/ inspection.verdict[type] = GateOf(type)
       \/ /\ type \in {"retry_payment_link", "escalate_human"}
          /\ GateOf(type).decision = "execute"
          /\ inspection.verdict[type].reason = "quiet_hours_ist"
  /\ recheck \notin {Unasked, "state_valid"} =>
       \A type \in Candidates : GateOf(type).decision = "block"

(* The selector's step is worth its uplift, except where it charges again  *)
(* after a gateway's timeout up to the fourth attempt, which is likelier   *)
(* to be paid if left alone, and where a small amount is called about or   *)
(* passed on to a human (uplift.py:3-5, 60-74, selector.py:104-129).       *)
ChasedWithoutUpliftOnly ==
  inspection.asked /\ weighing.asked =>
    \A type \in inspection.selected \ weighing.worthwhile :
      \/ doc.class = "GATEWAY_TIMEOUT" /\ Cardinality(doc.attempts) < 4
      \/ doc.amount < 18000 /\ type \in {"nudge_voice", "escalate_human", "retry_charge"}

(* The test of net expected values refuses no case the economic stop does  *)
(* not: NO_ACTION is the economic stop (selector.py:104-129).              *)
NoActionIsEconomicStop ==
  inspection.asked => (inspection.selected = {} <=> EconomicStop(doc.amount))
=============================================================================
