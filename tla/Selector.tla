------------------------------ MODULE Selector ------------------------------
(***************************************************************************)
(* app/selector.py: the next single action for a case, from its failure    *)
(* class and the number of attempts made so far, with its delay.  The      *)
(* prediction model behind the NO_ACTION test is external to the decision  *)
(* table and stands as the parameter worth: whether the best net expected  *)
(* value over the candidate actions is positive.                           *)
(***************************************************************************)
EXTENDS PolicyGate, Sequences

CONSTANTS
  Ladder,          \* the enabled channels of the WhatsApp, SMS, email ladder
  SalarySlots,     \* instants of 10:00 IST on the salary-cycle days
  VoiceMinAmount   \* voice_min_amount_paise

ASSUME SelectorAssumption ==
  /\ Ladder \in Seq(ContactTypes) /\ Len(Ladder) > 0
  /\ SalarySlots \subseteq Nat
  /\ VoiceMinAmount \in Nat

(* economic_stop with its defaults: 0.3 * amount < 3 * 500 paise.          *)
EconomicStop(amount) == 3 * amount < 15000

ContactLadder(n) == Ladder[IF n < Len(Ladder) THEN n + 1 ELSE Len(Ladder)]

Step(type, delay) == [type |-> type, delay |-> delay]

(* Delays of the classes whose action is the contact ladder or one fixed   *)
(* action whatever the number of attempts.                                 *)
LadderDelay ==
  [HARD_DECLINE |-> Hour, CARD_EXPIRED |-> 2 * Hour, PRICE_SHOCK |-> 4 * Hour,
   MANDATE_ISSUE |-> Hour]

FixedStep ==
  [ISSUER_UNAVAILABLE |-> Step("retry_charge", 45),
   GATEWAY_TIMEOUT |-> Step("retry_charge", 15),
   OVERDUE_GENUINE |-> Step("nudge_voice", 2 * Hour),
   SOFT_DECLINE_OTHER |-> Step("nudge_email", 4 * Hour),
   UNKNOWN |-> Step("nudge_email", 4 * Hour)]

(* By number of attempts so far; the last stage repeats.                   *)
Stage(stages, n) == stages[IF n < Len(stages) THEN n + 1 ELSE Len(stages)]

StagedSteps ==
  [SUBSCRIPTION_FAILED |->
     <<Step("retry_charge", 6 * Hour), Step("nudge_whatsapp", 24 * Hour),
       Step("nudge_email", 48 * Hour)>>,
   LATE_AUTH |->
     <<Step("retry_charge", 30), Step("nudge_whatsapp", 2 * Hour),
       Step("escalate_human", 6 * Hour)>>]

AbandonmentDelays == <<Hour, 24 * Hour, 72 * Hour>>
InvoiceDelays == <<2 * Hour, 24 * Hour, 72 * Hour>>

(* Minutes to the next salary slot if it is at most three days away, else  *)
(* two hours; with no slot left in the modelled calendar, two hours too.   *)
SalaryDelay(t) ==
  LET later == {s \in SalarySlots : s > t}
      next == CHOOSE s \in later : \A u \in later : s <= u
  IN  IF later # {} /\ next - t <= 3 * Day THEN next - t ELSE 2 * Hour

(* The table.  debitMandate: method is emandate or nach and the payment    *)
(* belongs to a subscription.                                              *)
ClassStep(class, debitMandate, amount, n, t) ==
  CASE class = "NETWORK_TIMEOUT" ->
         Step(IF debitMandate THEN "retry_charge" ELSE "retry_payment_link", 20)
    [] class = "INSUFFICIENT_FUNDS" -> Step(ContactLadder(n), SalaryDelay(t))
    [] class \in DOMAIN LadderDelay -> Step(ContactLadder(n), LadderDelay[class])
    [] class = "CUSTOMER_ABANDONMENT" ->
         Step(ContactLadder(n), Stage(AbandonmentDelays, n))
    [] class = "INVOICE_OVERDUE" ->
         IF n >= 3 THEN Step("escalate_human", 2 * Hour)
         ELSE Step(IF n = 2 /\ amount >= VoiceMinAmount
                   THEN "nudge_voice" ELSE ContactLadder(n),
                   InvoiceDelays[n + 1])
    [] class \in DOMAIN StagedSteps -> Stage(StagedSteps[class], n)
    [] OTHER -> FixedStep[class]

(* select_next_action: the set holds the step, or nothing for NO_ACTION.   *)
NextSteps(r, debitMandate, worth, t) ==
  IF ~worth \/ EconomicStop(r.amount) THEN {}
  ELSE {ClassStep(r.class, debitMandate, r.amount, Cardinality(r.attempts), t)}
=============================================================================
