------------------------------ MODULE Classifier ------------------------------
(***************************************************************************)
(* From the words of a failed payment to the first action on its case      *)
(* (app/classifier.py, classifier_vulcan.py, llm.py, agent.py              *)
(* ingest_failure, and the table of Selector).  A text is the set of rules *)
(* it has words of: the code searches for substrings, so a text may have   *)
(* words of several.  Confidences are in hundredths.                       *)
(***************************************************************************)
EXTENDS Selector

CONSTANTS
  Texts,         \* sets of rules' words a failure is described with
  Opinions       \* what a service may answer about it

Missing == "none"
Unreadable == 999       \* a confidence that is no number

Rule(words, class, confidence) ==
  [words |-> words, class |-> class, confidence |-> confidence]

(* _RULES, in order, each named by one of its phrases.                     *)
Rules ==
  <<Rule("insufficient_funds", "INSUFFICIENT_FUNDS", 95),
    Rule("expired_card", "CARD_EXPIRED", 95),
    Rule("mandate_paused", "MANDATE_ISSUE", 90),
    Rule("dropped_off", "CUSTOMER_ABANDONMENT", 90),
    Rule("receivable", "INVOICE_OVERDUE", 92),
    Rule("genuinely_overdue", "OVERDUE_GENUINE", 90),
    Rule("renewal_failed", "SUBSCRIPTION_FAILED", 88),
    Rule("otp", "SOFT_DECLINE_OTHER", 75),
    Rule("blocked_card", "HARD_DECLINE", 92),
    Rule("issuer_unavailable", "ISSUER_UNAVAILABLE", 85),
    Rule("gateway_error", "GATEWAY_TIMEOUT", 85),
    Rule("timed_out", "NETWORK_TIMEOUT", 80),
    Rule("amount_changed", "PRICE_SHOCK", 80),
    Rule("declined_by_bank", "SOFT_DECLINE_OTHER", 60),
    Rule("acquirer", "ISSUER_UNAVAILABLE", 70),
    Rule("late_authorization", "LATE_AUTH", 88)>>

(* The words and the class of simulated payments.                          *)
ClassMix ==
  {<<"insufficient_funds", "INSUFFICIENT_FUNDS">>, <<"timed_out", "NETWORK_TIMEOUT">>,
   <<"issuer_unavailable", "ISSUER_UNAVAILABLE">>, <<"declined_by_bank", "SOFT_DECLINE_OTHER">>,
   <<"blocked_card", "HARD_DECLINE">>, <<"mandate_paused", "MANDATE_ISSUE">>,
   <<"dropped_off", "CUSTOMER_ABANDONMENT">>, <<"receivable", "INVOICE_OVERDUE">>,
   <<"renewal_failed", "SUBSCRIPTION_FAILED">>}

(* Answers whose class is no string: a list or an object, which cannot be  *)
(* looked up, or an answer that is itself no object and has no class.      *)
Misshapen == {"unhashable", "no_object"}

(* Any other class, none at all, and an answer of null count as "other".   *)
Opinion == [class : FailureClass \cup Misshapen \cup {"other"}, confidence : Int]

(* A service that is not configured, fails or answers no JSON.             *)
NoAnswer == [class |-> Missing, confidence |-> 0]

ASSUME ClassifierAssumption ==
  /\ \A text \in Texts : text \subseteq {Rules[i].words : i \in DOMAIN Rules}
  /\ Opinions \subseteq Opinion

VARIABLES
  payment,     \* the words, the class that comes with it, whether it debits
               \* a mandate, and what Vulcan and the LLM would say of it
  ingested,    \* the class and confidence of the case, if there is one
  firstStep    \* what the selector proposes for it

classifierVars == <<payment, ingested, firstStep>>

Judged(class, confidence) == [class |-> class, confidence |-> confidence]
Raised == Judged("raised", 0)
NotIngested == Judged(Missing, 0)

(* Live payments come with no class; simulated ones with the true one.     *)
Live(text) == [text |-> text, given |-> "UNKNOWN"]
Simulated(mix) == [text |-> {mix[1]}, given |-> mix[2]]

ClassifierInit ==
  /\ \E base \in {Live(text) : text \in Texts} \cup {Simulated(m) : m \in ClassMix},
        debit \in BOOLEAN, vulcan, llm \in Opinions \cup {NoAnswer} :
       payment = [text |-> base.text, given |-> base.given, debit |-> debit,
                  vulcan |-> vulcan, llm |-> llm]
  /\ ingested = NotIngested /\ firstStep = Missing

-----------------------------------------------------------------------------
Clamped(x) == IF x < 0 THEN 0 ELSE IF x > 100 THEN 100 ELSE x

(* A usable answer of Vulcan's: any other is the same as none, for the     *)
(* whole reading of it is inside the try.                                  *)
VulcanAnswers(p) ==
  p.vulcan.class \in FailureClass /\ p.vulcan.confidence # Unreadable

RulesHit(text) == {i \in DOMAIN Rules : Rules[i].words \in text}

(* Mutant: the last rule with words of the text decides.                   *)
DecidingLast(text) == Rules[CHOOSE i \in RulesHit(text) : \A j \in RulesHit(text) : j <= i]

Deciding(text) == Rules[CHOOSE i \in RulesHit(text) : \A j \in RulesHit(text) : i <= j]

(* Only the request for the LLM's answer is inside a try, not the reading: *)
(* the lookup of the class raises on an answer of the wrong shape, float() *)
(* on the confidence of a known class that is no number.  A number is      *)
(* taken as it is.                                                         *)
LlmRaises(p) ==
  \/ p.llm.class \in Misshapen
  \/ p.llm.class \in FailureClass /\ p.llm.confidence = Unreadable

LlmVerdict(p) ==
  IF LlmRaises(p) THEN Raised
  ELSE IF p.llm.class \in FailureClass THEN Judged(p.llm.class, p.llm.confidence)
       ELSE Judged("UNKNOWN", 20)

Classify(p) ==
  IF VulcanAnswers(p) THEN Judged(p.vulcan.class, Clamped(p.vulcan.confidence))
  ELSE IF RulesHit(p.text) # {}
       THEN Judged(Deciding(p.text).class, Deciding(p.text).confidence)
       ELSE LlmVerdict(p)

(* Mutant: a verdict stands however weak.                                  *)
ClassKeptAlways(v, given) == v

(* A weak verdict gives way to the class that came with the payment, whose *)
(* own confidence nobody sets.                                             *)
ClassKept(v, given) ==
  IF v.confidence < 50 /\ given # "UNKNOWN"
  THEN Judged(given, IF v.confidence > 0 THEN v.confidence ELSE 0) ELSE v

IngestFailure ==
  /\ ingested = NotIngested
  /\ ingested' = LET v == Classify(payment)
                 IN  IF v = Raised THEN Raised ELSE ClassKept(v, payment.given)
  /\ UNCHANGED <<payment, firstStep>>

(* The amount makes it worth an action; the hour does not choose its type. *)
PlanFirst ==
  /\ ingested.class \in FailureClass /\ firstStep = Missing
  /\ firstStep' = ClassStep(ingested.class, payment.debit, 100000, 0, 0).type
  /\ UNCHANGED <<payment, ingested>>

ClassifierNext == IngestFailure \/ PlanFirst

ClassifierSpec == ClassifierInit /\ [][ClassifierNext]_classifierVars

-----------------------------------------------------------------------------
ClassifierTypeOK ==
  /\ ingested \in [class : FailureClass \cup {Missing, "raised"}, confidence : Int]
  /\ firstStep \in ActionType \cup {Missing}

(* Where the words alone decide, a payment said to fail on a blocked card  *)
(* is charged again without the customer exactly when it is also said to   *)
(* be a renewal that failed and nothing a rule before that has words of.   *)
(* A simulated payment gets the class it was generated with, unless Vulcan *)
(* is surer than not of another.  A failure leaves no case exactly when    *)
(* neither Vulcan nor its words class it and the LLM's answer is no        *)
(* object, names its class by a list or an object, or gives a known class  *)
(* a confidence that is no number                                          *)
(* (classifier.py:32-39, 66-78, agent.py:41-44, selector.py:226-232).      *)
ClassIsOfTheWords ==
  /\ firstStep # Missing /\ ~VulcanAnswers(payment) /\ "blocked_card" \in payment.text =>
       (firstStep = "retry_charge" <=>
          /\ "renewal_failed" \in payment.text
          /\ \A i \in 1 .. 6 : Rules[i].words \notin payment.text)
  /\ ingested # NotIngested /\ payment.given # "UNKNOWN" /\ ingested.class # payment.given =>
       VulcanAnswers(payment) /\ payment.vulcan.confidence >= 50
  /\ ingested # NotIngested =>
       (ingested = Raised <=>
          /\ ~VulcanAnswers(payment) /\ payment.text = {}
          /\ \/ payment.llm.class \in Misshapen
             \/ /\ payment.llm.class \in FailureClass
                /\ payment.llm.confidence = Unreadable)
=============================================================================
