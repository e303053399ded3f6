------------------------------ MODULE GateProofs ------------------------------
(***************************************************************************)
(* Lemmas about the policy gate and the action selector, for any policy    *)
(* numbers and any document, that the theorems about the live service and  *)
(* about the replay both rest on.                                          *)
(***************************************************************************)
EXTENDS Selector, FiniteSetTheorems, WellFoundedInduction, TLAPS

(* What the selector may plan.                                             *)
Planned == ActionType \ {"check_promise"}

(* What the gate has checked when it lets an action run.                   *)
THEOREM GateExecutes ==
  ASSUME NEW r, NEW t, NEW contact, NEW money,
         Evaluate(r, t, contact, money).decision = "execute"
  PROVE  /\ r.status \notin Closed
         /\ ~r.optedOut
         /\ ~NeedsApproval(r, money)
         /\ ~NeedsNotice(r)
         /\ ~(AttemptsInWindow(r, t) >= MaxAttempts)
         /\ ~CoolingDown(r, t)
         /\ ~(t >= r.created + CaseExpiry)
  BY DEF Evaluate, Block, Defer, Execute

(* A nonempty set of naturals has a least element.                         *)
LEMMA LeastNatural ==
  ASSUME NEW S, S \subseteq Nat, S # {}
  PROVE  \E m \in S : \A n \in S : m <= n
<1> DEFINE less == OpToRel(<, Nat)
<1>1. IsWellFoundedOn(less, Nat)
  BY NatLessThanWellFounded
<1>2. PICK m \in S : \A n \in S : ~(<<n, m>> \in less)
  <2> HIDE DEF less
  <2> QED
    BY <1>1, WFMin
<1>3. \A n \in S : ~(n < m)
  BY <1>2 DEF OpToRel
<1> QED
  BY <1>3

(* A bounded set of naturals that is not empty has a greatest element.     *)
LEMMA GreatestNatural ==
  ASSUME NEW S, S \subseteq Nat, S # {}, NEW t \in Nat, \A u \in S : u <= t
  PROVE  \E m \in S : \A n \in S : n <= m
<1> DEFINE bounds == {b \in Nat : \A v \in S : v <= b}
<1>1. PICK b \in bounds : \A n \in bounds : b <= n
  <2>1. bounds \subseteq Nat /\ bounds # {}
    OBVIOUS
  <2> HIDE DEF bounds
  <2> QED
    BY <2>1, LeastNatural
<1>2. b \in S
  <2> SUFFICES ASSUME b \notin S PROVE FALSE
    OBVIOUS
  <2>1. \A v \in S : v <= b - 1
    BY <1>1
  <2>2. PICK v \in S : TRUE
    OBVIOUS
  <2>3. b - 1 \in Nat
    BY <1>1, <2>1, <2>2
  <2> QED
    BY <1>1, <2>1, <2>3
<1> QED
  BY <1>1, <1>2

(* So has a finite one.                                                    *)
LEMMA FiniteHasGreatest ==
  ASSUME NEW all, IsFiniteSet(all), all \subseteq Nat, all # {}
  PROVE  \E m \in all : \A n \in all : n <= m
<1> DEFINE HasMax(S) == \E m \in S : \A n \in S : n <= m
           Bad(n, S) == IsFiniteSet(S) /\ S # {} /\ Cardinality(S) = n /\ ~HasMax(S)
           bad == {n \in Nat : \E S \in SUBSET Nat : Bad(n, S)}
<1> SUFFICES ASSUME ~HasMax(all) PROVE FALSE
  OBVIOUS
<1>1. bad # {}
  BY FS_CardinalityType
<1>2. PICK n \in bad : \A k \in bad : n <= k
  <2>1. bad \subseteq Nat
    OBVIOUS
  <2> HIDE DEF bad
  <2> QED
    BY <1>1, <2>1, LeastNatural
<1>3. n \in Nat /\ \E S \in SUBSET Nat : Bad(n, S)
  OBVIOUS
<1>4. PICK S \in SUBSET Nat : Bad(n, S)
  BY <1>3
<1>5. PICK x \in S : TRUE
  BY <1>4
<1> DEFINE T == S \ {x}
<1>6. IsFiniteSet(T) /\ Cardinality(T) = n - 1 /\ Cardinality(T) \in Nat
  <2>1. IsFiniteSet(S) /\ Cardinality(S) = n
    BY <1>4
  <2>2. IsFiniteSet(T) /\ Cardinality(T) = n - 1
    BY <1>5, <2>1, FS_RemoveElement
  <2> HIDE DEF T
  <2> QED
    BY <2>2, FS_CardinalityType
<1>7. x \in Nat
  BY <1>5
<1>8. CASE T = {}
  <2>1. \A k \in S : k = x
    BY <1>8
  <2> QED
    BY <1>4, <1>5, <1>7, <2>1
<1>9. CASE T # {}
  <2>1. n - 1 \notin bad
    BY <1>2, <1>3, <1>6
  <2>2. HasMax(T)
    <3>1. T \in SUBSET Nat
      OBVIOUS
    <3>2. n - 1 \in Nat
      BY <1>6
    <3>3. ~Bad(n - 1, T)
      BY <2>1, <3>1, <3>2
    <3> QED
      BY <1>6, <1>9, <3>3
  <2>3. PICK m \in T : \A k \in T : k <= m
    BY <2>2
  <2>4. \A k \in S : k = x \/ k \in T
    OBVIOUS
  <2>5. m \in S /\ m \in Nat
    BY <2>3
  <2>6. HasMax(S)
    <3>1. CASE x <= m
      BY <2>3, <2>4, <2>5, <3>1
    <3>2. CASE ~(x <= m)
      <4>1. \A k \in T : k \in Nat /\ k <= x
        BY <1>7, <2>3, <2>5, <3>2
      <4> QED
        BY <1>5, <1>7, <2>4, <4>1
    <3> QED
      BY <3>1, <3>2
  <2> QED
    BY <1>4, <2>6
<1> QED
  BY <1>8, <1>9

(* The table gives an action of a known type and a delay that is natural.  *)
LEMMA SalaryDelayType == ASSUME NEW t \in Nat PROVE SalaryDelay(t) \in Nat
<1> DEFINE later == {s \in SalarySlots : s > t}
           next == CHOOSE s \in later : \A u \in later : s <= u
<1>1. CASE later = {}
  BY <1>1 DEF SalaryDelay, Hour
<1>2. CASE later # {}
  <2>1. \E s \in later : \A u \in later : s <= u
    BY <1>2, LeastNatural, SelectorAssumption
  <2>2. next \in later
    BY <2>1
  <2>3. next \in Nat /\ next > t
    BY <2>2, SelectorAssumption
  <2>4. SalaryDelay(t) = next - t \/ SalaryDelay(t) = 2 * Hour
    BY DEF SalaryDelay
  <2> QED
    BY <2>3, <2>4 DEF Hour
<1> QED
  BY <1>1, <1>2

LEMMA LadderType ==
  ASSUME NEW n \in Nat
  PROVE  ContactLadder(n) \in Planned
<1>1. ContactLadder(n) \in ContactTypes
  BY SelectorAssumption DEF ContactLadder
<1> QED
  BY <1>1 DEF Planned, ActionType, ContactTypes

IsStep(s) == s.type \in Planned /\ s.delay \in Nat

LEMMA FixedStepType ==
  ASSUME NEW class \in DOMAIN FixedStep PROVE IsStep(FixedStep[class])
  BY DEF FixedStep, IsStep, Step, Hour, Planned, ActionType, ContactTypes, MoneyTypes

LEMMA StagedStepType ==
  ASSUME NEW class \in DOMAIN StagedSteps, NEW n \in Nat
  PROVE  IsStep(Stage(StagedSteps[class], n))
<1>1. CASE class = "SUBSCRIPTION_FAILED"
  BY <1>1 DEF StagedSteps, Stage, IsStep, Step, Hour, Planned, ActionType, ContactTypes, MoneyTypes
<1>2. CASE class = "LATE_AUTH"
  BY <1>2 DEF StagedSteps, Stage, IsStep, Step, Hour, Planned, ActionType, ContactTypes, MoneyTypes
<1> QED
  BY <1>1, <1>2 DEF StagedSteps

LEMMA ClassStepType ==
  ASSUME NEW class \in FailureClass, NEW mandate, NEW amount \in Nat,
         NEW n \in Nat, NEW t \in Nat
  PROVE  IsStep(ClassStep(class, mandate, amount, n, t))
<1> DEFINE s == ClassStep(class, mandate, amount, n, t)
<1>0. /\ DOMAIN LadderDelay = {"HARD_DECLINE", "CARD_EXPIRED", "PRICE_SHOCK", "MANDATE_ISSUE"}
      /\ DOMAIN StagedSteps = {"SUBSCRIPTION_FAILED", "LATE_AUTH"}
      /\ \A f \in DOMAIN LadderDelay : LadderDelay[f] \in Nat
  BY DEF LadderDelay, StagedSteps, Hour
<1>1. CASE class = "NETWORK_TIMEOUT"
  BY <1>0, <1>1 DEF ClassStep, IsStep, Step, Planned, ActionType, MoneyTypes
<1>2. CASE class = "INSUFFICIENT_FUNDS"
  BY <1>0, <1>2, LadderType, SalaryDelayType DEF ClassStep, IsStep, Step
<1>3. CASE class \in DOMAIN LadderDelay
  <2>1. s = Step(ContactLadder(n), LadderDelay[class])
    BY <1>0, <1>3 DEF ClassStep
  <2> QED
    BY <1>0, <1>3, <2>1, LadderType DEF IsStep, Step
<1>4. CASE class = "CUSTOMER_ABANDONMENT"
  <2>1. Stage(AbandonmentDelays, n) \in Nat
    BY DEF Stage, AbandonmentDelays, Hour
  <2>2. s = Step(ContactLadder(n), Stage(AbandonmentDelays, n))
    BY <1>0, <1>4 DEF ClassStep
  <2> QED
    BY <2>1, <2>2, LadderType DEF IsStep, Step
<1>5. CASE class = "INVOICE_OVERDUE"
  <2>1. n < 3 => InvoiceDelays[n + 1] \in Nat
    BY DEF InvoiceDelays, Hour
  <2>2. s = IF n >= 3 THEN Step("escalate_human", 2 * Hour)
            ELSE Step(IF n = 2 /\ amount >= VoiceMinAmount
                      THEN "nudge_voice" ELSE ContactLadder(n),
                      InvoiceDelays[n + 1])
    BY <1>0, <1>5 DEF ClassStep
  <2> QED
    BY <2>1, <2>2, LadderType DEF IsStep, Step, Hour, Planned, ActionType, ContactTypes
<1>6. CASE class \in DOMAIN StagedSteps
  BY <1>0, <1>6, StagedStepType DEF ClassStep
<1>7. CASE class \in DOMAIN FixedStep
  <2>1. class \in {"ISSUER_UNAVAILABLE", "GATEWAY_TIMEOUT", "OVERDUE_GENUINE",
                    "SOFT_DECLINE_OTHER", "UNKNOWN"}
    BY <1>7 DEF FixedStep
  <2>2. s = FixedStep[class]
    BY <1>0, <2>1 DEF ClassStep
  <2> QED
    BY <1>7, <2>2, FixedStepType
<1> QED
  BY <1>1, <1>2, <1>3, <1>4, <1>5, <1>6, <1>7
  DEF FailureClass, LadderDelay, StagedSteps, FixedStep

(* A plan is for a known action at a natural instant.                      *)
LEMMA NextStepsType ==
  ASSUME NEW r \in CaseFields, IsFiniteSet(r.attempts), NEW mandate, NEW worth,
         NEW t \in Nat, NEW s \in NextSteps(r, mandate, worth, t)
  PROVE  IsStep(s)
<1>1. Cardinality(r.attempts) \in Nat
  BY FS_CardinalityType
<1>2. r.class \in FailureClass /\ r.amount \in Nat
  BY DEF CaseFields
<1>3. s = ClassStep(r.class, mandate, r.amount, Cardinality(r.attempts), t)
  BY DEF NextSteps
<1> QED
  BY <1>1, <1>2, <1>3, ClassStepType
=============================================================================
