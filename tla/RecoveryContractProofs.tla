----------------------- MODULE RecoveryContractProofs -----------------------
(***************************************************************************)
(* The contract's safety properties, for any set of cases and any policy   *)
(* numbers with a positive cooldown.                                       *)
(***************************************************************************)
EXTENDS RecoveryContract, FiniteSetTheorems, TLAPS

(* The facts one attempt needs about the attempts before it.               *)
FiniteAttempts == \A c \in Case : IsFiniteSet(attempts[c])

ContractInv == ContractAssumption /\ TypeOK /\ FiniteAttempts /\ Spaced /\ Capped

(* Initially nothing has happened to any case.                             *)
LEMMA ContractInit == ContractAssumption /\ Init => ContractInv
<1> SUFFICES ASSUME ContractAssumption, Init PROVE ContractInv
  OBVIOUS
<1>1. TypeOK
  BY DEF Init, TypeOK
<1>2. FiniteAttempts
  BY FS_EmptySet DEF Init, FiniteAttempts
<1>3. Spaced /\ Capped
  BY DEF Init, Spaced, Capped
<1> QED
  BY <1>1, <1>2, <1>3 DEF ContractInv

(* Adding an attempt that obeys the gate keeps spacing and cap.            *)
LEMMA AttemptKeepsInv ==
  ASSUME ContractInv, NEW c \in Case, NEW t \in Time, Attempt(c, t)
  PROVE  ContractInv'
<1>0. ContractAssumption /\ ContractAssumption'
  BY DEF ContractInv, ContractAssumption
<1> USE <1>0 DEF ContractAssumption
<1> DEFINE old == attempts[c]
<1>1. /\ TypeOK /\ FiniteAttempts /\ Spaced /\ Capped
      /\ old \in SUBSET Nat
      /\ attempts' = [attempts EXCEPT ![c] = old \cup {t}]
      /\ \A d \in Case : d # c => attempts'[d] = attempts[d]
      /\ attempts'[c] = old \cup {t}
      /\ UNCHANGED <<phase, opened, optedOut>>
  BY DEF ContractInv, Attempt, TypeOK
<1>2. TypeOK'
  BY <1>1 DEF TypeOK
<1>3. FiniteAttempts'
  <2> SUFFICES ASSUME NEW d \in Case PROVE IsFiniteSet(attempts'[d])
    BY DEF FiniteAttempts
  <2>1. IsFiniteSet(attempts[d])
    BY <1>1 DEF FiniteAttempts
  <2>2. CASE d = c
    BY <1>1, <2>1, <2>2, FS_AddElement
  <2>3. CASE d # c
    BY <1>1, <2>1, <2>3
  <2> QED
    BY <2>2, <2>3
<1>4. \A u \in old : t >= u + Cooldown
  BY DEF Attempt
<1>5. Spaced'
  <2> SUFFICES ASSUME NEW d \in Case, NEW u \in attempts'[d],
                      NEW v \in attempts'[d], u < v
               PROVE  v - u >= Cooldown
    BY DEF Spaced
  <2>1. CASE d # c
    BY <1>1, <2>1 DEF Spaced
  <2>2. CASE d = c /\ v = t
    BY <1>1, <1>4, <2>2
  <2>3. CASE d = c /\ v \in old /\ u = t
    BY <1>1, <1>4, <2>3
  <2>4. CASE d = c /\ v \in old /\ u \in old
    BY <1>1, <2>4 DEF Spaced
  <2> QED
    BY <1>1, <2>1, <2>2, <2>3, <2>4
<1>6. Capped'
  <2> SUFFICES ASSUME NEW d \in Case, NEW w \in attempts'[d]
               PROVE  Cardinality({u \in attempts'[d] :
                                     w - AttemptWindow <= u /\ u <= w})
                        <= MaxAttempts
    BY DEF Capped
  <2>1. CASE d # c
    BY <1>1, <2>1 DEF Capped
  <2>2. CASE d = c /\ w \in old
    <3>1. t > w
      BY <1>1, <1>4, <2>2
    <3>2. {u \in attempts'[d] : w - AttemptWindow <= u /\ u <= w}
            = {u \in old : w - AttemptWindow <= u /\ u <= w}
      BY <1>1, <2>2, <3>1
    <3> QED
      BY <1>1, <2>2, <3>2 DEF Capped
  <2>3. CASE d = c /\ w = t
    <3> DEFINE before == {u \in old : u >= t - AttemptWindow}
    <3>1. {u \in attempts'[d] : w - AttemptWindow <= u /\ u <= w}
            = before \cup {t}
      BY <1>1, <1>4, <2>3
    <3>2. IsFiniteSet(before)
      <4>1. IsFiniteSet(old) /\ before \subseteq old
        BY <1>1 DEF FiniteAttempts
      <4> QED
        BY <4>1, FS_Subset
    <3>3. Cardinality(before) < MaxAttempts
      BY DEF Attempt, Recent
    <3>4. t \notin before
      BY <1>1, <1>4
    <3>5. Cardinality(before \cup {t}) = Cardinality(before) + 1
      BY <3>2, <3>4, FS_AddElement
    <3>6. Cardinality(before) \in Nat
      BY <3>2, FS_CardinalityType
    <3>7. Cardinality(before \cup {t}) <= MaxAttempts
      <4> HIDE DEF before
      <4> QED
        BY <3>3, <3>5, <3>6
    <3> QED
      BY <3>1, <3>7, Zenon
  <2> QED
    BY <1>1, <2>1, <2>2, <2>3
<1> QED
  BY <1>2, <1>3, <1>5, <1>6 DEF ContractInv

(* Every step of the contract preserves the invariant.                     *)
LEMMA ContractStep == ContractInv /\ [Next]_vars => ContractInv'
<1> SUFFICES ASSUME ContractInv, [Next]_vars PROVE ContractInv'
  OBVIOUS
<1>1. ASSUME NEW c \in Case, NEW t \in Time, Attempt(c, t) PROVE ContractInv'
  BY <1>1, AttemptKeepsInv
<1>2. ASSUME NEW c \in Case,
             \/ \E t \in Time : Open(c, t)
             \/ Recover(c) \/ WriteOff(c) \/ OptOut(c)
      PROVE  ContractInv'
  <2>1. attempts' = attempts
    BY <1>2 DEF Open, Recover, WriteOff, OptOut
  <2>2. TypeOK'
    BY <1>2 DEF ContractInv, ContractAssumption, TypeOK, Open, Recover, WriteOff, OptOut
  <2>3. FiniteAttempts' /\ Spaced' /\ Capped'
    BY <2>1 DEF ContractInv, FiniteAttempts, Spaced, Capped
  <2> QED
    BY <2>2, <2>3 DEF ContractInv, ContractAssumption
<1>3. CASE UNCHANGED vars
  BY <1>3 DEF ContractInv, ContractAssumption, TypeOK, FiniteAttempts, Spaced, Capped, vars
<1> QED
  BY <1>1, <1>2, <1>3 DEF Next

(* No step touches the attempts of an opted-out case or clears its flag.   *)
LEMMA OptOutStep ==
  ASSUME TypeOK, [Next]_vars, NEW c \in Case, optedOut[c]
  PROVE  optedOut'[c] /\ attempts'[c] = attempts[c]
<1>1. ASSUME NEW d \in Case, NEW t \in Time, Attempt(d, t)
      PROVE  optedOut'[c] /\ attempts'[c] = attempts[c]
  <2>1. c # d
    BY <1>1 DEF Attempt
  <2> QED
    BY <1>1, <2>1 DEF Attempt, TypeOK
<1>2. ASSUME NEW d \in Case,
             \/ \E t \in Time : Open(d, t)
             \/ Recover(d) \/ WriteOff(d) \/ OptOut(d)
      PROVE  optedOut'[c] /\ attempts'[c] = attempts[c]
  BY <1>2 DEF Open, Recover, WriteOff, OptOut, TypeOK
<1>3. CASE UNCHANGED vars
  BY <1>3 DEF vars
<1> QED
  BY <1>1, <1>2, <1>3 DEF Next

(* The contract keeps attempts spaced and capped, and an opt-out final.    *)
THEOREM ContractSafety ==
  ContractAssumption /\ Spec => [](Spaced /\ Capped) /\ OptOutIsFinal
<1>1. ContractAssumption /\ Spec => []ContractInv
  BY ContractInit, ContractStep, PTL DEF Spec
<1>2. ContractInv => Spaced /\ Capped
  BY DEF ContractInv
<1>3. ContractInv /\ [Next]_vars =>
        [\A c \in Case : optedOut[c] => optedOut'[c] /\ attempts'[c] = attempts[c]]_vars
  BY OptOutStep DEF ContractInv
<1> QED
  BY <1>1, <1>2, <1>3, PTL DEF Spec, OptOutIsFinal
=============================================================================
