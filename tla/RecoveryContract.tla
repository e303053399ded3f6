-------------------------- MODULE RecoveryContract --------------------------
(***************************************************************************)
(* What the agent promises about each recovery case, whoever drives it:    *)
(* attempts reach the customer only while the case is active and not opted *)
(* out, at least Cooldown apart, at most MaxAttempts in any window of      *)
(* length AttemptWindow, and before the case expires.  A case leaves       *)
(* "active" by money or by a write-off; money may still arrive after a     *)
(* write-off, and only an opt-out may close a recovered case.              *)
(*                                                                         *)
(* The live service (LiveAgent) and the replay (SimEngine) implement it.   *)
(***************************************************************************)
EXTENDS Integers, FiniteSets

CONSTANTS
  Case,
  Time,       \* the instants of the system's clock
  AttemptWindow, MaxAttempts, Cooldown, CaseExpiry

(* What the constants must be; each implementation's own assumptions give  *)
(* it, and the theorems about the contract have it as their hypothesis.    *)
ContractAssumption ==
  /\ Time \subseteq Nat
  /\ AttemptWindow \in Nat
  /\ MaxAttempts \in Nat \ {0}
  /\ Cooldown \in Nat \ {0}
  /\ CaseExpiry \in Nat

VARIABLES
  phase,      \* "absent", "active", "recovered" or "written_off"
  attempts,   \* instants of the attempts made for the case
  opened,     \* instant from which the case's expiry counts
  optedOut    \* the customer of the case said stop

vars == <<phase, attempts, opened, optedOut>>

TypeOK ==
  /\ phase \in [Case -> {"absent", "active", "recovered", "written_off"}]
  /\ attempts \in [Case -> SUBSET Nat]
  /\ opened \in [Case -> Nat]
  /\ optedOut \in [Case -> BOOLEAN]

(* A customer may have said stop before the first case.                    *)
Init ==
  /\ phase = [c \in Case |-> "absent"]
  /\ attempts = [c \in Case |-> {}]
  /\ opened \in [Case -> Nat]
  /\ optedOut \in [Case -> BOOLEAN]

Open(c, t) ==
  /\ phase[c] = "absent"
  /\ phase' = [phase EXCEPT ![c] = "active"]
  /\ opened' = [opened EXCEPT ![c] = t]
  /\ UNCHANGED <<attempts, optedOut>>

Recent(c, t) == {u \in attempts[c] : u >= t - AttemptWindow}

Attempt(c, t) ==
  /\ phase[c] = "active"
  /\ ~optedOut[c]
  /\ \A u \in attempts[c] : t >= u + Cooldown
  /\ Cardinality(Recent(c, t)) < MaxAttempts
  /\ t < opened[c] + CaseExpiry
  /\ attempts' = [attempts EXCEPT ![c] = @ \cup {t}]
  /\ UNCHANGED <<phase, opened, optedOut>>

Recover(c) ==
  /\ phase[c] \in {"active", "written_off"}
  /\ phase' = [phase EXCEPT ![c] = "recovered"]
  /\ UNCHANGED <<attempts, opened, optedOut>>

WriteOff(c) ==
  /\ phase[c] = "active"
  /\ phase' = [phase EXCEPT ![c] = "written_off"]
  /\ UNCHANGED <<attempts, opened, optedOut>>

(* The flag alone silences the agent: a crash may leave the case active.   *)
OptOut(c) ==
  /\ phase[c] # "absent"
  /\ phase' \in {phase, [phase EXCEPT ![c] = "written_off"]}
  /\ optedOut' = [optedOut EXCEPT ![c] = TRUE]
  /\ UNCHANGED <<attempts, opened>>

Next ==
  \E c \in Case :
    \/ \E t \in Time : Open(c, t) \/ Attempt(c, t)
    \/ Recover(c)
    \/ WriteOff(c)
    \/ OptOut(c)

Spec == Init /\ [][Next]_vars

-----------------------------------------------------------------------------
(* Two attempts of one case are never closer than the cooldown.            *)
Spaced ==
  \A c \in Case : \A u, v \in attempts[c] : u < v => v - u >= Cooldown

(* No window of length AttemptWindow ending at an attempt holds more than  *)
(* MaxAttempts attempts of the case; hence no window at all does.          *)
Capped ==
  \A c \in Case : \A t \in attempts[c] :
    Cardinality({u \in attempts[c] : t - AttemptWindow <= u /\ u <= t})
      <= MaxAttempts

(* An opt-out is final: the flag is never cleared and no attempt follows.  *)
OptOutIsFinal ==
  [][\A c \in Case : optedOut[c] => optedOut'[c] /\ attempts'[c] = attempts[c]]_vars
=============================================================================
