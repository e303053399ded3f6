-------------------------------- MODULE Cusum --------------------------------
(***************************************************************************)
(* The change-point detector over observed success rates (app/cusum.py),   *)
(* in hundredths: two sums, cut at zero after each observation.            *)
(***************************************************************************)
EXTENDS Integers, Sequences, Sums

CONSTANTS
  Baseline, Drift, Threshold,    \* 78, 2 and 500 in the code
  Rates,                         \* rates observed
  MaxObservations                \* bound

ASSUME CusumAssumption ==
  /\ Baseline \in 0 .. 100 /\ Drift \in Nat /\ Threshold \in Nat
  /\ Rates \subseteq 0 .. 100 /\ MaxObservations \in Nat

VARIABLES
  pos, neg, alarm,
  observed       \* history: the rates observed

cusumVars == <<pos, neg, alarm, observed>>

CusumInit ==
  pos = 0 /\ neg = 0 /\ alarm = "none" /\ observed = <<>>

(* Mutant: the sums are not cut.                                           *)
CutNever(x) == x

Cut(x) == IF x > 0 THEN x ELSE 0

Level(p, n) ==
  IF p > Threshold \/ n > Threshold THEN "CRITICAL"
  ELSE IF 10 * p > 6 * Threshold \/ 10 * n > 6 * Threshold THEN "MODERATE"
  ELSE "none"

Update(rate) ==
  /\ Len(observed) < MaxObservations
  /\ pos' = Cut(pos + rate - Baseline - Drift)
  /\ neg' = Cut(neg - (rate - Baseline) - Drift)
  /\ alarm' = Level(pos', neg')
  /\ observed' = Append(observed, rate)

CusumNext == \E rate \in Rates : Update(rate)

CusumSpec == CusumInit /\ [][CusumNext]_cusumVars

-----------------------------------------------------------------------------
CusumTypeOK ==
  /\ pos \in Nat /\ neg \in Nat
  /\ alarm \in {"none", "MODERATE", "CRITICAL"}

(* What the last n rates of s deviate from the baseline, less the drift    *)
(* allowed, in the direction told, for each n.                             *)
Excess(s, direction) ==
  SumsOf([n \in 1 .. Len(s) |-> direction * (s[Len(s) + 1 - n] - Baseline) - Drift])

IsLargestExcess(x, s, direction) ==
  /\ \E n \in 0 .. Len(s) : x = Excess(s, direction)[n]
  /\ \A n \in 0 .. Len(s) : x >= Excess(s, direction)[n]

(* Each sum is the largest excess of any run of the latest observations,   *)
(* so an alarm is raised exactly when some run departs from the baseline   *)
(* by the threshold: no start of a shift is missed (cusum.py:22-27).       *)
SumsAreLargestExcess ==
  IsLargestExcess(pos, observed, 1) /\ IsLargestExcess(neg, observed, -1)
=============================================================================
