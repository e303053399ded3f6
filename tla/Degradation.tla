------------------------------ MODULE Degradation ------------------------------
(***************************************************************************)
(* The failure windows that the planner's advice reads (app/degradation.py,*)
(* fed by app/agent.py ingest_failure with the time the payment failed).   *)
(* Webhooks come in any order and a replay feeds the same detector, so     *)
(* failure times do not only grow.  The expected rates are set by tests    *)
(* alone: here they are a parameter, absent in the service as it runs.     *)
(***************************************************************************)
EXTENDS Integers, Sequences, FiniteSets, FiniteSetsExt

CONSTANTS
  Methods, Classes,    \* of the payments that fail
  FailureTimes,        \* hours at which they fail
  WindowHours,         \* 6 in the code
  MinSamples,          \* 10: smaller windows say nothing
  BaselineSets,        \* per scope, what baselines holds: failures an hour
  MaxFailures          \* bound

Scopes == {"global"} \cup Methods \cup Classes
Absent == -1

ASSUME DegradationAssumption ==
  /\ FailureTimes \subseteq Nat /\ WindowHours \in Nat \ {0} /\ MinSamples \in Nat
  /\ BaselineSets \subseteq [Scopes -> Nat \cup {Absent}] /\ MaxFailures \in Nat

VARIABLES
  windows,      \* _windows: the failure times each scope remembers
  baselines,    \* _baselines
  failures      \* history: what was recorded, in order

degradationVars == <<windows, baselines, failures>>

DegradationInit ==
  /\ windows = [k \in Scopes |-> <<>>] /\ failures = <<>>
  /\ baselines \in BaselineSets

(* The times of a window from a cutoff on, in their order.                 *)
Since(w, cutoff) ==
  LET kept[n \in 0 .. Len(w)] ==
        IF n = 0 THEN <<>>
        ELSE IF w[n] >= cutoff THEN Append(kept[n - 1], w[n])
        ELSE kept[n - 1]
  IN  kept[Len(w)]

(* Mutant: an hour short.                                                  *)
PrunedShort(w, now) == Since(w, now - WindowHours + 1)

Pruned(w, now) == Since(w, now - WindowHours)

ScopesOf(f) == {"global", f.method, f.class}

RecordFailure(f) ==
  /\ Len(failures) < MaxFailures
  /\ windows' = [k \in Scopes |->
                   IF k \in ScopesOf(f) THEN Pruned(Append(windows[k], f.at), f.at)
                   ELSE windows[k]]
  /\ failures' = Append(failures, f)
  /\ UNCHANGED baselines

DegradationNext ==
  \E f \in [at : FailureTimes, method : Methods, class : Classes] : RecordFailure(f)

DegradationSpec == DegradationInit /\ [][DegradationNext]_degradationVars

-----------------------------------------------------------------------------
Heard(k) == windows[k] # <<>> /\ Len(windows[k]) >= MinSamples

(* The rate is per hour of the window; no baseline, or one that is not     *)
(* positive, is taken to be the rate itself.                               *)
ExpectedFailures(k) == IF baselines[k] > 0 THEN baselines[k] * WindowHours ELSE Len(windows[k])

State(k) ==
  LET n == Len(windows[k])
  IN  IF n >= 2 * ExpectedFailures(k) THEN "CONFIRMED"
      ELSE IF 2 * n >= 3 * ExpectedFailures(k) THEN "WATCH"
      ELSE "HEALTHY"

(* evaluate() is given the time and does not use it.                       *)
Signals == {[scope |-> k, state |-> State(k)] : k \in {s \in Scopes : Heard(s)}}

(* Mutant: the threshold of the other state.                               *)
IsDegradedEarly(asked) ==
  \E k \in asked : Heard(k) /\ baselines[k] > 0
                   /\ 2 * Len(windows[k]) >= 3 * baselines[k] * WindowHours

(* is_degraded() skips a scope with a baseline that is not positive; one   *)
(* with none it compares with itself.                                      *)
IsDegraded(asked) ==
  \E k \in asked : Heard(k) /\ baselines[k] > 0
                   /\ Len(windows[k]) >= 2 * baselines[k] * WindowHours

DegradationTypeOK ==
  /\ windows \in [Scopes -> Seq(FailureTimes)]
  /\ baselines \in BaselineSets
  /\ failures \in Seq([at : FailureTimes, method : Methods, class : Classes])

(* The failures of a scope that neither it nor a later one of the scope    *)
(* has pushed out, by failing more than the window's hours after it.       *)
Remembered(k) ==
  {i \in DOMAIN failures :
     /\ k \in ScopesOf(failures[i])
     /\ \A j \in i .. Len(failures) :
          k \in ScopesOf(failures[j]) => failures[i].at >= failures[j].at - WindowHours}

(* A window holds a failure until one of the same scope that failed more   *)
(* than its hours later is recorded, whatever came between and in whatever *)
(* order: an old failure heard late stays, and time alone removes none.    *)
(* So the planner calls a scope degraded for the failures remembered, not  *)
(* the recent ones, exactly when the report confirms it, and never where   *)
(* no baseline was set, as in the service (degradation.py:50-102).         *)
DegradedByArrival ==
  \A k \in Scopes :
    /\ \A t \in FailureTimes :
         Cardinality({i \in DOMAIN windows[k] : windows[k][i] = t})
           = Cardinality({i \in Remembered(k) : failures[i].at = t})
    /\ IsDegraded({k}) <=>
         /\ baselines[k] > 0
         /\ Cardinality(Remembered(k)) >= Max({MinSamples, 2 * baselines[k] * WindowHours})
    /\ IsDegraded({k}) <=> [scope |-> k, state |-> "CONFIRMED"] \in Signals
    /\ IsDegraded({k}) => IsDegraded(Scopes)
=============================================================================
