----------------------------- MODULE NetworkHealth -----------------------------
(***************************************************************************)
(* The monitor of one payment method's outcomes (app/network_health.py):   *)
(* the rate of the latest few against that of the window they end.  Rates  *)
(* are fractions and compared exactly.  The service reports its status;    *)
(* recording outcomes is left to callers from outside src/.                *)
(***************************************************************************)
EXTENDS Naturals, Sequences, SequencesExt, FiniteSets

CONSTANTS
  WindowSize,     \* 50 in the code
  Recent,         \* 10, also the fewest outcomes it speaks on
  MaxOutcomes     \* bound

ASSUME NetworkAssumption ==
  /\ Recent \in Nat \ {0} /\ WindowSize \in Nat /\ Recent <= WindowSize
  /\ MaxOutcomes \in Nat

VARIABLES
  methodEvents,    \* _method_events of the method: TRUE is a success
  outcomes         \* history: every outcome

networkVars == <<methodEvents, outcomes>>

NetworkInit == methodEvents = <<>> /\ outcomes = <<>>

(* Mutant: a full window drops its newest event.                           *)
WindowedFront(w) == IF Len(w) > WindowSize THEN Front(w) ELSE w

Windowed(w) == IF Len(w) > WindowSize THEN Tail(w) ELSE w

RecordEvent(success) ==
  /\ Len(outcomes) < MaxOutcomes
  /\ methodEvents' = Windowed(Append(methodEvents, success))
  /\ outcomes' = Append(outcomes, success)

NetworkNext == \E success \in BOOLEAN : RecordEvent(success)

NetworkSpec == NetworkInit /\ [][NetworkNext]_networkVars

-----------------------------------------------------------------------------
Successes(s) == Cardinality({i \in DOMAIN s : s[i]})
Latest(s, n) == SubSeq(s, Len(s) - n + 1, Len(s))

(* The drop, (baseline - current) / baseline, is at least so many percent; *)
(* with no success in the window there is none.                            *)
Dropped(percent) ==
  LET good == Successes(methodEvents) * Recent
      now == Successes(Latest(methodEvents, Recent)) * Len(methodEvents)
  IN  good > 0 /\ 100 * good >= 100 * now + percent * good

Status ==
  IF Len(methodEvents) < Recent THEN "unknown"
  ELSE IF Dropped(15) THEN "CRITICAL"
  ELSE IF Dropped(7) THEN "MODERATE"
  ELSE "HEALTHY"

NetworkTypeOK ==
  /\ methodEvents \in Seq(BOOLEAN) /\ Len(methodEvents) <= WindowSize
  /\ outcomes \in Seq(BOOLEAN)

(* When none of the latest outcomes is a success the status is critical as *)
(* long as the outcomes of a window's length hold one success, and healthy *)
(* once they hold none: an outage is forgotten when it fills the window.   *)
(* When all of the latest are successes nothing is reported, whatever came *)
(* before (network_health.py:40-42, 52-67).                                *)
OutageSeenWhileItBegins ==
  Len(outcomes) >= Recent =>
    LET past == Latest(outcomes, IF Len(outcomes) < WindowSize THEN Len(outcomes)
                                 ELSE WindowSize)
    IN  /\ Successes(Latest(outcomes, Recent)) = 0 =>
             Status = IF Successes(past) = 0 THEN "HEALTHY" ELSE "CRITICAL"
        /\ Successes(Latest(outcomes, Recent)) = Recent => Status = "HEALTHY"
=============================================================================
