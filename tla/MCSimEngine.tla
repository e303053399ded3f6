---------------------------- MODULE MCSimEngine ----------------------------
(* Instances of SimEngine for TLC.  Times are minutes from midnight UTC.   *)
EXTENDS SimEngine

CONSTANTS control, capped, invoice

MCLadder == <<"nudge_whatsapp", "nudge_sms", "nudge_email">>

(* A control case whose mandate ladder stands behind a notice, a link      *)
(* above the auto-action cap, and an invoice, which is told by voice at    *)
(* its third stage and escalated in the end.                               *)
MCBatch == <<control, capped, invoice>>

MCClassOf ==
  [c \in Case |-> CASE c = control -> "MANDATE_ISSUE"
                    [] c = capped -> "NETWORK_TIMEOUT"
                    [] c = invoice -> "INVOICE_OVERDUE"]
MCAmountOf == [c \in Case |-> IF c = control THEN 600000 ELSE 3000000]
MCDebitOf == [c \in Case |-> FALSE]
MCFailedAt == [c \in Case |-> IF c = control THEN 300 ELSE 900]

MCControls == {control}
MCOrganic == {2880}
MCPromiseDays == {1, 3}

(* The instants at which a case of this batch may be opened or attempted:  *)
(* at any other the contract would refuse the step.                        *)
MCInstants == {300, 900, 1800, 2040, 2280} \cup {k * 1440 + 150 : k \in 1 .. 7}
=============================================================================
