---------------------------- MODULE MCLiveAgent ----------------------------
(* Instances of LiveAgent for TLC.  Times are minutes from midnight UTC.   *)
EXTENDS LiveAgent

CONSTANTS mandate, network, overdue, phone

MCLadder == <<"nudge_whatsapp", "nudge_sms", "nudge_email">>

(* One case per kind of first action: the ladder behind a pre-debit        *)
(* notice, a payment link above the auto-action cap, and a voice call.     *)
MCClassOf ==
  [c \in Case |-> CASE c = mandate -> "MANDATE_ISSUE"
                    [] c = network -> "NETWORK_TIMEOUT"
                    [] c = overdue -> "OVERDUE_GENUINE"]
MCAmountOf == [c \in Case |-> IF c = network THEN 3000000 ELSE 600000]
MCCustomerOf == [c \in Case |-> phone]

(* 10:30 IST; 17:10; 20:30, within the cooldown of 17:10; 09:50 next day;  *)
(* past the expiry.                                                        *)
MCTimes == {300, 700, 900, 1700, 21000}
MCPairTimes == {300, 700, 1700}

(* 18:50 and 20:30, within one cooldown; 09:50 and 14:00 next day, so that *)
(* a third attempt falls in the window of the first two.                   *)
MCCapsTimes == {300, 800, 900, 1700, 1950}

(* "Today" said after 22:00 IST gives an instant already past; "tomorrow". *)
MCPromises == {300, 1700}
MCTomorrow == {1700}
=============================================================================
