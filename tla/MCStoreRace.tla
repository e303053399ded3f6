---------------------------- MODULE MCStoreRace ----------------------------
(* An instance of StoreRace for TLC.  Times are minutes from midnight UTC. *)
EXTENDS StoreRace

(* A voice call and a message, as a redelivered failure plans them.        *)
MCPlanned == <<"nudge_voice", "nudge_sms">>

(* 10:30 IST; 12:10, within the cooldown; 17:10.                           *)
MCTimes == {300, 400, 700}
=============================================================================
