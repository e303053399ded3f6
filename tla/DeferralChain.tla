---------------------------- MODULE DeferralChain ----------------------------
(***************************************************************************)
(* One case whose actions are proposed to the policy gate, and proposed    *)
(* again at the instant a deferral names, as simulate/engine.py:70-108     *)
(* drives app/executor.py.  The replay gives an action up, without a word  *)
(* on the case, when it has visited it more than VisitLimit times.         *)
(***************************************************************************)
EXTENDS PolicyGate

CONSTANTS
  Profiles,      \* case documents to start from
  Types,         \* action types proposed
  Instants,      \* instants at which a first action is proposed
  NextDelays     \* bound: how long after an attempt the next one is proposed

ASSUME ChainAssumption ==
  /\ Profiles \subseteq CaseFields /\ Types \subseteq ActionType \ {"check_promise"}
  /\ \A p \in Profiles : IsFiniteSet(p.attempts)
  /\ Instants \subseteq Nat /\ NextDelays \subseteq Nat

VisitLimit == 6

VARIABLES
  r,        \* the case document
  type,     \* the action being proposed
  t,        \* the instant of the proposal
  visits,   \* how often the replay has popped the action
  state     \* "pending", "executed", or "over": blocked or left deferred

chainVars == <<r, type, t, visits, state>>

Verdict == Evaluate(r, t, IsContact(type), IsMoney(type))

ChainInit ==
  /\ r \in Profiles /\ type \in Types /\ t \in Instants
  /\ t >= r.created
  /\ visits = 1 /\ state = "pending"

Deferred(c, why) == IF why = "rbi_notice" THEN [c EXCEPT !.notice = TRUE] ELSE c

MayRevisit == visits <= VisitLimit /\ Verdict.decision = "defer" /\ Verdict.at # NoTime
MayRun == visits <= VisitLimit /\ Verdict.decision = "execute"

Revisit ==
  /\ state = "pending" /\ MayRevisit
  /\ t' = Verdict.at
  /\ r' = Deferred(r, Verdict.reason)
  /\ visits' = visits + 1
  /\ UNCHANGED <<type, state>>

(* Out of visits, blocked, or deferred without an instant to come back at. *)
GiveUp ==
  /\ state = "pending" /\ ~MayRevisit /\ ~MayRun
  /\ state' = "over"
  /\ UNCHANGED <<r, type, t, visits>>

Run ==
  /\ state = "pending" /\ MayRun
  /\ r' = [r EXCEPT !.attempts = IF CountsAsAttempt(type) THEN @ \cup {t} ELSE @,
                    !.status = "scheduled"]
  /\ state' = "executed"
  /\ UNCHANGED <<type, t, visits>>

(* The next action of the ladder; an escalation ended the case.            *)
Replan ==
  /\ state = "executed" /\ type # "escalate_human"
  /\ type' \in Types
  /\ \E d \in NextDelays : t' = t + d
  /\ visits' = 1 /\ state' = "pending"
  /\ UNCHANGED r

ChainNext == Revisit \/ GiveUp \/ Run \/ Replan

ChainSpec == ChainInit /\ [][ChainNext]_chainVars

-----------------------------------------------------------------------------
ChainTypeOK ==
  /\ r \in CaseFields /\ type \in ActionType /\ t \in Nat
  /\ visits \in 1 .. VisitLimit + 1
  /\ state \in {"pending", "executed", "over"}

(* The hours of the IST day in which nobody is contacted, told one by one. *)
QuietHour(h) ==
  IF QuietStart <= QuietEnd THEN h \in QuietStart .. QuietEnd - 1
  ELSE h \in (QuietStart .. 23) \cup (0 .. QuietEnd - 1)
QuietMinute(u) == QuietHour(((u + IstOffset) \div Hour) % 24)

(* A deferral is to the first instant the action may run: later than now,  *)
(* with no instant before it at which the gate would let it run, and none  *)
(* of a contact into the quiet hours, across midnight of either clock.     *)
(* The gate does not give the same reason again then, nor defers an action *)
(* more than twice, so the replay's visit limit loses none                 *)
(* (policy.py:41-52, 84-117, engine.py:73-75).                             *)
DeferralsAreTight ==
  [][visits' = visits + 1 =>
       /\ t' > t /\ visits' <= 3
       /\ \A u \in t .. t' - 1 :
            Evaluate(r, u, IsContact(type), IsMoney(type)).decision # "execute"
       /\ Verdict.reason = "quiet_hours_ist" =>
            ~QuietMinute(t') /\ \A u \in t .. t' - 1 : QuietMinute(u)
       /\ Verdict'.reason # Verdict.reason]_chainVars
=============================================================================
