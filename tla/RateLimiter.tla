------------------------------ MODULE RateLimiter ------------------------------
(***************************************************************************)
(* The fixed-window limiter every request passes first (app/ratelimit.py). *)
(* The middleware runs on the event loop, so a check is one step.  Time is *)
(* in half seconds, as the code tells the caller whole seconds to wait.    *)
(* The list is one process's, and the model one run of it.                 *)
(***************************************************************************)
EXTENDS Naturals, Sequences, FiniteSets, Functions

CONSTANTS
  Client,       \* the addresses requests come from
  Limit,        \* requests allowed in a window
  Window,       \* its length
  EvictAt,      \* the table is swept when it holds so many clients
  LastTick,     \* bound: the last instant
  MaxChecks     \* bound: requests

ASSUME LimiterAssumption ==
  /\ Limit \in Nat \ {0} /\ Window \in Nat \ {0} /\ EvictAt \in Nat
  /\ LastTick \in Nat /\ MaxChecks \in Nat

VARIABLES
  tick,      \* time.monotonic()
  hits,      \* the running window of each client that has one
  log        \* history: every request and its answer

limiterVars == <<tick, hits, log>>

LimiterInit == tick = 0 /\ hits = << >> /\ log = <<>>

Fresh == [start |-> tick, count |-> 0]

Over(w) == tick - w.start >= Window

(* Mutant: a full table is cleared.                                        *)
KeptNone == IF Cardinality(DOMAIN hits) < EvictAt THEN hits ELSE << >>

(* What an eviction leaves of the table.                                   *)
Kept ==
  IF Cardinality(DOMAIN hits) < EvictAt THEN hits
  ELSE Restrict(hits, {k \in DOMAIN hits : ~Over(hits[k])})

WindowOf(k) == IF k \in DOMAIN Kept /\ ~Over(Kept[k]) THEN Kept[k] ELSE Fresh

(* Whole seconds, one more than the truncated rest: at least one, as a     *)
(* window that is not over ends later than now.                            *)
RetryAfter(w) == (w.start + Window - tick) \div 2 + 1

Check(k) ==
  LET w == [WindowOf(k) EXCEPT !.count = @ + 1]
  IN  /\ Len(log) < MaxChecks
      /\ hits' = [c \in DOMAIN Kept \cup {k} |-> IF c = k THEN w ELSE Kept[c]]
      /\ log' = Append(log, [client |-> k, at |-> tick, allowed |-> w.count <= Limit,
                             retry |-> RetryAfter(w)])
      /\ UNCHANGED tick

Tick == tick < LastTick /\ tick' = tick + 1 /\ UNCHANGED <<hits, log>>

LimiterNext == Tick \/ \E k \in Client : Check(k)

LimiterSpec == LimiterInit /\ [][LimiterNext]_limiterVars

-----------------------------------------------------------------------------
LimiterTypeOK ==
  /\ tick \in 0 .. LastTick
  /\ DOMAIN hits \subseteq Client
  /\ \A k \in DOMAIN hits : hits[k] \in [start : 0 .. tick, count : 1 .. MaxChecks]

Allowed(k, from, to) ==
  {i \in DOMAIN log : log[i].client = k /\ log[i].allowed /\ log[i].at \in from .. to}

(* However requests fall on the edges of windows and whatever is evicted,  *)
(* no stretch of one window's length lets more than twice the limit        *)
(* through, and a request is refused only when its client was allowed the  *)
(* limit in such a stretch up to it.  Who waits for the seconds a refusal  *)
(* names is let in at once, and waits no second too long                   *)
(* (ratelimit.py:31-50).                                                   *)
AdmitsByTheWindow ==
  /\ \A k \in Client, u \in 0 .. tick :
       Cardinality(Allowed(k, u, u + Window - 1)) <= 2 * Limit
  /\ \A i \in DOMAIN log : ~log[i].allowed =>
       \E from \in 0 .. log[i].at :
         /\ log[i].at - from < Window
         /\ Cardinality({j \in Allowed(log[i].client, from, log[i].at) : j < i}) >= Limit
  /\ \A i, j \in DOMAIN log :
       /\ i < j /\ log[i].client = log[j].client /\ ~log[i].allowed
       /\ \A m \in i + 1 .. j - 1 : log[m].client # log[i].client
       => /\ log[j].at >= log[i].at + 2 * log[i].retry => log[j].allowed
          /\ log[j].at < log[i].at + 2 * (log[i].retry - 1) => ~log[j].allowed
=============================================================================
