------------------------------ MODULE Portfolio ------------------------------
(***************************************************************************)
(* The choice of cases for human review (app/portfolio.py): a knapsack     *)
(* over hundredths of an hour, and the greedy baseline.  Hours are in      *)
(* thousandths here and floats in the code.  int(hours * 100) truncates to *)
(* hundredths, and where the product of floats falls below the whole       *)
(* number it loses one more: int(0.58 * 100) is 57.                        *)
(***************************************************************************)
EXTENDS Naturals, Sequences, FiniteSets, Sums

CONSTANTS
  Values,         \* expected recoveries a pending case may have
  HandlingTimes,  \* handling times it may have
  Capacities,     \* hours of review, in thousandths too
  Short,          \* hours whose product with 100 falls below the whole number
  MaxPending      \* bound: pending cases

ASSUME PortfolioAssumption ==
  /\ Values \subseteq Nat /\ HandlingTimes \subseteq Nat /\ Capacities \subseteq Nat
  /\ MaxPending \in Nat
  /\ Short \subseteq Nat /\ \A h \in Short : h >= 10 /\ h % 10 = 0

Units(h) == IF h \in Short THEN h \div 10 - 1 ELSE h \div 10

MaxOf(a, b) == IF a >= b THEN a ELSE b

(* A row of dp from the one above it: with the case, or without.           *)
NextRow(above, case, capacity) ==
  [c \in 0 .. Units(capacity) |->
     IF Units(case.hours) <= c
     THEN MaxOf(above[c], above[c - Units(case.hours)] + case.value)
     ELSE above[c]]

(* dp of the code: the best of the first i cases within c units.           *)
Best(cs, capacity) ==
  LET dp[i \in 0 .. Len(cs)] ==
        IF i = 0 THEN [c \in 0 .. Units(capacity) |-> 0]
        ELSE NextRow(dp[i - 1], cs[i], capacity)
  IN  dp

(* Mutant: what is left is not lowered by what was taken.                  *)
LeftAll(cs, capacity) == [i \in 0 .. Len(cs) |-> Units(capacity)]

(* The units left when the reconstruction comes to case i, from the last.  *)
Left(cs, capacity) ==
  LET dp == Best(cs, capacity)
      left[i \in 0 .. Len(cs)] ==
        IF i = Len(cs) THEN Units(capacity)
        ELSE IF dp[i + 1][left[i + 1]] # dp[i][left[i + 1]]
             THEN left[i + 1] - Units(cs[i + 1].hours)
             ELSE left[i + 1]
  IN  left

KnapsackSelect(cs, capacity) ==
  LET dp == Best(cs, capacity)
      left == Left(cs, capacity)
  IN  [ids |-> {i \in DOMAIN cs : dp[i][left[i]] # dp[i - 1][left[i]]},
       total |-> dp[Len(cs)][Units(capacity)]]

Sum(cs, S, Field(_)) == Total(At([i \in DOMAIN cs |-> Field(cs[i])], S))
ValueOf(c) == c.value
HoursOf(c) == c.hours

(* Orders by value per hour, a time of 0 taken as 0.01 h.  Quotients of    *)
(* floats may tell cases of the same value per hour apart, either way.     *)
Orders(cs) ==
  LET worth(a, b) == cs[a].value * MaxOf(cs[b].hours, 10)
  IN  {p \in [DOMAIN cs -> DOMAIN cs] :
         \A a, b \in DOMAIN cs :
           a < b => p[a] # p[b] /\ worth(p[a], p[b]) >= worth(p[b], p[a])}

(* The cases taken in that order while they fit.  Where the hours are      *)
(* exactly the capacity, the sum of floats may come out above it: over     *)
(* names the cases whose test it fails.                                    *)
GreedySelect(cs, capacity, order, over) ==
  LET chosen[n \in 0 .. Len(cs)] ==
        IF n = 0 THEN {}
        ELSE LET taken == Sum(cs, chosen[n - 1] \cup {order[n]}, HoursOf)
             IN  IF taken < capacity \/ (taken = capacity /\ order[n] \notin over)
                 THEN chosen[n - 1] \cup {order[n]}
                 ELSE chosen[n - 1]
  IN  chosen[Len(cs)]

-----------------------------------------------------------------------------
VARIABLES pending, hours, selected

portfolioVars == <<pending, hours, selected>>

PendingCase == [value : Values, hours : HandlingTimes]
NotYet == [ids |-> {}, total |-> 0]

PortfolioInit ==
  /\ pending \in UNION {[1 .. n -> PendingCase] : n \in 0 .. MaxPending}
  /\ hours \in Capacities /\ selected = [knapsack |-> NotYet, greedy |-> {}, done |-> FALSE]

Select ==
  /\ ~selected.done
  /\ \E order \in Orders(pending), over \in SUBSET DOMAIN pending :
       selected' = [knapsack |-> KnapsackSelect(pending, hours),
                    greedy |-> GreedySelect(pending, hours, order, over), done |-> TRUE]
  /\ UNCHANGED <<pending, hours>>

PortfolioNext == Select

PortfolioSpec == PortfolioInit /\ [][PortfolioNext]_portfolioVars

-----------------------------------------------------------------------------
PortfolioTypeOK ==
  /\ selected.knapsack.ids \subseteq DOMAIN pending /\ selected.greedy \subseteq DOMAIN pending
  /\ selected.knapsack.total \in Nat

UnitsOf(c) == Units(c.hours)

(* The cases named are worth the total named, they fit in the hundredths   *)
(* of the capacity, and no set of cases that fits in them is worth more.   *)
(* Truncation lets their hours run over the capacity, by no more than a    *)
(* hundredth of an hour a case; the greedy choice is no better unless the  *)
(* capacity itself lost a hundredth (portfolio.py:33-60, 77-82).           *)
SelectionIsOptimal ==
  selected.done =>
    LET worth(S) == Sum(pending, S, ValueOf)
        ids == selected.knapsack.ids
    IN  /\ worth(ids) = selected.knapsack.total
        /\ Sum(pending, ids, UnitsOf) <= Units(hours)
        /\ \A S \in SUBSET DOMAIN pending :
             Sum(pending, S, UnitsOf) <= Units(hours) => worth(S) <= selected.knapsack.total
        /\ Sum(pending, ids, HoursOf) <= hours + 10 * Cardinality(ids)
        /\ hours \notin Short => worth(selected.greedy) <= selected.knapsack.total

(* The knapsack finds at least as much as the greedy choice, as            *)
(* tests/test_portfolio.py:48 says of it.                                  *)
KnapsackBeatsGreedy ==
  selected.done => Sum(pending, selected.greedy, ValueOf) <= selected.knapsack.total
=============================================================================
