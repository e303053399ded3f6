--------------------------------- MODULE Sums ---------------------------------
(***************************************************************************)
(* Sums of sequences of numbers, where the code adds up a list.  The folds *)
(* of the library do as well for TLC; of a recursive function one can also *)
(* prove what it returns.                                                  *)
(***************************************************************************)
EXTENDS Integers, Sequences, FiniteSets

(* The sums of the first 0, 1, 2, ... numbers of s.                        *)
SumsOf(s) ==
  LET sum[n \in 0 .. Len(s)] == IF n = 0 THEN 0 ELSE sum[n - 1] + s[n]
  IN  sum

Total(s) == SumsOf(s)[Len(s)]

(* The numbers of s at the places in S, and zero at the others.            *)
At(s, S) == [i \in DOMAIN s |-> IF i \in S THEN s[i] ELSE 0]
===============================================================================
