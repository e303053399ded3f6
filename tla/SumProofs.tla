------------------------------- MODULE SumProofs -------------------------------
(***************************************************************************)
(* Theorems about the parts of the service that add up or count: the       *)
(* observed success rates, the spending budget and the bandit's counts,    *)
(* the report, the choice of cases for review, the failures of a scope and *)
(* the days of the calendar a promise falls on.  They share no state, only *)
(* the sums of Sums and the recursions on them, whose facts come first.    *)
(***************************************************************************)
EXTENDS Cusum, Spending, Report, Portfolio, Degradation, PromiseReply,
        SequenceTheorems, FiniteSetTheorems, WellFoundedInduction, TLAPS

(* A set of naturals has a least: what holds of all numbers is shown by    *)
(* the least one it might fail for.                                        *)
LEMMA LeastNatural ==
  ASSUME NEW S, S \subseteq Nat, S # {}
  PROVE  \E m \in S : \A n \in S : m <= n
<1> DEFINE less == OpToRel(<, Nat)
<1>1. IsWellFoundedOn(less, Nat)
  BY NatLessThanWellFounded
<1>2. PICK m \in S : \A n \in S : ~(<<n, m>> \in less)
  <2> HIDE DEF less
  <2> QED
    BY <1>1, WFMin
<1>3. \A n \in S : ~(n < m)
  BY <1>2 DEF OpToRel
<1> QED
  BY <1>3

(* So a set of numbers up to a bound that holds zero, and the next number  *)
(* with each that it holds, holds them all.                                *)
LEMMA HoldsUpTo ==
  ASSUME NEW last \in Nat, NEW S, 0 \in S,
         \A m \in 1 .. last : m - 1 \in S => m \in S
  PROVE  0 .. last \subseteq S
<1> DEFINE bad == (0 .. last) \ S
<1> SUFFICES ASSUME bad # {} PROVE FALSE
  OBVIOUS
<1>1. PICK m \in bad : \A k \in bad : m <= k
  <2>1. bad \subseteq Nat
    OBVIOUS
  <2> HIDE DEF bad
  <2> QED
    BY <2>1, LeastNatural
<1>2. m \in 1 .. last /\ m - 1 \in 0 .. last /\ ~(m <= m - 1)
  <2>1. m # 0
    OBVIOUS
  <2> QED
    BY <2>1
<1>3. m - 1 \in S
  BY <1>1, <1>2
<1> QED
  BY <1>2, <1>3

(* Two sets are of one size when the elements of one are told by those of  *)
(* the other.                                                              *)
LEMMA SameSize ==
  ASSUME NEW S, IsFiniteSet(S), NEW T, NEW f \in [S -> T],
         \A x, y \in S : f[x] = f[y] => x = y,
         \A z \in T : \E x \in S : f[x] = z
  PROVE  IsFiniteSet(T) /\ Cardinality(T) = Cardinality(S)
<1>1. f \in Bijection(S, T)
  BY DEF Bijection, Injection, Surjection, IsInjective
<1>2. ExistsBijection(S, T)
  BY <1>1 DEF ExistsBijection
<1> QED
  BY <1>2, FS_Bijection

-----------------------------------------------------------------------------
(* There is a function of the sums of a sequence of numbers.               *)
SumsUpTo(f, s, m) ==
  /\ f \in [0 .. m -> Int] /\ f[0] = 0
  /\ \A n \in 1 .. m : f[n] = f[n - 1] + s[n]

LEMMA OneMoreSum ==
  ASSUME NEW s \in Seq(Int), NEW m \in 1 .. Len(s), NEW f, SumsUpTo(f, s, m - 1)
  PROVE  \E g : SumsUpTo(g, s, m)
<1> DEFINE g == [n \in 0 .. m |-> IF n = m THEN f[m - 1] + s[m] ELSE f[n]]
<1>0. Len(s) \in Nat /\ s[m] \in Int
  BY LenProperties, ElementOfSeq
<1>1. /\ m \in Nat \ {0} /\ m - 1 \in 0 .. m - 1
      /\ \A n \in 0 .. m : n = m \/ n \in 0 .. m - 1
      /\ \A n \in 1 .. m : n = m \/ n \in 1 .. m - 1
      /\ \A n \in 1 .. m : n - 1 \in 0 .. m - 1 /\ n - 1 # m /\ n \in 0 .. m
      /\ 0 \in 0 .. m /\ 0 # m
  BY <1>0
<1>2. f \in [0 .. m - 1 -> Int] /\ f[0] = 0 /\ \A n \in 1 .. m - 1 : f[n] = f[n - 1] + s[n]
  BY DEF SumsUpTo
<1>3. g[m] \in Int /\ g[m] = f[m - 1] + s[m]
  BY <1>0, <1>1, <1>2
<1>4. \A n \in 0 .. m - 1 : n \in 0 .. m /\ n # m /\ g[n] = f[n] /\ f[n] \in Int
  BY <1>1, <1>2
<1>5. g \in [0 .. m -> Int]
  <2>1. \A n \in 0 .. m : g[n] \in Int
    BY <1>1, <1>3, <1>4
  <2>2. g = [n \in 0 .. m |-> g[n]]
    OBVIOUS
  <2> HIDE DEF g
  <2> QED
    BY <2>1, <2>2
<1>6. g[0] = 0
  BY <1>1, <1>2
<1> HIDE DEF g
<1>7. \A n \in 1 .. m : g[n] = g[n - 1] + s[n]
  <2> TAKE n \in 1 .. m
  <2>1. n - 1 \in 0 .. m - 1 /\ g[n - 1] = f[n - 1]
    BY <1>1, <1>4
  <2>2. CASE n = m
    BY <1>3, <2>1, <2>2
  <2>3. CASE n \in 1 .. m - 1
    <3>1. f[n] = f[n - 1] + s[n] /\ n \in 0 .. m - 1
      BY <1>2, <2>3
    <3> QED
      BY <1>4, <2>1, <3>1
  <2> QED
    BY <1>1, <2>2, <2>3
<1> QED
  BY <1>5, <1>6, <1>7 DEF SumsUpTo

LEMMA SumsFacts ==
  ASSUME NEW s \in Seq(Int)
  PROVE  /\ SumsOf(s) \in [0 .. Len(s) -> Int]
         /\ SumsOf(s)[0] = 0
         /\ \A n \in 1 .. Len(s) : SumsOf(s)[n] = SumsOf(s)[n - 1] + s[n]
<1> DEFINE last == Len(s)
           Sum1(f) == f = [n \in 0 .. last |-> IF n = 0 THEN 0 ELSE f[n - 1] + s[n]]
           good == {m \in 0 .. last : \E f : SumsUpTo(f, s, m)}
<1>1. last \in Nat
  BY LenProperties
<1>2. SumsOf(s) = CHOOSE f : Sum1(f)
  BY DEF SumsOf
<1>3. 0 .. last \subseteq good
  <2>1. SumsUpTo([n \in {0} |-> 0], s, 0)
    <3>1. 0 .. 0 = {0} /\ 1 .. 0 = {}
      OBVIOUS
    <3> QED
      BY <3>1 DEF SumsUpTo
  <2>2. 0 \in good
    BY <1>1, <2>1
  <2>3. \A m \in 1 .. last : m - 1 \in good => m \in good
    BY <1>1, OneMoreSum
  <2> HIDE DEF good
  <2> QED
    BY <1>1, <2>2, <2>3, HoldsUpTo
<1>4. PICK f : SumsUpTo(f, s, last)
  <2>1. last \in good
    <3>1. last \in 0 .. last
      BY <1>1
    <3> HIDE DEF good, last
    <3> QED
      BY <1>3, <3>1
  <2> QED
    BY <2>1
<1> HIDE DEF good
<1>5. Sum1(f)
  <2>1. \A n \in 0 .. last : f[n] = IF n = 0 THEN 0 ELSE f[n - 1] + s[n]
    BY <1>1, <1>4 DEF SumsUpTo
  <2>2. f \in [0 .. last -> Int]
    BY <1>4 DEF SumsUpTo
  <2> QED
    BY <2>1, <2>2
<1>6. Sum1(SumsOf(s))
  <2> HIDE DEF Sum1
  <2> QED
    BY <1>2, <1>5
<1> DEFINE e == SumsOf(s)
<1>7. DOMAIN e = 0 .. last /\ e = [n \in 0 .. last |-> e[n]]
  BY <1>6
<1>8. e[0] = 0 /\ \A n \in 1 .. last : e[n] = e[n - 1] + s[n]
  <2>1. \A n \in 0 .. last : e[n] = IF n = 0 THEN 0 ELSE e[n - 1] + s[n]
    BY <1>6
  <2> HIDE DEF e
  <2> QED
    BY <1>1, <2>1
<1> HIDE DEF e, Sum1
<1>9. \A n \in 0 .. last : e[n] \in Int
  <2> DEFINE whole == {n \in 0 .. last : e[n] \in Int}
  <2>1. \A n \in 1 .. last : s[n] \in Int /\ n - 1 \in 0 .. last /\ n \in 0 .. last
    BY <1>1, ElementOfSeq
  <2>2. \A n \in 1 .. last : n - 1 \in whole => n \in whole
    <3> SUFFICES ASSUME NEW n \in 1 .. last, n - 1 \in whole PROVE n \in whole
      OBVIOUS
    <3>1. e[n - 1] \in Int /\ s[n] \in Int /\ e[n] = e[n - 1] + s[n]
      BY <1>8, <2>1
    <3>2. e[n] \in Int
      BY <3>1
    <3> QED
      BY <2>1, <3>2
  <2>3. 0 \in whole
    BY <1>1, <1>8
  <2>4. 0 .. last \subseteq whole
    <3> HIDE DEF whole, last
    <3> QED
      BY <1>1, <2>2, <2>3, HoldsUpTo
  <2> QED
    BY <2>4
<1>10. e \in [0 .. last -> Int]
  BY <1>7, <1>9
<1> QED
  BY <1>8, <1>10 DEF e, last

LEMMA SumsType ==
  ASSUME NEW s \in Seq(Int)
  PROVE  /\ Len(s) \in Nat /\ DOMAIN s = 1 .. Len(s)
         /\ \A n \in 1 .. Len(s) : s[n] \in Int
         /\ \A n \in 0 .. Len(s) : SumsOf(s)[n] \in Int
         /\ Total(s) \in Int /\ Total(s) = SumsOf(s)[Len(s)]
<1>1. Len(s) \in Nat /\ DOMAIN s = 1 .. Len(s)
  BY LenProperties
<1>2. \A n \in 1 .. Len(s) : s[n] \in Int
  BY ElementOfSeq
<1>3. \A n \in 0 .. Len(s) : SumsOf(s)[n] \in Int
  BY SumsFacts
<1>4. Len(s) \in 0 .. Len(s)
  BY <1>1
<1> QED
  BY <1>1, <1>2, <1>3, <1>4 DEF Total

(* Two sequences that begin alike have the same sums so far.               *)
LEMMA SumsOfSame ==
  ASSUME NEW s \in Seq(Int), NEW t \in Seq(Int), NEW m \in Nat, m <= Len(s), m <= Len(t),
         \A n \in 1 .. m : s[n] = t[n]
  PROVE  SumsOf(s)[m] = SumsOf(t)[m]
<1> DEFINE e == SumsOf(s)
           f == SumsOf(t)
           same == {n \in 0 .. m : e[n] = f[n]}
<1>1. e[0] = 0 /\ f[0] = 0
  BY SumsFacts
<1>2. \A n \in 1 .. m : n - 1 \in 0 .. m /\ n \in 1 .. Len(s) /\ n \in 1 .. Len(t)
  BY SumsType
<1>3. \A n \in 1 .. m : e[n] = e[n - 1] + s[n] /\ f[n] = f[n - 1] + s[n]
  <2> TAKE n \in 1 .. m
  <2>1. e[n] = e[n - 1] + s[n]
    BY <1>2, SumsFacts
  <2>2. f[n] = f[n - 1] + t[n]
    BY <1>2, SumsFacts
  <2> QED
    BY <2>1, <2>2
<1> HIDE DEF e, f
<1>4. 0 \in same /\ \A n \in 1 .. m : n - 1 \in same => n \in same
  BY <1>1, <1>3
<1>5. 0 .. m \subseteq same
  <2> HIDE DEF same
  <2> QED
    BY <1>4, HoldsUpTo
<1> QED
  BY <1>5 DEF e, f

LEMMA TotalOfAppend ==
  ASSUME NEW s \in Seq(Int), NEW x \in Int
  PROVE  Total(Append(s, x)) = Total(s) + x
<1> DEFINE more == Append(s, x)
           last == Len(s)
<1>1. /\ more \in Seq(Int) /\ Len(more) = last + 1 /\ last \in Nat
      /\ more[last + 1] = x /\ \A i \in 1 .. last : more[i] = s[i]
  BY AppendProperties, LenProperties
<1> HIDE DEF more
<1>2. SumsOf(more)[last] = SumsOf(s)[last]
  <2>1. last \in Nat /\ last <= Len(more) /\ last <= Len(s) /\ \A i \in 1 .. last : more[i] = s[i]
    BY <1>1
  <2> HIDE DEF last
  <2> QED
    BY <1>1, <2>1, SumsOfSame
<1>3. SumsOf(more)[last + 1] = SumsOf(more)[last] + x
  <2>1. last + 1 \in 1 .. Len(more) /\ (last + 1) - 1 = last
    BY <1>1
  <2> QED
    BY <1>1, <2>1, SumsFacts
<1>4. Total(more) = SumsOf(more)[last + 1] /\ Total(s) = SumsOf(s)[last]
  BY <1>1 DEF Total
<1> QED
  BY <1>2, <1>3, <1>4 DEF more

(* The sums of the sums of two sequences, place by place.                  *)
LEMMA SumsAdd ==
  ASSUME NEW s \in Seq(Int), NEW t \in Seq(Int), NEW u \in Seq(Int),
         Len(t) = Len(s), Len(u) = Len(s), \A n \in 1 .. Len(s) : u[n] = s[n] + t[n]
  PROVE  Total(u) = Total(s) + Total(t)
<1> DEFINE e == SumsOf(s)
           f == SumsOf(t)
           g == SumsOf(u)
           last == Len(s)
           sum == {n \in 0 .. last : g[n] = e[n] + f[n]}
<1>1. last \in Nat /\ e[0] = 0 /\ f[0] = 0 /\ g[0] = 0
  BY SumsFacts, SumsType
<1>2. \A n \in 0 .. last : e[n] \in Int /\ f[n] \in Int
  BY SumsType
<1>3. \A n \in 1 .. last : s[n] \in Int /\ t[n] \in Int
  BY SumsType
<1>4. \A n \in 1 .. last :
        e[n] = e[n - 1] + s[n] /\ f[n] = f[n - 1] + t[n] /\ g[n] = g[n - 1] + (s[n] + t[n])
  BY SumsFacts
<1>5. Total(s) = e[last] /\ Total(t) = f[last] /\ Total(u) = g[last]
  BY SumsType
<1> HIDE DEF e, f, g, last
<1>6. 0 \in sum
  BY <1>1
<1>7. \A n \in 1 .. last : n - 1 \in sum => n \in sum
  <2> SUFFICES ASSUME NEW n \in 1 .. last, n - 1 \in sum PROVE n \in sum
    OBVIOUS
  <2>1. n - 1 \in 0 .. last /\ n \in 0 .. last
    BY <1>1
  <2>2. g[n - 1] = e[n - 1] + f[n - 1]
    OBVIOUS
  <2>3. /\ e[n - 1] \in Int /\ f[n - 1] \in Int /\ s[n] \in Int /\ t[n] \in Int
        /\ e[n] = e[n - 1] + s[n] /\ f[n] = f[n - 1] + t[n]
        /\ g[n] = g[n - 1] + (s[n] + t[n])
    BY <1>2, <1>3, <1>4, <2>1
  <2>4. g[n] = e[n] + f[n]
    BY <2>2, <2>3
  <2> QED
    BY <2>1, <2>4
<1>8. last \in sum
  <2>1. last \in 0 .. last
    BY <1>1
  <2> HIDE DEF sum
  <2> QED
    BY <1>1, <1>6, <1>7, <2>1, HoldsUpTo
<1> QED
  BY <1>5, <1>8

LEMMA SumsBelow ==
  ASSUME NEW s \in Seq(Int), NEW t \in Seq(Int), Len(t) = Len(s),
         \A n \in 1 .. Len(s) : s[n] <= t[n]
  PROVE  \A n \in 0 .. Len(s) : SumsOf(s)[n] <= SumsOf(t)[n]
<1> DEFINE e == SumsOf(s)
           f == SumsOf(t)
           last == Len(s)
           below == {n \in 0 .. last : e[n] <= f[n]}
<1>1. last \in Nat /\ e[0] = 0 /\ f[0] = 0
  BY SumsFacts, SumsType
<1>2. \A n \in 0 .. last : e[n] \in Int /\ f[n] \in Int
  BY SumsType
<1>3. \A n \in 1 .. last : s[n] \in Int /\ t[n] \in Int /\ s[n] <= t[n]
  BY SumsType
<1>4. \A n \in 1 .. last : e[n] = e[n - 1] + s[n] /\ f[n] = f[n - 1] + t[n]
  BY SumsFacts
<1> HIDE DEF e, f, last
<1>5. 0 \in below
  BY <1>1
<1>6. \A n \in 1 .. last : n - 1 \in below => n \in below
  <2> SUFFICES ASSUME NEW n \in 1 .. last, n - 1 \in below PROVE n \in below
    OBVIOUS
  <2>1. n - 1 \in 0 .. last /\ n \in 0 .. last
    BY <1>1
  <2>2. e[n - 1] <= f[n - 1]
    OBVIOUS
  <2>3. /\ e[n - 1] \in Int /\ f[n - 1] \in Int /\ s[n] \in Int /\ t[n] \in Int
        /\ e[n] = e[n - 1] + s[n] /\ f[n] = f[n - 1] + t[n] /\ s[n] <= t[n]
    BY <1>2, <1>3, <1>4, <2>1
  <2>4. e[n] <= f[n]
    BY <2>2, <2>3
  <2> QED
    BY <2>1, <2>4
<1>7. 0 .. last \subseteq below
  <2> HIDE DEF below
  <2> QED
    BY <1>1, <1>5, <1>6, HoldsUpTo
<1> QED
  BY <1>7 DEF e, f, last

(* A number times each: the number times the sum.                          *)
LEMMA SumsTimes ==
  ASSUME NEW s \in Seq(Int), NEW t \in Seq(Int), Len(t) = Len(s), NEW k \in Int,
         \A n \in 1 .. Len(s) : t[n] = k * s[n]
  PROVE  Total(t) = k * Total(s)
<1> DEFINE e == SumsOf(s)
           f == SumsOf(t)
           last == Len(s)
           times == {n \in 0 .. last : f[n] = k * e[n]}
<1>1. last \in Nat /\ e[0] = 0 /\ f[0] = 0
  BY SumsFacts, SumsType
<1>2. \A n \in 0 .. last : e[n] \in Int
  BY SumsType
<1>3. \A n \in 1 .. last : s[n] \in Int /\ t[n] = k * s[n]
  BY SumsType
<1>4. \A n \in 1 .. last : e[n] = e[n - 1] + s[n] /\ f[n] = f[n - 1] + t[n]
  BY SumsFacts
<1>5. Total(s) = e[last] /\ Total(t) = f[last]
  BY SumsType
<1> HIDE DEF e, f, last
<1>6. 0 \in times
  BY <1>1
<1>7. \A n \in 1 .. last : n - 1 \in times => n \in times
  <2> SUFFICES ASSUME NEW n \in 1 .. last, n - 1 \in times PROVE n \in times
    OBVIOUS
  <2>1. n - 1 \in 0 .. last /\ n \in 0 .. last
    BY <1>1
  <2>2. f[n - 1] = k * e[n - 1]
    OBVIOUS
  <2>3. /\ e[n - 1] \in Int /\ s[n] \in Int /\ t[n] = k * s[n]
        /\ e[n] = e[n - 1] + s[n] /\ f[n] = f[n - 1] + t[n]
    BY <1>2, <1>3, <1>4, <2>1
  <2>4. k * (e[n - 1] + s[n]) = k * e[n - 1] + k * s[n]
    BY <2>3
  <2>5. f[n] = k * e[n]
    BY <2>2, <2>3, <2>4
  <2> QED
    BY <2>1, <2>5
<1>8. 0 .. last \subseteq times
  <2> HIDE DEF times
  <2> QED
    BY <1>1, <1>6, <1>7, HoldsUpTo
<1>9. f[last] = k * e[last]
  BY <1>1, <1>8
<1> QED
  BY <1>5, <1>9

(* A number at each place of a set and zero elsewhere: the number times    *)
(* the size of the set.                                                    *)
LEMMA SumsOfCount ==
  ASSUME NEW s \in Seq(Int), NEW S, S \subseteq DOMAIN s, NEW k \in Nat,
         \A n \in DOMAIN s : s[n] = IF n \in S THEN k ELSE 0
  PROVE  IsFiniteSet(S) /\ Total(s) = k * Cardinality(S)
<1> DEFINE e == SumsOf(s)
           last == Len(s)
           Upto(n) == S \cap (1 .. n)
           good == {n \in 0 .. last : IsFiniteSet(Upto(n)) /\ e[n] = k * Cardinality(Upto(n))}
<1>1. last \in Nat /\ e[0] = 0 /\ DOMAIN s = 1 .. last /\ Total(s) = e[last]
  BY SumsFacts, SumsType
<1>2. \A n \in 1 .. last : e[n] = e[n - 1] + IF n \in S THEN k ELSE 0
  BY <1>1, SumsFacts
<1> HIDE DEF e, last
<1>3. 0 \in good
  <2>1. Upto(0) = {}
    OBVIOUS
  <2> QED
    BY <1>1, <2>1, FS_EmptySet
<1>4. \A n \in 1 .. last : n - 1 \in good => n \in good
  <2> SUFFICES ASSUME NEW n \in 1 .. last, n - 1 \in good PROVE n \in good
    OBVIOUS
  <2>1. n - 1 \in 0 .. last /\ n \in 0 .. last /\ n \notin Upto(n - 1)
    BY <1>1
  <2>2. IsFiniteSet(Upto(n - 1)) /\ e[n - 1] = k * Cardinality(Upto(n - 1))
    OBVIOUS
  <2>3. Upto(n) = IF n \in S THEN Upto(n - 1) \cup {n} ELSE Upto(n - 1)
    BY <1>1
  <2> DEFINE before == Upto(n - 1)
             now == Upto(n)
             c == Cardinality(before)
  <2>4. c \in Nat
    BY <2>2, FS_CardinalityType
  <2>5. CASE n \in S
    <3>1. IsFiniteSet(now) /\ Cardinality(now) = c + 1
      <4>1. now = before \cup {n} /\ n \notin before /\ IsFiniteSet(before)
        BY <2>1, <2>2, <2>3, <2>5
      <4> HIDE DEF before, now
      <4> QED
        BY <4>1, FS_AddElement
    <3> HIDE DEF now, c
    <3>2. k * (c + 1) = k * c + k
      BY <2>4
    <3>3. e[n] = k * c + k
      BY <1>2, <2>2, <2>5 DEF c
    <3> QED
      BY <2>1, <3>1, <3>2, <3>3 DEF now
  <2>6. CASE n \notin S
    <3>1. now = before /\ e[n] = e[n - 1] + 0
      BY <1>2, <2>3, <2>6
    <3> HIDE DEF c, before, now
    <3>2. e[n - 1] = k * c /\ IsFiniteSet(before)
      BY <2>2 DEF c, before
    <3>3. k * c \in Nat
      BY <2>4
    <3>4. e[n] = k * c
      BY <3>1, <3>2, <3>3
    <3> QED
      BY <2>1, <3>1, <3>2, <3>4 DEF now, c
  <2> QED
    BY <2>5, <2>6
<1>5. last \in good
  <2>1. last \in 0 .. last
    BY <1>1
  <2> HIDE DEF good
  <2> QED
    BY <1>1, <1>3, <1>4, <2>1, HoldsUpTo
<1>6. Upto(last) = S
  BY <1>1
<1> QED
  BY <1>1, <1>5, <1>6

LEMMA AtFacts ==
  ASSUME NEW s \in Seq(Int), NEW S
  PROVE  /\ At(s, S) \in Seq(Int) /\ Len(At(s, S)) = Len(s)
         /\ \A n \in 1 .. Len(s) : At(s, S)[n] = IF n \in S THEN s[n] ELSE 0
<1>1. Len(s) \in Nat /\ DOMAIN s = 1 .. Len(s) /\ \A n \in 1 .. Len(s) : s[n] \in Int
  BY SumsType
<1>2. At(s, S) \in [1 .. Len(s) -> Int]
  BY <1>1 DEF At
<1> QED
  BY <1>1, <1>2 DEF At

LEMMA SeqOfInt ==
  ASSUME NEW last \in Nat, NEW s \in [1 .. last -> Int]
  PROVE  s \in Seq(Int) /\ Len(s) = last /\ DOMAIN s = 1 .. last
OBVIOUS

(* Over two disjoint sets of places.                                       *)
LEMMA TotalOfUnion ==
  ASSUME NEW s \in Seq(Int), NEW S, NEW T, S \cap T = {}
  PROVE  Total(At(s, S \cup T)) = Total(At(s, S)) + Total(At(s, T))
<1> DEFINE a == At(s, S)
           b == At(s, T)
           c == At(s, S \cup T)
<1>1. /\ a \in Seq(Int) /\ b \in Seq(Int) /\ c \in Seq(Int)
      /\ Len(a) = Len(s) /\ Len(b) = Len(s) /\ Len(c) = Len(s)
  BY AtFacts
<1>2. \A n \in 1 .. Len(s) : c[n] = a[n] + b[n]
  <2> TAKE n \in 1 .. Len(s)
  <2>1. /\ a[n] = IF n \in S THEN s[n] ELSE 0
        /\ b[n] = IF n \in T THEN s[n] ELSE 0
        /\ c[n] = IF n \in S \cup T THEN s[n] ELSE 0
        /\ s[n] \in Int
    BY AtFacts, SumsType
  <2> QED
    BY <2>1
<1> HIDE DEF a, b, c
<1>3. Total(c) = Total(a) + Total(b)
  BY <1>1, <1>2, SumsType, SumsAdd
<1> QED
  BY <1>3 DEF a, b, c

-----------------------------------------------------------------------------
(***************************************************************************)
(* The change-point detector: for any baseline, drift, threshold and       *)
(* number of observations, cutting the sums at zero forgets no run.        *)
(***************************************************************************)

(* The excess is a sum from the latest rate backwards.                     *)
LEMMA ExcessFacts ==
  ASSUME NEW s \in Seq(Int), NEW direction \in Int
  PROVE  /\ Excess(s, direction) \in [0 .. Len(s) -> Int]
         /\ Excess(s, direction)[0] = 0
         /\ \A n \in 1 .. Len(s) :
              Excess(s, direction)[n] =
                Excess(s, direction)[n - 1] + direction * (s[Len(s) + 1 - n] - Baseline) - Drift
<1> DEFINE last == Len(s)
           away(n) == direction * (s[last + 1 - n] - Baseline)
           each == [n \in 1 .. last |-> away(n) - Drift]
           e == Excess(s, direction)
<1>1. last \in Nat /\ Drift \in Int /\ \A n \in 1 .. last : away(n) \in Int
  <2>1. last \in Nat /\ Baseline \in Int /\ Drift \in Int
    BY SumsType, CusumAssumption
  <2>2. \A n \in 1 .. last : s[last + 1 - n] \in Int
    <3> TAKE n \in 1 .. last
    <3>1. last + 1 - n \in 1 .. last
      BY <2>1
    <3> QED
      BY <3>1, SumsType
  <2>3. \A x \in Int : direction * (x - Baseline) \in Int
    BY <2>1
  <2> QED
    BY <2>1, <2>2, <2>3
<1>2. e = SumsOf(each)
  BY DEF Excess
<1> HIDE DEF away, e, last
<1>3. each \in [1 .. last -> Int] /\ \A n \in 1 .. last : each[n] = away(n) - Drift
  BY <1>1
<1> HIDE DEF each
<1>4. each \in Seq(Int) /\ Len(each) = last
  BY <1>1, <1>3, SeqOfInt
<1>5. /\ e \in [0 .. last -> Int] /\ e[0] = 0
      /\ \A n \in 1 .. last : e[n] = e[n - 1] + each[n]
  BY <1>2, <1>4, SumsFacts
<1>6. \A n \in 1 .. last : e[n] = e[n - 1] + away(n) - Drift
  <2> TAKE n \in 1 .. last
  <2>1. n - 1 \in 0 .. last
    BY <1>1
  <2>2. e[n - 1] \in Int /\ away(n) \in Int /\ e[n] = e[n - 1] + (away(n) - Drift)
    BY <1>1, <1>3, <1>5, <2>1
  <2> QED
    BY <1>1, <2>2
<1> QED
  BY <1>5, <1>6 DEF e, last, away

(* One more rate shifts every run that ends with it by what it adds.       *)
LEMMA ExcessOfOneMore ==
  ASSUME NEW s \in Seq(Int), NEW direction \in Int, NEW rate \in Int
  PROVE  \A n \in 0 .. Len(s) :
           Excess(Append(s, rate), direction)[n + 1] =
             Excess(s, direction)[n] + direction * (rate - Baseline) - Drift
<1> DEFINE more == Append(s, rate)
           last == Len(s)
           e == Excess(s, direction)
           f == Excess(more, direction)
           now == direction * (rate - Baseline)
           away(x) == direction * (x - Baseline)
<1>1. /\ more \in Seq(Int) /\ Len(more) = last + 1 /\ last \in Nat
      /\ more[last + 1] = rate /\ \A i \in 1 .. last : more[i] = s[i]
  BY AppendProperties, LenProperties
<1> HIDE DEF more
<1>2. /\ e \in [0 .. last -> Int] /\ e[0] = 0
      /\ \A n \in 1 .. last : e[n] = e[n - 1] + away(s[last + 1 - n]) - Drift
  BY ExcessFacts
<1>3. /\ f \in [0 .. last + 1 -> Int] /\ f[0] = 0
      /\ \A n \in 1 .. last + 1 : f[n] = f[n - 1] + away(more[last + 2 - n]) - Drift
  <2>1. /\ f \in [0 .. Len(more) -> Int] /\ f[0] = 0
        /\ \A n \in 1 .. Len(more) : f[n] = f[n - 1] + away(more[Len(more) + 1 - n]) - Drift
    BY <1>1, ExcessFacts
  <2>2. Len(more) + 1 = last + 2
    BY <1>1
  <2> QED
    BY <1>1, <2>1, <2>2
<1>4. /\ now = away(rate) /\ now \in Int /\ Drift \in Int
      /\ \A x \in Int : away(x) \in Int
  BY CusumAssumption
<1>5. \A i \in 1 .. last : s[i] \in Int
  BY ElementOfSeq
<1> HIDE DEF last, e, f, now, away
<1> DEFINE bad == {n \in 0 .. last : f[n + 1] # e[n] + now - Drift}
<1>6. bad = {}
  <2> SUFFICES ASSUME bad # {} PROVE FALSE
    OBVIOUS
  <2>1. PICK n \in bad : \A k \in bad : n <= k
    <3>1. bad \subseteq Nat
      OBVIOUS
    <3> HIDE DEF bad
    <3> QED
      BY <3>1, LeastNatural
  <2>2. n # 0
    <3>1. f[1] = 0 + away(rate) - Drift
      <4>1. 1 \in 1 .. last + 1 /\ 1 - 1 = 0 /\ last + 2 - 1 = last + 1
        BY <1>1
      <4> QED
        BY <1>1, <1>3, <4>1
    <3>2. f[0 + 1] = e[0] + now - Drift
      BY <1>2, <1>4, <3>1
    <3> QED
      BY <2>1, <3>2
  <2>3. /\ n \in 1 .. last /\ n - 1 \in 0 .. last /\ ~(n <= n - 1) /\ (n - 1) + 1 = n
        /\ n + 1 \in 1 .. last + 1 /\ (n + 1) - 1 = n
        /\ last + 2 - (n + 1) = last + 1 - n /\ last + 1 - n \in 1 .. last
    BY <1>1, <2>2
  <2>4. f[n] = e[n - 1] + now - Drift
    BY <2>1, <2>3
  <2>5. f[n + 1] = f[n] + away(s[last + 1 - n]) - Drift
    <3>1. f[n + 1] = f[n] + away(more[last + 1 - n]) - Drift
      BY <1>3, <2>3
    <3> QED
      BY <1>1, <2>3, <3>1
  <2>6. e[n] = e[n - 1] + away(s[last + 1 - n]) - Drift
    BY <1>2, <2>3
  <2>7. away(s[last + 1 - n]) \in Int /\ e[n - 1] \in Int
    BY <1>2, <1>4, <1>5, <2>3
  <2>8. f[n + 1] = e[n] + now - Drift
    <3> DEFINE a == away(s[last + 1 - n])
               b == e[n - 1]
               c == e[n]
               x == f[n]
               y == f[n + 1]
    <3>1. /\ a \in Int /\ b \in Int /\ now \in Int /\ Drift \in Int
          /\ x = b + now - Drift /\ y = x + a - Drift /\ c = b + a - Drift
      BY <1>4, <2>4, <2>5, <2>6, <2>7
    <3> HIDE DEF a, b, c, x, y
    <3>2. y = c + now - Drift
      BY <3>1
    <3> QED
      BY <3>2 DEF c, y
  <2> QED
    BY <2>1, <2>8
<1> QED
  BY <1>6 DEF last, e, f, now, more

(* So the largest excess grows by what the rate adds, or is that of no     *)
(* rate at all.                                                            *)
LEMMA LargestOfOneMore ==
  ASSUME NEW s \in Seq(Int), NEW direction \in Int, NEW rate \in Int, NEW x \in Int,
         IsLargestExcess(x, s, direction)
  PROVE  IsLargestExcess(Cut(x + direction * (rate - Baseline) - Drift),
                         Append(s, rate), direction)
<1> DEFINE more == Append(s, rate)
           last == Len(s)
           e == Excess(s, direction)
           f == Excess(more, direction)
           now == direction * (rate - Baseline)
<1>1. more \in Seq(Int) /\ Len(more) = last + 1 /\ last \in Nat
  BY AppendProperties, LenProperties
<1>2. e \in [0 .. last -> Int]
  BY ExcessFacts
<1>3. f[0] = 0 /\ \A n \in 0 .. last : f[n + 1] = e[n] + now - Drift
  BY <1>1, ExcessFacts, ExcessOfOneMore
<1>4. now \in Int /\ Drift \in Int
  BY CusumAssumption
<1>5. PICK most \in 0 .. last : x = e[most]
  BY DEF IsLargestExcess
<1>6. \A n \in 0 .. last : x >= e[n]
  BY DEF IsLargestExcess
<1> DEFINE y == Cut(x + now - Drift)
<1> SUFFICES /\ \E n \in 0 .. last + 1 : y = f[n]
             /\ \A n \in 0 .. last + 1 : y >= f[n]
  BY <1>1 DEF IsLargestExcess
<1> HIDE DEF more, last, e, f, now
<1>7. \A n \in 0 .. last + 1 : n = 0 \/ \E k \in 0 .. last : n = k + 1
  <2> TAKE n \in 0 .. last + 1
  <2>1. n = 0 \/ (n - 1 \in 0 .. last /\ n = (n - 1) + 1)
    BY <1>1
  <2> QED
    BY <2>1
<1>8. \A k \in 0 .. last : f[k + 1] <= x + now - Drift
  <2> TAKE k \in 0 .. last
  <2>1. e[k] \in Int /\ e[k] <= x /\ f[k + 1] = e[k] + now - Drift
    BY <1>2, <1>3, <1>6
  <2> QED
    BY <1>4, <2>1
<1>9. f[most + 1] = x + now - Drift /\ most + 1 \in 0 .. last + 1 /\ 0 \in 0 .. last + 1
  BY <1>1, <1>3, <1>5
<1>10. y >= 0 /\ y >= x + now - Drift /\ (y = 0 \/ y = x + now - Drift) /\ y \in Int
  BY <1>4 DEF Cut
<1> HIDE DEF y
<1>11. \A n \in 0 .. last + 1 : y >= f[n]
  <2> TAKE n \in 0 .. last + 1
  <2>1. CASE n = 0
    BY <1>3, <1>10, <2>1
  <2>2. ASSUME NEW k \in 0 .. last, n = k + 1 PROVE y >= f[n]
    <3>1. e[k] \in Int /\ f[n] = e[k] + now - Drift
      BY <1>2, <1>3, <2>2
    <3> QED
      BY <1>4, <1>8, <1>10, <2>2, <3>1
  <2> QED
    BY <1>7, <2>1, <2>2
<1> QED
  BY <1>3, <1>9, <1>10, <1>11

CusumInv ==
  /\ observed \in Seq(Int) /\ pos \in Int /\ neg \in Int
  /\ SumsAreLargestExcess

(* Whatever rates are observed, each sum is the largest excess of any run  *)
(* of the latest ones: no start of a shift is forgotten (cusum.py:22-27).  *)
THEOREM CusumForgetsNone == CusumSpec => []SumsAreLargestExcess
<1>1. CusumInit => CusumInv
  <2> SUFFICES ASSUME CusumInit PROVE CusumInv
    OBVIOUS
  <2>1. observed = <<>> /\ <<>> \in Seq(Int) /\ Len(<<>>) = 0 /\ pos = 0 /\ neg = 0
    BY DEF CusumInit
  <2>2. \A d \in Int : IsLargestExcess(0, <<>>, d)
    <3> TAKE d \in Int
    <3>1. Excess(<<>>, d)[0] = 0
      <4> DEFINE none == <<>>
      <4>1. none \in Seq(Int)
        BY <2>1
      <4> HIDE DEF none
      <4>2. Excess(none, d)[0] = 0
        BY <4>1, ExcessFacts
      <4> QED
        BY <4>2 DEF none
    <3>2. 0 .. 0 = {0}
      OBVIOUS
    <3> QED
      BY <2>1, <3>1, <3>2 DEF IsLargestExcess
  <2> QED
    BY <2>1, <2>2 DEF CusumInv, SumsAreLargestExcess
<1>2. CusumInv /\ [CusumNext]_cusumVars => CusumInv'
  <2> SUFFICES ASSUME CusumInv, [CusumNext]_cusumVars PROVE CusumInv'
    OBVIOUS
  <2>1. CASE UNCHANGED cusumVars
    BY <2>1 DEF cusumVars, CusumInv, SumsAreLargestExcess
  <2>2. ASSUME NEW rate \in Rates, Update(rate) PROVE CusumInv'
    <3>1. /\ rate \in Int /\ observed \in Seq(Int) /\ pos \in Int /\ neg \in Int
          /\ Baseline \in Int /\ Drift \in Int
          /\ IsLargestExcess(pos, observed, 1) /\ IsLargestExcess(neg, observed, -1)
      BY CusumAssumption DEF CusumInv, SumsAreLargestExcess
    <3>2. /\ pos' = Cut(pos + 1 * (rate - Baseline) - Drift)
          /\ neg' = Cut(neg + (-1) * (rate - Baseline) - Drift)
      <4>1. /\ pos + rate - Baseline - Drift = pos + 1 * (rate - Baseline) - Drift
            /\ neg - (rate - Baseline) - Drift = neg + (-1) * (rate - Baseline) - Drift
        BY <3>1
      <4> QED
        BY <2>2, <4>1 DEF Update
    <3>3. observed' = Append(observed, rate) /\ observed' \in Seq(Int)
      BY <2>2, <3>1, AppendProperties DEF Update
    <3>4. pos' \in Int /\ neg' \in Int
      BY <3>1, <3>2 DEF Cut
    <3>5. /\ IsLargestExcess(Cut(pos + 1 * (rate - Baseline) - Drift), Append(observed, rate), 1)
          /\ IsLargestExcess(Cut(neg + (-1) * (rate - Baseline) - Drift), Append(observed, rate), -1)
      <4>1. 1 \in Int /\ -1 \in Int
        OBVIOUS
      <4> QED
        BY <3>1, <4>1, LargestOfOneMore
    <3> QED
      BY <3>2, <3>3, <3>4, <3>5 DEF CusumInv, SumsAreLargestExcess
  <2> QED
    BY <2>1, <2>2 DEF CusumNext
<1>3. CusumInv => SumsAreLargestExcess
  BY DEF CusumInv
<1> QED
  BY <1>1, <1>2, <1>3, PTL DEF CusumSpec

-----------------------------------------------------------------------------
(***************************************************************************)
(* The budget of Spending is conserved, whatever is executed, fed, reset   *)
(* or updated, and however large the budget is.  The invariant             *)
(* strengthens BudgetConserved by the types alone: a channel is            *)
(* overcharged only when it is at zero, or the whole budget at zero or     *)
(* below, where both stay until a reset.                                   *)
(***************************************************************************)

Row == [channel : Executed, recovered : BOOLEAN]
Budget == [total : Int, remaining : Int, channel : [Budgeted -> Nat]]
History == [reads : Seq(Nat), direct : [Arm -> Nat], resets : Nat,
            charged : [Budgeted -> Nat]]

(* The types the argument needs.                                           *)
BudgetTypes ==
  /\ executedRows \in Seq(Row) /\ reading \in Seq(Row)
  /\ budget \in Budget /\ history \in History

(* What each channel has been charged is what it has paid, or it could not *)
(* pay.                                                                    *)
Accounted(c) ==
  \/ Spent(c) = history.charged[c]
  \/ /\ Spent(c) < history.charged[c]
     /\ budget.channel[c] = 0 \/ budget.remaining <= 0

(* The total pays for the channels.                                        *)
Balanced ==
  budget.total - budget.remaining =
    Spent("whatsapp") + Spent("sms") + Spent("email") + Spent("voice")
    + Spent("retry") + Spent("human")

(* A negative budget is as it was made.                                    *)
Solvent == budget.remaining >= 0 \/ budget.remaining = budget.total

Conserved == Solvent /\ Balanced /\ \A c \in Budgeted : Accounted(c)

LEMMA ConservedIsEnough == BudgetTypes /\ Conserved => BudgetConserved
<1> SUFFICES ASSUME BudgetTypes, Conserved PROVE BudgetConserved
  OBVIOUS
<1>1. \A c \in Budgeted : budget.channel[c] >= 0
  BY DEF BudgetTypes, Budget
<1>2. Solvent /\ Balanced /\ \A c \in Budgeted : Accounted(c)
  BY DEF Conserved
<1> QED
  BY <1>1, <1>2 DEF BudgetConserved, Solvent, Balanced, Accounted

LEMMA InitConserves == SpendingInit => BudgetTypes /\ Conserved
<1> SUFFICES ASSUME SpendingInit PROVE BudgetTypes /\ Conserved
  OBVIOUS
<1>1. BudgetTypes
  <2>1. <<>> \in Seq(Row) /\ <<>> \in Seq(Nat)
    OBVIOUS
  <2>2. budget \in Budget
    BY SpendingAssumption DEF SpendingInit, NewBudget, Budget
  <2>3. history \in History
    BY <2>1 DEF SpendingInit, History, Zeroes
  <2> QED
    BY <2>1, <2>2, <2>3 DEF SpendingInit, BudgetTypes
<1>2. \A c \in Budgeted : Spent(c) = 0 /\ history.charged[c] = 0
  BY SpendingAssumption DEF SpendingInit, Spent, NewBudget, Zeroes
<1>3. budget.total - budget.remaining = 0 /\ budget.remaining = budget.total
  BY SpendingAssumption DEF SpendingInit, NewBudget
<1> QED
  BY <1>1, <1>2, <1>3 DEF Conserved, Solvent, Balanced, Accounted, Budgeted, Arm

(* Steps that leave the budget and what was charged to it alone.           *)
LEMMA OthersConserve ==
  ASSUME Conserved, budget' = budget, history'.charged = history.charged
  PROVE  Conserved'
BY DEF Conserved, Solvent, Balanced, Accounted, Spent

LEMMA ResetConserves ==
  ASSUME BudgetTypes, NEW n \in Totals, BudgetReset(n)
  PROVE  BudgetTypes' /\ Conserved'
<1>1. budget' = NewBudget(n) /\ history'.charged = Zeroes(Budgeted)
  BY DEF BudgetReset, BudgetTypes, History
<1>2. BudgetTypes'
  <2>1. n \in Int /\ ChannelLimit \in [Budgeted -> Nat]
    BY SpendingAssumption
  <2>2. budget' \in Budget
    BY <1>1, <2>1 DEF NewBudget, Budget
  <2>3. history' \in History
    <3>1. Zeroes(Budgeted) \in [Budgeted -> Nat] /\ history.resets + 1 \in Nat
      BY DEF Zeroes, BudgetTypes, History
    <3>2. history' = [history EXCEPT !.resets = @ + 1, !.charged = Zeroes(Budgeted)]
      BY DEF BudgetReset
    <3> QED
      BY <3>1, <3>2 DEF BudgetTypes, History
  <2> QED
    BY <2>2, <2>3 DEF BudgetReset, BudgetTypes
<1>3. \A c \in Budgeted : Spent(c)' = 0 /\ history'.charged[c] = 0
  BY <1>1, SpendingAssumption DEF Spent, NewBudget, Zeroes
<1>4. budget'.total - budget'.remaining = 0 /\ budget'.remaining = budget'.total
  BY <1>1, SpendingAssumption DEF NewBudget
<1> QED
  BY <1>2, <1>3, <1>4 DEF Conserved, Solvent, Balanced, Accounted, Budgeted, Arm

LEMMA FeedingKeepsTypes ==
  ASSUME BudgetTypes, FeedRow
  PROVE  BudgetTypes'
<1> DEFINE c == Head(reading).channel
<1>1. Head(reading) \in Row /\ Tail(reading) \in Seq(Row)
  BY DEF BudgetTypes, FeedRow
<1>2. reading' = Tail(reading) /\ executedRows' = executedRows /\ budget' = Spend(c)
  BY DEF FeedRow
<1>3. budget' \in Budget
  <2>1. CASE CanSpend(c)
    <3>1. /\ c \in Budgeted /\ budget.remaining - 1 \in Int
          /\ budget.channel[c] - 1 \in Nat
      BY <2>1 DEF CanSpend, BudgetTypes, Budget
    <3>2. budget' = [budget EXCEPT !.remaining = @ - 1, !.channel[c] = @ - 1]
      BY <1>2, <2>1 DEF Spend
    <3> QED
      BY <3>1, <3>2 DEF BudgetTypes, Budget
  <2>2. CASE ~CanSpend(c)
    BY <1>2, <2>2 DEF Spend, BudgetTypes
  <2> QED
    BY <2>1, <2>2
<1>4. history' \in History
  <2>1. history' = IF c \in Budgeted
                   THEN [history EXCEPT !.charged[c] = @ + 1] ELSE history
    BY DEF FeedRow
  <2>2. c \in Budgeted => history.charged[c] + 1 \in Nat
    BY DEF BudgetTypes, History
  <2> QED
    BY <2>1, <2>2 DEF BudgetTypes, History
<1> QED
  BY <1>1, <1>2, <1>3, <1>4 DEF BudgetTypes

LEMMA FeedingConserves ==
  ASSUME BudgetTypes, Conserved, FeedRow
  PROVE  Conserved'
<1> DEFINE c == Head(reading).channel
<1>1. budget' = Spend(c)
  BY DEF FeedRow
<1>2. CASE c \notin Budgeted
  <2>1. budget' = budget /\ history' = history
    BY <1>1, <1>2 DEF FeedRow, Spend, CanSpend
  <2> QED
    BY <2>1, OthersConserve
<1>3. CASE c \in Budgeted /\ ~CanSpend(c)
  <2>1. budget' = budget /\ (budget.channel[c] = 0 \/ budget.remaining <= 0)
    BY <1>1, <1>3 DEF Spend, CanSpend, BudgetTypes, Budget
  <2>2. history'.charged = [history.charged EXCEPT ![c] = @ + 1]
    BY <1>3 DEF FeedRow, BudgetTypes, History
  <2>3. \A d \in Budgeted : Spent(d) \in Int
    BY SpendingAssumption DEF Spent, BudgetTypes, Budget
  <2>4. \A d \in Budgeted : Accounted(d)'
    <3> SUFFICES ASSUME NEW d \in Budgeted PROVE Accounted(d)'
      OBVIOUS
    <3>1. Accounted(d) /\ Spent(d)' = Spent(d)
      BY <2>1 DEF Conserved, Spent
    <3>2. history.charged[d] \in Nat
      BY DEF BudgetTypes, History
    <3>3. CASE d = c
      <4>1. history'.charged[d] = history.charged[d] + 1
        BY <2>2, <3>3, <1>3 DEF BudgetTypes, History
      <4>2. Spent(d)' < history'.charged[d]
        BY <3>1, <3>2, <4>1, <2>3 DEF Accounted
      <4> QED
        BY <4>2, <2>1, <3>3 DEF Accounted
    <3>4. CASE d # c
      BY <2>1, <2>2, <3>1, <3>4 DEF Accounted, BudgetTypes, History
    <3> QED
      BY <3>3, <3>4
  <2> QED
    BY <2>1, <2>4 DEF Conserved, Solvent, Balanced, Spent
<1>4. CASE CanSpend(c)
  <2>1. /\ c \in Budgeted /\ budget.remaining >= 1 /\ budget.channel[c] >= 1
        /\ budget'.total = budget.total /\ budget'.remaining = budget.remaining - 1
        /\ budget'.channel = [budget.channel EXCEPT ![c] = @ - 1]
    BY <1>1, <1>4 DEF Spend, CanSpend, BudgetTypes, Budget
  <2>2. history'.charged = [history.charged EXCEPT ![c] = @ + 1]
    BY <2>1 DEF FeedRow, BudgetTypes, History
  <2>3. \A d \in Budgeted : Spent(d)' = IF d = c THEN Spent(d) + 1 ELSE Spent(d)
    BY <2>1, SpendingAssumption DEF Spent, BudgetTypes, Budget
  <2>4. \A d \in Budgeted : Spent(d) \in Int
    BY SpendingAssumption DEF Spent, BudgetTypes, Budget
  <2>5. \A d \in Budgeted : Accounted(d)'
    <3> SUFFICES ASSUME NEW d \in Budgeted PROVE Accounted(d)'
      OBVIOUS
    <3>1. Accounted(d)
      BY DEF Conserved
    <3>2. CASE d = c
      BY <2>1, <2>2, <2>3, <2>4, <3>1, <3>2 DEF Accounted, BudgetTypes, Budget, History
    <3>3. CASE d # c
      BY <2>1, <2>2, <2>3, <2>4, <3>1, <3>3 DEF Accounted, BudgetTypes, Budget, History
    <3> QED
      BY <3>2, <3>3
  <2>6. Balanced'
    <3>1. {budget.total, budget.remaining} \subseteq Int /\ Balanced
      BY DEF Conserved, BudgetTypes, Budget
    <3> QED
      BY <2>1, <2>3, <2>4, <3>1 DEF Balanced, Budgeted, Arm
  <2>7. Solvent'
    BY <2>1 DEF Solvent, BudgetTypes, Budget
  <2> QED
    BY <2>5, <2>6, <2>7 DEF Conserved
<1> QED
  BY <1>2, <1>3, <1>4

LEMMA StepsConserve ==
  BudgetTypes /\ Conserved /\ [SpendingNext]_spendingVars => BudgetTypes' /\ Conserved'
<1> SUFFICES ASSUME BudgetTypes, Conserved, [SpendingNext]_spendingVars
             PROVE  BudgetTypes' /\ Conserved'
  OBVIOUS
<1>1. CASE RunBatch
  <2>1. PICK n \in 0 .. 2 : \E new \in [1 .. n -> Row] :
          executedRows' = executedRows \o new /\ reading' = RowsRead(new)
    BY <1>1 DEF RunBatch, Row
  <2>2. PICK new \in [1 .. n -> Row] :
          executedRows' = executedRows \o new /\ reading' = RowsRead(new)
    BY <2>1
  <2>3. new \in Seq(Row)
    OBVIOUS
  <2>4. executedRows' \in Seq(Row) /\ reading' \in Seq(Row)
    BY <2>2, <2>3 DEF BudgetTypes, RowsRead
  <2>5. /\ budget' = budget /\ history'.charged = history.charged
        /\ history' \in History
    <3>1. /\ Append(history.reads, Len(executedRows')) \in Seq(Nat)
          /\ history' = [history EXCEPT !.reads = Append(@, Len(executedRows'))]
      BY <2>4, <1>1 DEF RunBatch, BudgetTypes, History
    <3> QED
      BY <1>1, <3>1 DEF RunBatch, BudgetTypes, History
  <2> QED
    BY <2>4, <2>5, OthersConserve DEF BudgetTypes
<1>2. CASE FeedRow
  BY <1>2, FeedingKeepsTypes, FeedingConserves
<1>3. CASE \E c \in Executed \cap Arm, b \in BOOLEAN : BanditUpdate(c, b)
  <2>1. PICK c \in Arm, b \in BOOLEAN : BanditUpdate(c, b)
    BY <1>3
  <2>2. /\ executedRows' = executedRows /\ reading' = reading /\ budget' = budget
        /\ history' = [history EXCEPT !.direct[c] = @ + 1]
    BY <2>1 DEF BanditUpdate
  <2>3. history.direct[c] + 1 \in Nat
    BY DEF BudgetTypes, History
  <2>4. history' \in History /\ history'.charged = history.charged
    BY <2>2, <2>3 DEF BudgetTypes, History
  <2> QED
    BY <2>2, <2>4, OthersConserve DEF BudgetTypes
<1>4. CASE \E n \in Totals : BudgetReset(n)
  BY <1>4, ResetConserves
<1>5. CASE \E c \in Executed : ExecuteLive(c)
  <2>1. PICK c \in Executed : ExecuteLive(c)
    BY <1>5
  <2>2. executedRows' \in Seq(Row)
    BY <2>1 DEF ExecuteLive, BudgetTypes, Row
  <2>3. reading' = reading /\ budget' = budget /\ history' = history
    BY <2>1 DEF ExecuteLive
  <2> QED
    BY <2>2, <2>3, OthersConserve DEF BudgetTypes
<1>6. CASE \E i \in DOMAIN executedRows : CasePaid(i)
  <2>1. PICK i \in DOMAIN executedRows : CasePaid(i)
    BY <1>6
  <2>2. executedRows[i] \in Row
    BY DEF BudgetTypes
  <2>3. executedRows' \in Seq(Row)
    <3>1. [executedRows[i] EXCEPT !.recovered = TRUE] \in Row
      BY <2>2 DEF Row
    <3>2. executedRows' = [executedRows EXCEPT ![i] = [executedRows[i] EXCEPT !.recovered = TRUE]]
      BY <2>1 DEF CasePaid
    <3> QED
      BY <3>1, <3>2, <2>1 DEF BudgetTypes
  <2>4. reading' = reading /\ budget' = budget /\ history' = history
    BY <2>1 DEF CasePaid
  <2> QED
    BY <2>3, <2>4, OthersConserve DEF BudgetTypes
<1>7. CASE UNCHANGED spendingVars
  BY <1>7, OthersConserve DEF BudgetTypes, spendingVars
<1> QED
  BY <1>1, <1>2, <1>3, <1>4, <1>5, <1>6, <1>7 DEF SpendingNext

(* For every budget, whatever resets fall between the rows of a batch:     *)
(* no channel goes negative, nor the budget unless it was made so, the     *)
(* total pays for the channels, and what was charged is paid unless its    *)
(* channel or the budget is used up.                                       *)
THEOREM SpendingConserves == SpendingSpec => []BudgetConserved
<1>1. SpendingInit => BudgetTypes /\ Conserved
  BY InitConserves
<1>2. BudgetTypes /\ Conserved /\ [SpendingNext]_spendingVars => BudgetTypes' /\ Conserved'
  BY StepsConserve
<1>3. BudgetTypes /\ Conserved => BudgetConserved
  BY ConservedIsEnough
<1> QED
  BY <1>1, <1>2, <1>3, PTL DEF SpendingSpec

-----------------------------------------------------------------------------
(***************************************************************************)
(* The bandit's counts: a batch adds to what is still to be fed the uses   *)
(* of the rows it has read, and neither the channels of the rows read nor  *)
(* those before them ever change.                                          *)
(***************************************************************************)

Counts(c) == [b \in DOMAIN history.reads |-> Uses(c, history.reads[b])]

PulledFrom == [pulls : Nat, recoveries : Nat]

ReadsBehind == \A b \in DOMAIN history.reads : history.reads[b] <= Len(executedRows)

CountsInv ==
  BudgetTypes /\ arms \in [Arm -> PulledFrom] /\ ReadsBehind /\ CountedInEveryBatch

LEMMA UsesType ==
  ASSUME NEW c, NEW n \in Nat
  PROVE  Uses(c, n) \in Nat
<1> DEFINE S == {i \in 1 .. n : executedRows[i].channel = c}
<1>1. IsFiniteSet(1 .. n) /\ S \subseteq 1 .. n
  BY FS_Interval
<1> HIDE DEF S
<1>2. Cardinality(S) \in Nat
  BY <1>1, FS_Subset, FS_CardinalityType
<1> QED
  BY <1>2 DEF Uses, S

LEMMA CountsType ==
  ASSUME BudgetTypes, NEW c
  PROVE  Counts(c) \in Seq(Int) /\ Len(Counts(c)) = Len(history.reads)
<1>1. history.reads \in Seq(Nat)
  BY DEF BudgetTypes, History
<1>2. /\ Len(history.reads) \in Nat /\ DOMAIN history.reads = 1 .. Len(history.reads)
      /\ \A b \in DOMAIN history.reads : history.reads[b] \in Nat
  BY <1>1
<1>3. Counts(c) \in [1 .. Len(history.reads) -> Int]
  BY <1>2, UsesType DEF Counts
<1> QED
  BY <1>2, <1>3, SeqOfInt

LEMMA ToFeedType ==
  ASSUME BudgetTypes, NEW c
  PROVE  StillToFeed(c) \in Nat
<1> DEFINE S == {i \in DOMAIN reading : reading[i].channel = c}
<1>1. reading \in Seq(Row)
  BY DEF BudgetTypes
<1>2. DOMAIN reading = 1 .. Len(reading) /\ Len(reading) \in Nat
  BY <1>1
<1>3. IsFiniteSet(DOMAIN reading) /\ S \subseteq DOMAIN reading
  BY <1>2, FS_Interval
<1> HIDE DEF S
<1>4. Cardinality(S) \in Nat
  BY <1>3, FS_Subset, FS_CardinalityType
<1> QED
  BY <1>4 DEF StillToFeed, S

(* Rows only come, and keep their channels.                                *)
RowsKept ==
  /\ Len(executedRows) <= Len(executedRows')
  /\ \A i \in 1 .. Len(executedRows) : executedRows'[i].channel = executedRows[i].channel

LEMMA UsesKept ==
  ASSUME BudgetTypes, RowsKept, NEW c, NEW n \in Nat, n <= Len(executedRows)
  PROVE  Uses(c, n)' = Uses(c, n)
<1>1. Len(executedRows) \in Nat
  BY DEF BudgetTypes
<1>2. \A i \in 1 .. n : executedRows'[i].channel = executedRows[i].channel
  BY <1>1 DEF RowsKept
<1>3. {i \in 1 .. n : executedRows'[i].channel = c} = {i \in 1 .. n : executedRows[i].channel = c}
  BY <1>2
<1> QED
  BY <1>3 DEF Uses

LEMMA CountsKept ==
  ASSUME CountsInv, RowsKept, history'.reads = history.reads, NEW c
  PROVE  Counts(c)' = Counts(c)
<1>1. \A b \in DOMAIN history.reads :
        history.reads[b] \in Nat /\ history.reads[b] <= Len(executedRows)
  BY DEF CountsInv, ReadsBehind, BudgetTypes, History
<1>2. \A b \in DOMAIN history.reads : Uses(c, history.reads[b])' = Uses(c, history.reads[b])
  <2> TAKE b \in DOMAIN history.reads
  <2>1. PICK n \in Nat : n = history.reads[b] /\ n <= Len(executedRows)
    BY <1>1
  <2>2. Uses(c, n)' = Uses(c, n)
    BY <2>1, UsesKept DEF CountsInv
  <2>3. history'.reads[b] = n
    BY <2>1
  <2> QED
    BY <2>1, <2>2, <2>3 DEF Uses
<1> QED
  BY <1>2 DEF Counts

LEMMA RowsOfStep ==
  ASSUME BudgetTypes, [SpendingNext]_spendingVars
  PROVE  RowsKept
<1>1. executedRows \in Seq(Row) /\ Len(executedRows) \in Nat
  BY DEF BudgetTypes
<1>2. ASSUME executedRows' = executedRows PROVE RowsKept
  BY <1>1, <1>2 DEF RowsKept
<1>3. ASSUME NEW n \in 0 .. 2, NEW new \in [1 .. n -> Row], executedRows' = executedRows \o new
      PROVE  RowsKept
  <2>1. new \in Seq(Row) /\ Len(new) = n
    OBVIOUS
  <2> QED
    BY <1>1, <1>3, <2>1 DEF RowsKept
<1>4. ASSUME NEW x, executedRows' = Append(executedRows, x) PROVE RowsKept
  BY <1>1, <1>4 DEF RowsKept
<1>5. ASSUME NEW i \in DOMAIN executedRows, CasePaid(i) PROVE RowsKept
  <2>1. executedRows' = [executedRows EXCEPT ![i].recovered = TRUE]
    BY <1>5 DEF CasePaid
  <2>2. \A j \in 1 .. Len(executedRows) : executedRows[j] \in Row
    BY <1>1
  <2>3. Len(executedRows') = Len(executedRows)
    BY <1>1, <2>1
  <2>4. \A j \in 1 .. Len(executedRows) : executedRows'[j].channel = executedRows[j].channel
    BY <1>1, <2>1, <2>2 DEF Row
  <2> QED
    BY <1>1, <2>3, <2>4 DEF RowsKept
<1> QED
  BY <1>2, <1>3, <1>4, <1>5 DEF SpendingNext, spendingVars, RunBatch, FeedRow, BanditUpdate,
     BudgetReset, ExecuteLive, Row

(* Feeding a row leaves one less of its channel.                           *)
LEMMA TailUses ==
  ASSUME NEW s \in Seq(Row), s # <<>>, NEW c
  PROVE  Cardinality({i \in DOMAIN s : s[i].channel = c})
           = Cardinality({i \in DOMAIN Tail(s) : Tail(s)[i].channel = c})
             + IF Head(s).channel = c THEN 1 ELSE 0
<1> DEFINE rest == Tail(s)
           S == {i \in DOMAIN rest : rest[i].channel = c}
           T == {i \in DOMAIN s : i > 1 /\ s[i].channel = c}
           f == [i \in S |-> i + 1]
<1>1. /\ Len(s) \in Nat /\ Len(s) > 0 /\ DOMAIN s = 1 .. Len(s)
      /\ DOMAIN rest = 1 .. Len(s) - 1 /\ Head(s) = s[1]
      /\ \A i \in 1 .. Len(s) - 1 : rest[i] = s[i + 1]
  OBVIOUS
<1> HIDE DEF rest
<1>2. IsFiniteSet(S)
  <2>1. IsFiniteSet(DOMAIN rest) /\ S \subseteq DOMAIN rest
    BY <1>1, FS_Interval
  <2> HIDE DEF S
  <2> QED
    BY <2>1, FS_Subset
<1>3. f \in [S -> T] /\ \A x, y \in S : f[x] = f[y] => x = y
  <2>1. \A i \in S : i \in Nat /\ i + 1 \in T
    BY <1>1
  <2> QED
    BY <2>1
<1>4. \A z \in T : \E x \in S : f[x] = z
  <2> TAKE z \in T
  <2>1. z - 1 \in S /\ (z - 1) + 1 = z
    BY <1>1
  <2> QED
    BY <2>1
<1>5. IsFiniteSet(T) /\ Cardinality(T) = Cardinality(S)
  <2> HIDE DEF S, T, f
  <2> QED
    BY <1>2, <1>3, <1>4, SameSize
<1> DEFINE all == {i \in DOMAIN s : s[i].channel = c}
<1>6. 1 \notin T /\ all = IF Head(s).channel = c THEN T \cup {1} ELSE T
  BY <1>1
<1>7. Cardinality(S) \in Nat
  BY <1>2, FS_CardinalityType
<1>8. Cardinality(T \cup {1}) = Cardinality(T) + 1
  <2> HIDE DEF T
  <2> QED
    BY <1>5, <1>6, FS_AddElement
<1> HIDE DEF T, S, all
<1>9. Cardinality(all) = Cardinality(S) + IF Head(s).channel = c THEN 1 ELSE 0
  BY <1>5, <1>6, <1>7, <1>8
<1> QED
  BY <1>9 DEF all, S, rest

LEMMA PulledFacts ==
  ASSUME arms \in [Arm -> PulledFrom], NEW channel, NEW recovered \in BOOLEAN
  PROVE  /\ Pulled(channel, recovered) \in [Arm -> PulledFrom]
         /\ \A c \in Arm :
              /\ Pulled(channel, recovered)[c].pulls
                   = arms[c].pulls + IF channel = c THEN 1 ELSE 0
              /\ arms[c].recoveries <= arms[c].pulls =>
                   Pulled(channel, recovered)[c].recoveries <= Pulled(channel, recovered)[c].pulls
<1>1. CASE channel \notin Arm
  BY <1>1 DEF Pulled, PulledFrom
<1>2. CASE channel \in Arm
  <2> DEFINE old == arms[channel]
             new == [pulls |-> old.pulls + 1,
                     recoveries |-> old.recoveries + IF recovered THEN 1 ELSE 0]
  <2>1. old.pulls \in Nat /\ old.recoveries \in Nat
    BY <1>2 DEF PulledFrom
  <2>2. new \in PulledFrom /\ Pulled(channel, recovered) = [arms EXCEPT ![channel] = new]
    BY <1>2, <2>1 DEF Pulled, PulledFrom
  <2>3. new.pulls = old.pulls + 1 /\ (old.recoveries <= old.pulls => new.recoveries <= new.pulls)
    BY <2>1
  <2> HIDE DEF new
  <2>4. Pulled(channel, recovered) \in [Arm -> PulledFrom]
    BY <2>2
  <2>5. \A c \in Arm : Pulled(channel, recovered)[c] = IF c = channel THEN new ELSE arms[c]
    BY <2>2
  <2>6. \A c \in Arm : arms[c].pulls \in Nat
    BY DEF PulledFrom
  <2> QED
    BY <2>3, <2>4, <2>5, <2>6
<1> QED
  BY <1>1, <1>2

UsesIn(rows, c, n) == Cardinality({i \in 1 .. n : rows[i].channel = c})
CountsIn(rows, reads, c) == [b \in DOMAIN reads |-> UsesIn(rows, c, reads[b])]

LEMMA UsesInType ==
  ASSUME NEW rows, NEW c, NEW n \in Nat
  PROVE  UsesIn(rows, c, n) \in Nat
<1> DEFINE S == {i \in 1 .. n : rows[i].channel = c}
<1>1. IsFiniteSet(1 .. n) /\ S \subseteq 1 .. n
  BY FS_Interval
<1> HIDE DEF S
<1>2. Cardinality(S) \in Nat
  BY <1>1, FS_Subset, FS_CardinalityType
<1> QED
  BY <1>2 DEF UsesIn, S

LEMMA CountsAppended ==
  ASSUME NEW rows, NEW more, NEW reads \in Seq(Nat), NEW last \in Nat, NEW c,
         \A b \in DOMAIN reads : UsesIn(more, c, reads[b]) = UsesIn(rows, c, reads[b])
  PROVE  CountsIn(more, Append(reads, last), c)
           = Append(CountsIn(rows, reads, c), UsesIn(more, c, last))
<1> DEFINE old == CountsIn(rows, reads, c)
           new == CountsIn(more, Append(reads, last), c)
           k == Len(reads)
           now == UsesIn(more, c, last)
<1>1. /\ k \in Nat /\ DOMAIN reads = 1 .. k /\ DOMAIN Append(reads, last) = 1 .. k + 1
      /\ Append(reads, last)[k + 1] = last
      /\ \A b \in 1 .. k : Append(reads, last)[b] = reads[b]
  OBVIOUS
<1>2. /\ old = [b \in 1 .. k |-> old[b]]
      /\ new = [b \in 1 .. k + 1 |-> new[b]]
  BY <1>1 DEF CountsIn
<1>3. \A b \in 1 .. k : new[b] = old[b]
  <2> TAKE b \in 1 .. k
  <2>1. old[b] = UsesIn(rows, c, reads[b])
    BY <1>1 DEF CountsIn
  <2>2. new[b] = UsesIn(more, c, reads[b])
    BY <1>1 DEF CountsIn
  <2> QED
    BY <1>1, <2>1, <2>2
<1>4. new[k + 1] = now
  BY <1>1 DEF CountsIn
<1> HIDE DEF old, new, k, now
<1>5. old \in Seq(Nat) /\ Len(old) = k /\ now \in Nat
  <2>1. \A b \in 1 .. k : UsesIn(rows, c, reads[b]) \in Nat
    BY <1>1, UsesInType
  <2>2. old \in [1 .. k -> Nat]
    BY <1>1, <2>1 DEF CountsIn, old
  <2>3. now \in Nat
    BY UsesInType DEF now
  <2> QED
    BY <1>1, <2>2, <2>3
<1> DEFINE all == Append(old, now)
<1>6. /\ all \in Seq(Nat) /\ Len(all) = k + 1 /\ all[k + 1] = now
      /\ \A b \in 1 .. k : all[b] = old[b]
  BY <1>5, AppendProperties
<1> HIDE DEF all
<1>7. all = [b \in 1 .. k + 1 |-> all[b]]
  BY <1>6
<1>8. new = all
  <2>1. \A b \in 1 .. k + 1 : new[b] = all[b]
    BY <1>1, <1>3, <1>4, <1>6
  <2> QED
    BY <1>2, <1>7, <2>1
<1> QED
  BY <1>8 DEF all, old, new, now

LEMMA BatchCounts ==
  ASSUME CountsInv, RunBatch, BudgetTypes', RowsKept
  PROVE  CountsInv'
<1> DEFINE last == Len(executedRows')
<1>1. PICK new : executedRows' = executedRows \o new /\ reading' = RowsRead(new)
  BY DEF RunBatch
<1>2. /\ reading = <<>> /\ arms' = arms /\ reading' = executedRows'
      /\ history' = [history EXCEPT !.reads = Append(@, last)]
  BY <1>1 DEF RunBatch, RowsRead
<1>3. last \in Nat /\ DOMAIN executedRows' = 1 .. last /\ Len(executedRows) <= last
  BY DEF BudgetTypes, RowsKept
<1> HIDE DEF last
<1>4. /\ history.reads \in Seq(Nat) /\ Len(history.reads) \in Nat
      /\ DOMAIN history.reads = 1 .. Len(history.reads)
      /\ history'.reads = Append(history.reads, last) /\ history'.direct = history.direct
  BY <1>2 DEF CountsInv, BudgetTypes, History
<1>5. /\ DOMAIN history'.reads = 1 .. Len(history.reads) + 1
      /\ history'.reads[Len(history.reads) + 1] = last
      /\ \A b \in DOMAIN history.reads : history'.reads[b] = history.reads[b]
  BY <1>3, <1>4
<1>6. ReadsBehind'
  <2> SUFFICES ASSUME NEW b \in DOMAIN history'.reads PROVE history'.reads[b] <= last
    BY DEF ReadsBehind, last
  <2>1. CASE b = Len(history.reads) + 1
    BY <1>3, <1>5, <2>1
  <2>2. CASE b \in DOMAIN history.reads
    <3>1. history.reads[b] \in Nat /\ history.reads[b] <= Len(executedRows)
      BY <1>4, <2>2 DEF CountsInv, ReadsBehind
    <3>2. Len(executedRows) \in Nat
      BY DEF CountsInv, BudgetTypes
    <3> QED
      BY <1>3, <1>5, <2>2, <3>1, <3>2
  <2> QED
    BY <1>4, <1>5, <2>1, <2>2
<1>7. ASSUME NEW c \in Arm
      PROVE  Counts(c)' = Append(Counts(c), UsesIn(executedRows', c, last))
  <2>1. \A b \in DOMAIN history.reads :
          UsesIn(executedRows', c, history.reads[b]) = UsesIn(executedRows, c, history.reads[b])
    <3> TAKE b \in DOMAIN history.reads
    <3>1. PICK m \in Nat : m = history.reads[b] /\ m <= Len(executedRows)
      BY <1>4 DEF CountsInv, ReadsBehind
    <3>2. Uses(c, m)' = Uses(c, m)
      BY <3>1, UsesKept DEF CountsInv
    <3> QED
      BY <3>1, <3>2 DEF Uses, UsesIn
  <2>2. /\ Counts(c)' = CountsIn(executedRows', history'.reads, c)
        /\ Counts(c) = CountsIn(executedRows, history.reads, c)
    BY DEF Counts, CountsIn, Uses, UsesIn
  <2>3. CountsIn(executedRows', Append(history.reads, last), c)
          = Append(CountsIn(executedRows, history.reads, c), UsesIn(executedRows', c, last))
    <3>1. PICK rows, more, reads, m :
            rows = executedRows /\ more = executedRows' /\ reads = history.reads /\ m = last
      OBVIOUS
    <3>2. \A b \in DOMAIN reads : UsesIn(more, c, reads[b]) = UsesIn(rows, c, reads[b])
      BY <2>1, <3>1
    <3>3. reads \in Seq(Nat) /\ m \in Nat
      BY <1>3, <1>4, <3>1
    <3>4. CountsIn(more, Append(reads, m), c)
            = Append(CountsIn(rows, reads, c), UsesIn(more, c, m))
      BY <3>2, <3>3, CountsAppended
    <3> QED
      BY <3>1, <3>4
  <2> QED
    BY <1>4, <2>2, <2>3
<1>8. ASSUME NEW c \in Arm
      PROVE  /\ arms'[c].pulls + StillToFeed(c)' = history'.direct[c] + Total(Counts(c))'
             /\ arms'[c].recoveries <= arms'[c].pulls
  <2> DEFINE now == UsesIn(executedRows', c, last)
             total == Total(Counts(c))
  <2>1. StillToFeed(c)' = now
    BY <1>2, <1>3 DEF StillToFeed, UsesIn
  <2>2. StillToFeed(c) = 0
    <3>1. {i \in DOMAIN reading : reading[i].channel = c} = {}
      BY <1>2
    <3> QED
      BY <3>1, FS_EmptySet DEF StillToFeed
  <2>3. now \in Nat
    BY <1>3, UsesInType
  <2>4. Counts(c) \in Seq(Int) /\ total \in Int
    BY CountsType, SumsType DEF CountsInv
  <2>5. Total(Counts(c))' = total + now
    <3> HIDE DEF now
    <3>1. Total(Append(Counts(c), now)) = Total(Counts(c)) + now
      BY <2>3, <2>4, TotalOfAppend
    <3>2. Counts(c)' = Append(Counts(c), now)
      BY <1>7 DEF now
    <3> QED
      BY <3>1, <3>2
  <2>6. arms[c].pulls + StillToFeed(c) = history.direct[c] + total
    BY DEF CountsInv, CountedInEveryBatch, Counts
  <2>7. arms[c].pulls \in Nat /\ history.direct[c] \in Nat
    BY DEF CountsInv, PulledFrom, BudgetTypes, History
  <2> HIDE DEF now, total
  <2>8. arms[c].pulls + now = history.direct[c] + (total + now)
    BY <2>2, <2>3, <2>4, <2>6, <2>7
  <2> QED
    BY <1>2, <1>4, <2>1, <2>5, <2>8 DEF CountsInv, CountedInEveryBatch
<1> QED
  BY <1>2, <1>6, <1>8 DEF CountsInv, CountedInEveryBatch, Counts

LEMMA FeedingCounts ==
  ASSUME CountsInv, FeedRow, RowsKept
  PROVE  arms' \in [Arm -> PulledFrom] /\ ReadsBehind' /\ CountedInEveryBatch'
<1> DEFINE a == Head(reading)
<1>1. /\ reading \in Seq(Row) /\ reading # <<>> /\ a \in Row
      /\ reading' = Tail(reading) /\ executedRows' = executedRows
      /\ arms' = Pulled(a.channel, a.recovered)
  BY DEF CountsInv, BudgetTypes, FeedRow
<1>2. history'.reads = history.reads /\ history'.direct = history.direct
  BY DEF FeedRow, CountsInv, BudgetTypes, History
<1>3. a.recovered \in BOOLEAN /\ arms \in [Arm -> PulledFrom]
  BY <1>1 DEF Row, CountsInv
<1> HIDE DEF a
<1>4. /\ arms' \in [Arm -> PulledFrom]
      /\ \A c \in Arm :
           /\ arms'[c].pulls = arms[c].pulls + IF a.channel = c THEN 1 ELSE 0
           /\ arms[c].recoveries <= arms[c].pulls => arms'[c].recoveries <= arms'[c].pulls
  BY <1>1, <1>3, PulledFacts
<1>5. ASSUME NEW c \in Arm
      PROVE  arms'[c].pulls + StillToFeed(c)' = history'.direct[c] + Total(Counts(c))'
  <2>1. Counts(c)' = Counts(c)
    BY <1>2, CountsKept
  <2> DEFINE left == StillToFeed(c)'
             had == StillToFeed(c)
             total == Total(Counts(c))
             one == IF a.channel = c THEN 1 ELSE 0
  <2>2. had = left + one
    <3>1. PICK s \in Seq(Row) : s = reading
      BY <1>1
    <3>2. Cardinality({i \in DOMAIN s : s[i].channel = c})
            = Cardinality({i \in DOMAIN Tail(s) : Tail(s)[i].channel = c})
              + IF Head(s).channel = c THEN 1 ELSE 0
      BY <1>1, <3>1, TailUses
    <3>3. had = Cardinality({i \in DOMAIN s : s[i].channel = c})
      BY <3>1 DEF StillToFeed
    <3>4. left = Cardinality({i \in DOMAIN Tail(s) : Tail(s)[i].channel = c})
      BY <1>1, <3>1 DEF StillToFeed
    <3>5. one = IF Head(s).channel = c THEN 1 ELSE 0
      BY <3>1 DEF a
    <3> HIDE DEF had, left, one
    <3> QED
      BY <3>2, <3>3, <3>4, <3>5
  <2>3. left \in Nat
    <3>1. {i \in DOMAIN Tail(reading) : Tail(reading)[i].channel = c} \subseteq 1 .. Len(reading)
      BY <1>1
    <3>2. IsFiniteSet(1 .. Len(reading))
      BY <1>1, FS_Interval
    <3>3. left = Cardinality({i \in DOMAIN Tail(reading) : Tail(reading)[i].channel = c})
      BY <1>1 DEF StillToFeed
    <3> QED
      BY <3>1, <3>2, <3>3, FS_Subset, FS_CardinalityType
  <2>4. arms[c].pulls + had = history.direct[c] + total /\ total \in Int
    BY CountsType, SumsType DEF CountsInv, CountedInEveryBatch, Counts
  <2>5. arms[c].pulls \in Nat /\ history.direct[c] \in Nat /\ arms'[c].pulls = arms[c].pulls + one
    BY <1>4 DEF CountsInv, PulledFrom, BudgetTypes, History
  <2>6. one \in Nat
    OBVIOUS
  <2>7. Total(Counts(c))' = total
    BY <2>1
  <2> HIDE DEF left, had, total, one
  <2>8. arms'[c].pulls + left = history'.direct[c] + total
    BY <1>2, <2>2, <2>3, <2>4, <2>5, <2>6
  <2> QED
    BY <2>7, <2>8 DEF left
<1>6. ReadsBehind'
  BY <1>1, <1>2 DEF CountsInv, ReadsBehind
<1> QED
  BY <1>4, <1>5, <1>6 DEF CountsInv, CountedInEveryBatch, Counts

LEMMA UpdateCounts ==
  ASSUME CountsInv, NEW d \in Arm, NEW b \in BOOLEAN, BanditUpdate(d, b), RowsKept
  PROVE  arms' \in [Arm -> PulledFrom] /\ ReadsBehind' /\ CountedInEveryBatch'
<1>1. /\ executedRows' = executedRows /\ reading' = reading
      /\ arms' = Pulled(d, b) /\ history' = [history EXCEPT !.direct[d] = @ + 1]
  BY DEF BanditUpdate
<1>2. /\ history'.reads = history.reads
      /\ \A c \in Arm : history'.direct[c] = history.direct[c] + IF c = d THEN 1 ELSE 0
      /\ \A c \in Arm : history.direct[c] \in Nat
  BY <1>1 DEF CountsInv, BudgetTypes, History
<1>3. /\ arms' \in [Arm -> PulledFrom]
      /\ \A c \in Arm :
           /\ arms'[c].pulls = arms[c].pulls + IF d = c THEN 1 ELSE 0
           /\ arms[c].recoveries <= arms[c].pulls => arms'[c].recoveries <= arms'[c].pulls
  BY <1>1, PulledFacts DEF CountsInv
<1>4. ASSUME NEW c \in Arm
      PROVE  arms'[c].pulls + StillToFeed(c)' = history'.direct[c] + Total(Counts(c))'
  <2> DEFINE left == StillToFeed(c)
             total == Total(Counts(c))
  <2>1. Total(Counts(c))' = total
    BY <1>2, CountsKept
  <2>2. StillToFeed(c)' = left
    BY <1>1 DEF StillToFeed
  <2>3. arms[c].pulls + left = history.direct[c] + total /\ total \in Int /\ left \in Nat
    BY CountsType, SumsType, ToFeedType DEF CountsInv, CountedInEveryBatch, Counts
  <2>4. arms[c].pulls \in Nat
    BY DEF CountsInv, PulledFrom
  <2> HIDE DEF left, total
  <2>5. arms'[c].pulls + left = history'.direct[c] + total
    BY <1>2, <1>3, <2>3, <2>4
  <2> QED
    BY <2>1, <2>2, <2>5
<1>5. ReadsBehind'
  BY <1>1, <1>2 DEF CountsInv, ReadsBehind
<1> QED
  BY <1>3, <1>4, <1>5 DEF CountsInv, CountedInEveryBatch, Counts

(* Steps that feed no row and read none.                                   *)
LEMMA OthersCount ==
  ASSUME CountsInv, RowsKept, arms' = arms, reading' = reading,
         history'.reads = history.reads, history'.direct = history.direct,
         Len(executedRows') \in Nat
  PROVE  arms' \in [Arm -> PulledFrom] /\ ReadsBehind' /\ CountedInEveryBatch'
<1>1. \A c \in Arm : Total(Counts(c))' = Total(Counts(c)) /\ StillToFeed(c)' = StillToFeed(c)
  BY CountsKept DEF StillToFeed
<1>2. ReadsBehind'
  <2>1. Len(executedRows) \in Nat /\ \A b \in DOMAIN history.reads : history.reads[b] \in Nat
    BY DEF CountsInv, BudgetTypes, History
  <2> QED
    BY <2>1 DEF CountsInv, ReadsBehind, RowsKept
<1> QED
  BY <1>1, <1>2 DEF CountsInv, CountedInEveryBatch, Counts

LEMMA StepsCount ==
  CountsInv /\ [SpendingNext]_spendingVars /\ BudgetTypes' => CountsInv'
<1> SUFFICES ASSUME CountsInv, [SpendingNext]_spendingVars, BudgetTypes' PROVE CountsInv'
  OBVIOUS
<1>1. RowsKept
  BY RowsOfStep DEF CountsInv
<1>2. Len(executedRows') \in Nat
  BY DEF BudgetTypes
<1>3. CASE RunBatch
  BY <1>1, <1>3, BatchCounts
<1>4. CASE FeedRow
  BY <1>1, <1>4, FeedingCounts DEF CountsInv
<1>5. CASE \E c \in Executed \cap Arm, b \in BOOLEAN : BanditUpdate(c, b)
  BY <1>1, <1>5, UpdateCounts DEF CountsInv
<1>6. CASE \E n \in Totals : BudgetReset(n)
  <2>1. /\ arms' = arms /\ reading' = reading
        /\ history' = [history EXCEPT !.resets = @ + 1, !.charged = Zeroes(Budgeted)]
    BY <1>6 DEF BudgetReset
  <2>2. history'.reads = history.reads /\ history'.direct = history.direct
    BY <2>1 DEF CountsInv, BudgetTypes, History
  <2> QED
    BY <1>1, <1>2, <2>1, <2>2, OthersCount DEF CountsInv
<1>7. CASE \/ \E c \in Executed : ExecuteLive(c)
           \/ \E i \in DOMAIN executedRows : CasePaid(i)
           \/ UNCHANGED spendingVars
  <2>1. arms' = arms /\ reading' = reading /\ history' = history
    BY <1>7 DEF ExecuteLive, CasePaid, spendingVars
  <2> QED
    BY <1>1, <1>2, <2>1, OthersCount DEF CountsInv
<1> QED
  BY <1>3, <1>4, <1>5, <1>6, <1>7 DEF SpendingNext

(* However batches, updates, live actions and payments follow each other,  *)
(* the bandit's counts are of batches times actions: an arm is pulled once *)
(* for each of its actions in every batch from then on.                    *)
THEOREM SpendingCounts == SpendingSpec => []CountedInEveryBatch
<1>1. SpendingInit => CountsInv
  <2> SUFFICES ASSUME SpendingInit PROVE CountsInv
    OBVIOUS
  <2>1. history.reads = <<>> /\ history.direct = Zeroes(Arm) /\ reading = <<>>
    BY DEF SpendingInit
  <2>2. arms \in [Arm -> PulledFrom]
    BY DEF SpendingInit, PulledFrom
  <2>3. \A c \in Arm : StillToFeed(c) = 0
    <3> TAKE c \in Arm
    <3>1. {i \in DOMAIN reading : reading[i].channel = c} = {}
      BY <2>1
    <3> QED
      BY <3>1, FS_EmptySet DEF StillToFeed
  <2>4. \A c \in Arm : Total(Counts(c)) = 0
    <3> TAKE c \in Arm
    <3>1. Counts(c) \in Seq(Int) /\ Len(Counts(c)) = 0
      BY <2>1, CountsType, InitConserves
    <3> HIDE DEF Counts
    <3> QED
      BY <3>1, SumsFacts DEF Total
  <2>5. \A c \in Arm :
          arms[c].pulls = 0 /\ arms[c].recoveries = 0 /\ history.direct[c] = 0
    BY <2>1 DEF SpendingInit, Zeroes
  <2> QED
    BY <2>1, <2>2, <2>3, <2>4, <2>5, InitConserves
    DEF CountsInv, ReadsBehind, CountedInEveryBatch, Counts
<1>2. SpendingInit => BudgetTypes /\ Conserved
  BY InitConserves
<1>3. BudgetTypes /\ Conserved /\ [SpendingNext]_spendingVars => BudgetTypes' /\ Conserved'
  BY StepsConserve
<1>4. CountsInv => CountedInEveryBatch
  BY DEF CountsInv
<1> QED
  BY <1>1, <1>2, <1>3, <1>4, StepsCount, PTL DEF SpendingSpec

-----------------------------------------------------------------------------
(***************************************************************************)
(* The report, the funnel and the segments: for any classes, amounts,      *)
(* payments and costs.  The first theorem needs of a table only its types; *)
(* the second follows each class through the batches.                      *)
(***************************************************************************)

CaseRow ==
  [class : CaseClass, amount : Nat, group : {"treatment", "control"},
   status : {"open", "recovered", "written_off"}, recovered : Nat,
   promised : BOOLEAN, executed : [ActionTypes -> Nat]]

LEMMA GroupOfType == \A classes, i : GroupOf(classes, i) \in {"treatment", "control"}
BY DEF GroupOf

LEMMA NewCaseType ==
  ASSUME NEW class \in CaseClass, NEW amount \in Amounts,
         NEW group \in {"treatment", "control"}
  PROVE  NewCase(class, amount, group) \in CaseRow
BY ReportAssumption DEF NewCase, CaseRow

CasesInv == cases \in Seq(CaseRow)

LEMMA CaseFacts ==
  ASSUME CasesInv
  PROVE  /\ Len(cases) \in Nat /\ DOMAIN cases = 1 .. Len(cases)
         /\ IsFiniteSet(DOMAIN cases)
         /\ \A i \in DOMAIN cases : cases[i] \in CaseRow
<1>1. Len(cases) \in Nat /\ DOMAIN cases = 1 .. Len(cases)
  BY LenProperties DEF CasesInv
<1>2. \A i \in DOMAIN cases : cases[i] \in CaseRow
  BY <1>1, ElementOfSeq DEF CasesInv
<1> QED
  BY <1>1, <1>2, FS_Interval

LEMMA CasesTyped == CasesInv /\ [ReportNext]_reportVars => CasesInv'
<1> SUFFICES ASSUME CasesInv, [ReportNext]_reportVars
             PROVE  cases' \in Seq(CaseRow)
  BY DEF CasesInv
<1>0. cases \in Seq(CaseRow) /\ \A i \in DOMAIN cases : cases[i] \in CaseRow
  BY CaseFacts DEF CasesInv
<1>1. ASSUME NEW n \in 1 .. MaxCases, NEW classes \in [1 .. n -> CaseClass], IngestBatch(classes)
      PROVE  cases' \in Seq(CaseRow)
  <2>1. PICK amount \in [DOMAIN classes -> Amounts] :
          cases' = cases \o [i \in DOMAIN classes |->
                               NewCase(classes[i], amount[i], GroupOf(classes, i))]
    BY <1>1 DEF IngestBatch
  <2> DEFINE new == [i \in 1 .. n |-> NewCase(classes[i], amount[i], GroupOf(classes, i))]
  <2>2. \A i \in 1 .. n : NewCase(classes[i], amount[i], GroupOf(classes, i)) \in CaseRow
    BY NewCaseType, GroupOfType
  <2>3. new \in [1 .. n -> CaseRow]
    BY <2>2
  <2>4. n \in Nat /\ cases' = cases \o new
    BY <2>1, ReportAssumption
  <2> HIDE DEF new
  <2>5. new \in Seq(CaseRow)
    BY <2>3, <2>4
  <2> QED
    BY <1>0, <2>4, <2>5
<1>2. ASSUME NEW class \in CaseClass, NEW amount \in Amounts, IngestLive(class, amount)
      PROVE  cases' \in Seq(CaseRow)
  BY <1>0, <1>2, NewCaseType DEF IngestLive
<1>3. ASSUME NEW i \in DOMAIN cases, NEW c \in CaseRow, Changes(i, c)
      PROVE  cases' \in Seq(CaseRow)
  BY <1>0, <1>3 DEF Changes
<1>4. ASSUME NEW i \in DOMAIN cases, NEW type \in ActionTypes, ExecuteAction(i, type)
      PROVE  cases' \in Seq(CaseRow)
  <2>1. [cases[i] EXCEPT !.executed[type] = @ + 1] \in CaseRow
    <3>1. cases[i].executed \in [ActionTypes -> Nat]
      BY <1>0 DEF CaseRow
    <3>2. [cases[i].executed EXCEPT ![type] = @ + 1] \in [ActionTypes -> Nat]
      BY <3>1
    <3> QED
      BY <1>0, <3>2 DEF CaseRow
  <2> QED
    BY <1>3, <1>4, <2>1 DEF ExecuteAction
<1>5. ASSUME NEW i \in DOMAIN cases, NEW amount \in Payments, MarkRecovered(i, amount)
      PROVE  cases' \in Seq(CaseRow)
  <2>1. [cases[i] EXCEPT !.status = "recovered", !.recovered = amount] \in CaseRow
    BY <1>0, ReportAssumption DEF CaseRow
  <2> QED
    BY <1>3, <1>5, <2>1 DEF MarkRecovered
<1>6. ASSUME NEW i \in DOMAIN cases, PromiseMade(i) PROVE cases' \in Seq(CaseRow)
  <2>1. [cases[i] EXCEPT !.promised = TRUE] \in CaseRow
    BY <1>0 DEF CaseRow
  <2> QED
    BY <1>3, <1>6, <2>1 DEF PromiseMade
<1>7. ASSUME NEW i \in DOMAIN cases, WriteOff(i) PROVE cases' \in Seq(CaseRow)
  <2>1. [cases[i] EXCEPT !.status = "written_off"] \in CaseRow
    BY <1>0 DEF CaseRow
  <2> QED
    BY <1>3, <1>7, <2>1 DEF WriteOff
<1>8. CASE UNCHANGED reportVars
  BY <1>0, <1>8 DEF reportVars
<1> QED
  BY <1>1, <1>2, <1>4, <1>5, <1>6, <1>7, <1>8 DEF ReportNext

LEMMA CasesAlways == ReportSpec => []CasesInv
<1>1. ReportInit => CasesInv
  BY DEF ReportInit, CasesInv
<1> QED
  BY <1>1, CasesTyped, PTL DEF ReportSpec

-----------------------------------------------------------------------------
(* A finite set in two parts, and in three.                                *)
LEMMA TwoParts ==
  ASSUME NEW S, IsFiniteSet(S), NEW A, NEW B, A \cup B = S, A \cap B = {}
  PROVE  /\ IsFiniteSet(A) /\ IsFiniteSet(B)
         /\ Cardinality(A) \in Nat /\ Cardinality(B) \in Nat
         /\ Cardinality(S) = Cardinality(A) + Cardinality(B)
<1>1. IsFiniteSet(A) /\ IsFiniteSet(B)
  <2>1. A \in SUBSET S /\ B \in SUBSET S
    OBVIOUS
  <2> QED
    BY <2>1, FS_Subset
<1>2. Cardinality(A) \in Nat /\ Cardinality(B) \in Nat
  BY <1>1, FS_CardinalityType
<1>3. Cardinality(A \cup B) = Cardinality(A) + Cardinality(B) - Cardinality(A \cap B)
  BY <1>1, FS_Union
<1>4. Cardinality(A \cap B) = 0
  BY FS_EmptySet
<1> QED
  BY <1>1, <1>2, <1>3, <1>4

LEMMA ThreeParts ==
  ASSUME NEW S, IsFiniteSet(S), NEW A, NEW B, NEW C, A \cup B \cup C = S,
         A \cap B = {}, A \cap C = {}, B \cap C = {}
  PROVE  Cardinality(S) = Cardinality(A) + Cardinality(B) + Cardinality(C)
<1> DEFINE D == B \cup C
<1>1. A \cup D = S /\ A \cap D = {}
  OBVIOUS
<1>2. IsFiniteSet(D) /\ Cardinality(D) = Cardinality(B) + Cardinality(C)
      /\ Cardinality(B) \in Nat /\ Cardinality(C) \in Nat
  <2>1. IsFiniteSet(D)
    <3>1. D \in SUBSET S
      OBVIOUS
    <3> HIDE DEF D
    <3> QED
      BY <3>1, FS_Subset
  <2>2. B \cup C = D
    OBVIOUS
  <2> HIDE DEF D
  <2> QED
    BY <2>1, <2>2, TwoParts
<1> HIDE DEF D
<1>3. Cardinality(S) = Cardinality(A) + Cardinality(D) /\ Cardinality(A) \in Nat
  BY <1>1, TwoParts
<1> QED
  BY <1>2, <1>3

(* The segments, and the groups, divide the table.                         *)
LEMMA Divided ==
  ASSUME CasesInv
  PROVE  /\ Segment("standard") \cup Segment("growth") \cup Segment("enterprise") = DOMAIN cases
         /\ Segment("standard") \cap Segment("growth") = {}
         /\ Segment("standard") \cap Segment("enterprise") = {}
         /\ Segment("growth") \cap Segment("enterprise") = {}
         /\ InGroup("treatment") \cup InGroup("control") = DOMAIN cases
         /\ InGroup("treatment") \cap InGroup("control") = {}
<1>1. \A i \in DOMAIN cases :
        /\ cases[i].amount \in Nat /\ cases[i].group \in {"treatment", "control"}
  BY CaseFacts DEF CaseRow
<1>2. /\ Segment("standard") = {i \in DOMAIN cases : cases[i].amount < 100000}
      /\ Segment("growth") =
           {i \in DOMAIN cases : 100000 <= cases[i].amount /\ cases[i].amount < 500000}
      /\ Segment("enterprise") = {i \in DOMAIN cases : cases[i].amount >= 500000}
  BY DEF Segment
<1>3. /\ Segment("standard") \cup Segment("growth") \cup Segment("enterprise") = DOMAIN cases
      /\ Segment("standard") \cap Segment("growth") = {}
      /\ Segment("standard") \cap Segment("enterprise") = {}
      /\ Segment("growth") \cap Segment("enterprise") = {}
  BY <1>1, <1>2
<1>4. /\ InGroup("treatment") \cup InGroup("control") = DOMAIN cases
      /\ InGroup("treatment") \cap InGroup("control") = {}
  BY <1>1 DEF InGroup
<1> QED
  BY <1>3, <1>4

LEMMA MoneyFacts ==
  ASSUME CasesInv
  PROVE  /\ \A S, T : S \cap T = {} =>
              Money(S \cup T) = Money(S) + Money(T) /\ Money(S) \in Int /\ Money(T) \in Int
         /\ \A S : Money(S \cap Recovered) = Money(S)
<1> DEFINE s == [i \in DOMAIN cases |-> cases[i].recovered]
<1>1. Len(cases) \in Nat /\ DOMAIN cases = 1 .. Len(cases)
  BY CaseFacts
<1>2. s \in [1 .. Len(cases) -> Nat]
  <2>1. \A i \in DOMAIN cases : cases[i].recovered \in Nat
    BY CaseFacts DEF CaseRow
  <2> QED
    BY <1>1, <2>1
<1>3. \A S : Money(S) = Total(At(s, S))
  BY DEF Money
<1>4. Recovered = {i \in DOMAIN cases : s[i] > 0} /\ DOMAIN s = DOMAIN cases
  BY DEF Recovered
<1> HIDE DEF s
<1>5. s \in Seq(Int) /\ Len(s) = Len(cases)
  BY <1>1, <1>2, SeqOfInt
<1>6. \A S, T : S \cap T = {} =>
        Money(S \cup T) = Money(S) + Money(T) /\ Money(S) \in Int /\ Money(T) \in Int
  <2> SUFFICES ASSUME NEW S, NEW T, S \cap T = {}
               PROVE  Money(S \cup T) = Money(S) + Money(T) /\ Money(S) \in Int /\ Money(T) \in Int
    OBVIOUS
  <2>1. Total(At(s, S \cup T)) = Total(At(s, S)) + Total(At(s, T))
    BY <1>5, TotalOfUnion
  <2>2. Total(At(s, S)) \in Int /\ Total(At(s, T)) \in Int
    BY <1>5, AtFacts, SumsType
  <2> QED
    BY <1>3, <2>1, <2>2
<1>7. \A S : Money(S \cap Recovered) = Money(S)
  <2> TAKE S
  <2>1. \A i \in DOMAIN s : s[i] \in Nat
    BY <1>1, <1>2, <1>4
  <2>2. At(s, S \cap Recovered) = At(s, S)
    BY <1>4, <2>1 DEF At
  <2> QED
    BY <1>3, <2>2
<1> QED
  BY <1>6, <1>7

CostsOf(type) ==
  [i \in DOMAIN cases |-> ContactCost[type] * Executions(cases[i], type)]

LEMMA CostOfChannel ==
  ASSUME CasesInv, NEW type \in Nudge
  PROVE  /\ CostsOf(type) \in Seq(Int) /\ Len(CostsOf(type)) = Len(cases)
         /\ \A i \in 1 .. Len(cases) :
              CostsOf(type)[i] = ContactCost[type] * Executions(cases[i], type)
         /\ Total(CostsOf(type)) = CostByChannel(type)
<1> DEFINE s == CostsOf(type)
           n == [i \in DOMAIN cases |-> Executions(cases[i], type)]
           k == ContactCost[type]
<1>1. Len(cases) \in Nat /\ DOMAIN cases = 1 .. Len(cases) /\ k \in Nat
  BY CaseFacts, ReportAssumption
<1>2. \A i \in DOMAIN cases : Executions(cases[i], type) \in Nat
  BY CaseFacts DEF CaseRow, Executions
<1>3. n \in [1 .. Len(cases) -> Int]
  BY <1>1, <1>2
<1>4. \A i \in 1 .. Len(cases) : s[i] = k * n[i] /\ s[i] = k * Executions(cases[i], type)
  BY <1>1 DEF CostsOf
<1>5. s \in [1 .. Len(cases) -> Int]
  <2>1. s = [i \in 1 .. Len(cases) |-> s[i]]
    BY <1>1 DEF CostsOf
  <2>2. \A i \in 1 .. Len(cases) : n[i] \in Int
    BY <1>3
  <2> HIDE DEF s, n
  <2>3. \A i \in 1 .. Len(cases) : s[i] \in Int
    BY <1>1, <1>4, <2>2
  <2> QED
    BY <2>1, <2>3
<1>6. CostByChannel(type) = k * Total(n)
  BY DEF CostByChannel
<1> HIDE DEF s, n, k
<1>7. s \in Seq(Int) /\ Len(s) = Len(cases) /\ n \in Seq(Int) /\ Len(n) = Len(cases)
  BY <1>1, <1>3, <1>5, SeqOfInt
<1>8. Total(s) = k * Total(n)
  BY <1>1, <1>4, <1>7, SumsTimes
<1> QED
  BY <1>4, <1>6, <1>7, <1>8 DEF s, k

LEMMA SpendOfChannels ==
  ASSUME CasesInv
  PROVE  SpendPaise = OverChannels(CostByChannel)
<1> DEFINE a == CostsOf("nudge_whatsapp")
           b == CostsOf("nudge_sms")
           c == CostsOf("nudge_email")
           d == CostsOf("nudge_voice")
           ab == [i \in 1 .. Len(cases) |-> a[i] + b[i]]
           abc == [i \in 1 .. Len(cases) |-> ab[i] + c[i]]
           all == [i \in DOMAIN cases |-> CostOfCase(cases[i])]
<1>0. Len(cases) \in Nat /\ DOMAIN cases = 1 .. Len(cases)
  BY CaseFacts
<1>1. /\ {a, b, c, d} \subseteq Seq(Int)
      /\ Len(a) = Len(cases) /\ Len(b) = Len(cases) /\ Len(c) = Len(cases) /\ Len(d) = Len(cases)
      /\ Total(a) = CostByChannel("nudge_whatsapp") /\ Total(b) = CostByChannel("nudge_sms")
      /\ Total(c) = CostByChannel("nudge_email") /\ Total(d) = CostByChannel("nudge_voice")
  BY CostOfChannel DEF Nudge
<1>2. \A i \in 1 .. Len(cases) : all[i] = a[i] + b[i] + c[i] + d[i]
  <2> TAKE i \in 1 .. Len(cases)
  <2>1. all[i] = CostOfCase(cases[i])
    BY <1>0
  <2> QED
    BY <2>1, <1>0, CostOfChannel DEF CostOfCase, OverChannels, Nudge
<1>3. \A i \in 1 .. Len(cases) : a[i] \in Int /\ b[i] \in Int /\ c[i] \in Int /\ d[i] \in Int
  <2> HIDE DEF a, b, c, d
  <2> QED
    BY <1>1, SumsType
<1>4. SpendPaise = Total(all)
  BY DEF SpendPaise
<1>5. all = [i \in 1 .. Len(cases) |-> all[i]]
  BY <1>0
<1> HIDE DEF a, b, c, d, all
<1>6. ab \in [1 .. Len(cases) -> Int] /\ abc \in [1 .. Len(cases) -> Int]
  BY <1>3
<1>7. all \in [1 .. Len(cases) -> Int]
  BY <1>2, <1>3, <1>5
<1>8. /\ \A i \in 1 .. Len(cases) : ab[i] = a[i] + b[i]
      /\ \A i \in 1 .. Len(cases) : abc[i] = ab[i] + c[i]
      /\ \A i \in 1 .. Len(cases) : all[i] = abc[i] + d[i]
  BY <1>2, <1>3
<1> HIDE DEF ab, abc
<1>9. /\ ab \in Seq(Int) /\ Len(ab) = Len(cases) /\ abc \in Seq(Int) /\ Len(abc) = Len(cases)
      /\ all \in Seq(Int) /\ Len(all) = Len(cases)
  BY <1>0, <1>6, <1>7, SeqOfInt
<1>10. Total(ab) = Total(a) + Total(b)
  BY <1>1, <1>8, <1>9, SumsAdd
<1>11. Total(abc) = Total(ab) + Total(c)
  BY <1>1, <1>8, <1>9, SumsAdd
<1>12. Total(all) = Total(abc) + Total(d)
  BY <1>1, <1>8, <1>9, SumsAdd
<1> QED
  BY <1>1, <1>4, <1>10, <1>11, <1>12 DEF OverChannels

LEMMA SegmentsAgree ==
  ASSUME CasesInv
  PROVE  LET t == GroupRates("treatment") c == GroupRates("control")
         IN  /\ OverSegments(LAMBDA s : Segments[s].cases) = t.n + c.n
             /\ OverSegments(LAMBDA s : Segments[s].recovered) = t.recovered + c.recovered
             /\ OverSegments(LAMBDA s : Segments[s].paise) = t.paise + c.paise
<1> DEFINE A == Segment("standard")
           B == Segment("growth")
           C == Segment("enterprise")
           T == InGroup("treatment")
           U == InGroup("control")
           D == DOMAIN cases
           R == Recovered
<1>1. /\ A \cup B \cup C = D /\ A \cap B = {} /\ A \cap C = {} /\ B \cap C = {}
      /\ T \cup U = D /\ T \cap U = {}
  BY Divided
<1>2. IsFiniteSet(D) /\ R \subseteq D
  BY CaseFacts DEF Recovered
<1>3. /\ OverSegments(LAMBDA s : Segments[s].cases)
           = Cardinality(A) + Cardinality(B) + Cardinality(C)
      /\ OverSegments(LAMBDA s : Segments[s].recovered)
           = Cardinality(A \cap R) + Cardinality(B \cap R) + Cardinality(C \cap R)
      /\ OverSegments(LAMBDA s : Segments[s].paise) = Money(A) + Money(B) + Money(C)
  BY DEF OverSegments, Segments
<1>4. /\ GroupRates("treatment").n = Cardinality(T)
      /\ GroupRates("control").n = Cardinality(U)
      /\ GroupRates("treatment").recovered = Cardinality(T \cap R)
      /\ GroupRates("control").recovered = Cardinality(U \cap R)
      /\ GroupRates("treatment").paise = Money(T \cap R)
      /\ GroupRates("control").paise = Money(U \cap R)
  BY DEF GroupRates
<1> HIDE DEF A, B, C, T, U, D, R
<1>5. Cardinality(A) + Cardinality(B) + Cardinality(C) = Cardinality(T) + Cardinality(U)
  <2>1. Cardinality(D) = Cardinality(A) + Cardinality(B) + Cardinality(C)
    BY <1>1, <1>2, ThreeParts
  <2>2. Cardinality(D) = Cardinality(T) + Cardinality(U)
    BY <1>1, <1>2, TwoParts
  <2> QED
    BY <2>1, <2>2
<1>6. Cardinality(A \cap R) + Cardinality(B \cap R) + Cardinality(C \cap R)
        = Cardinality(T \cap R) + Cardinality(U \cap R)
  <2>0. IsFiniteSet(R)
    BY <1>2, FS_Subset
  <2>1. Cardinality(R) = Cardinality(A \cap R) + Cardinality(B \cap R) + Cardinality(C \cap R)
    <3> DEFINE X == A \cap R
               Y == B \cap R
               Z == C \cap R
    <3>1. X \cup Y \cup Z = R /\ X \cap Y = {} /\ X \cap Z = {} /\ Y \cap Z = {}
      BY <1>1, <1>2
    <3> HIDE DEF X, Y, Z
    <3>2. Cardinality(R) = Cardinality(X) + Cardinality(Y) + Cardinality(Z)
      BY <2>0, <3>1, ThreeParts
    <3> QED
      BY <3>2 DEF X, Y, Z
  <2>2. Cardinality(R) = Cardinality(T \cap R) + Cardinality(U \cap R)
    <3> DEFINE X == T \cap R
               Y == U \cap R
    <3>1. X \cup Y = R /\ X \cap Y = {}
      BY <1>1, <1>2
    <3> HIDE DEF X, Y
    <3>2. Cardinality(R) = Cardinality(X) + Cardinality(Y)
      BY <2>0, <3>1, TwoParts
    <3> QED
      BY <3>2 DEF X, Y
  <2> QED
    BY <2>1, <2>2
<1>7. Money(A) + Money(B) + Money(C) = Money(T \cap R) + Money(U \cap R)
  <2>1. \A S, V : S \cap V = {} =>
          Money(S \cup V) = Money(S) + Money(V) /\ Money(S) \in Int /\ Money(V) \in Int
    BY MoneyFacts
  <2>2. Money(A \cup B) = Money(A) + Money(B) /\ Money(A) \in Int /\ Money(B) \in Int
    BY <1>1, <2>1
  <2>3. Money((A \cup B) \cup C) = Money(A \cup B) + Money(C) /\ Money(C) \in Int
    <3>1. (A \cup B) \cap C = {}
      BY <1>1
    <3> QED
      BY <2>1, <3>1
  <2>4. Money(T \cup U) = Money(T) + Money(U)
    BY <1>1, <2>1
  <2>5. Money(T \cap R) = Money(T) /\ Money(U \cap R) = Money(U)
    BY MoneyFacts DEF R
  <2>6. (A \cup B) \cup C = T \cup U
    BY <1>1
  <2> QED
    BY <2>2, <2>3, <2>4, <2>5, <2>6
<1> QED
  BY <1>3, <1>4, <1>5, <1>6, <1>7

(* A promise counts as kept or as pausing its case.                        *)
LEMMA PromisesDivide ==
  ASSUME CasesInv
  PROVE  Funnel.paused + Cardinality(PromisesKept) = Cardinality(PromisedCases)
<1> DEFINE A == {i \in InGroup("treatment") : cases[i].promised /\ cases[i].recovered = 0}
<1>1. A \cup PromisesKept = PromisedCases /\ A \cap PromisesKept = {}
  <2>1. \A i \in DOMAIN cases : cases[i].recovered \in Nat /\ cases[i].promised \in BOOLEAN
    BY CaseFacts DEF CaseRow
  <2> QED
    BY <2>1 DEF PromisesKept, PromisedCases, Recovered, InGroup
<1>2. IsFiniteSet(PromisedCases)
  <2>1. IsFiniteSet(DOMAIN cases) /\ PromisedCases \in SUBSET DOMAIN cases
    BY CaseFacts DEF PromisedCases, InGroup
  <2> QED
    BY <2>1, FS_Subset
<1>3. Funnel.paused = Cardinality(A)
  BY DEF Funnel
<1> HIDE DEF A
<1>4. Cardinality(PromisedCases) = Cardinality(A) + Cardinality(PromisesKept)
  BY <1>1, <1>2, TwoParts
<1> QED
  BY <1>3, <1>4

(* Whatever happens to cases, and in whatever order, the segments, the     *)
(* funnel, the promises and the channels' costs tell the story of the two  *)
(* groups of the report (measure.py:20-31, 104-157, main.py:853-892,       *)
(* 1126-1144).                                                             *)
THEOREM ReportAgrees == ReportSpec => []EndpointsAgree
<1>1. CasesInv => EndpointsAgree
  <2> SUFFICES ASSUME CasesInv PROVE EndpointsAgree
    OBVIOUS
  <2>1. Funnel.settled = GroupRates("treatment").recovered
    BY DEF Funnel, GroupRates
  <2> QED
    BY <2>1, SegmentsAgree, PromisesDivide, SpendOfChannels DEF EndpointsAgree
<1> QED
  BY <1>1, CasesAlways, PTL

-----------------------------------------------------------------------------
(* Counting by Stratum: the whole strata and what is left over.            *)
LEMMA StratumFacts ==
  ASSUME NEW m \in Nat
  PROVE  /\ m \div Stratum \in Nat /\ m % Stratum \in Nat /\ m % Stratum < Stratum
         /\ m = Stratum * (m \div Stratum) + (m % Stratum)
BY ReportAssumption

LEMMA StratumNext ==
  ASSUME NEW m \in Nat
  PROVE  IF (m % Stratum) + 1 < Stratum
         THEN /\ (m + 1) % Stratum = (m % Stratum) + 1
              /\ (m + 1) \div Stratum = m \div Stratum
         ELSE /\ (m + 1) % Stratum = 0
              /\ (m + 1) \div Stratum = (m \div Stratum) + 1
<1>1. Stratum \in Nat /\ Stratum > 0
  BY ReportAssumption
<1> DEFINE q == m \div Stratum
           r == m % Stratum
           u == (m + 1) \div Stratum
           v == (m + 1) % Stratum
<1>2. q \in Nat /\ r \in Nat /\ r < Stratum /\ m = Stratum * q + r
  BY StratumFacts
<1>3. u \in Nat /\ v \in Nat /\ v < Stratum /\ m + 1 = Stratum * u + v
  BY StratumFacts
<1> HIDE DEF q, r, u, v
<1>4. Stratum * u + v = Stratum * q + (r + 1)
  BY <1>1, <1>2, <1>3
<1>5. CASE r + 1 < Stratum
  <2>1. u = q /\ v = r + 1
    BY <1>1, <1>2, <1>3, <1>4, <1>5
  <2> QED
    BY <1>5, <2>1 DEF q, r, u, v
<1>6. CASE ~(r + 1 < Stratum)
  <2>1. r + 1 = Stratum
    BY <1>1, <1>2, <1>6
  <2>2. Stratum * u + v = Stratum * (q + 1) + 0
    BY <1>1, <1>2, <1>3, <1>4, <2>1
  <2>3. u = q + 1 /\ v = 0
    BY <1>1, <1>2, <1>3, <2>2
  <2> QED
    BY <1>6, <2>3 DEF q, r, u, v
<1> QED
  BY <1>5, <1>6

(* Of m cases of a class in one batch, so many are treated.                *)
Share(m) ==
  Treated * (m \div Stratum) + IF m % Stratum < Treated THEN m % Stratum ELSE Treated

LEMMA ShareFacts ==
  ASSUME NEW m \in Nat
  PROVE  /\ Share(m) \in Nat /\ Share(m) <= m
         /\ Share(m) = m <=> m <= Treated
         /\ Stratum * Share(m) >= Treated * m
<1> DEFINE q == m \div Stratum
           r == m % Stratum
           l == IF r < Treated THEN r ELSE Treated
<1>1. Stratum \in Nat /\ Treated \in Nat /\ Treated < Stratum
  BY ReportAssumption
<1>2. q \in Nat /\ r \in Nat /\ r < Stratum /\ m = Stratum * q + r
  BY StratumFacts
<1>3. Share(m) = Treated * q + l
  BY DEF Share
<1> HIDE DEF q, r
<1>4. l \in Nat /\ l <= r /\ l <= Treated
  BY <1>1, <1>2
<1>5. Treated * q \in Nat /\ Stratum * q \in Nat /\ Treated * q <= Stratum * q
  BY <1>1, <1>2
<1>6. Share(m) \in Nat /\ Share(m) <= m
  BY <1>2, <1>3, <1>4, <1>5
<1>7. Share(m) = m <=> m <= Treated
  <2>1. CASE q = 0
    <3>1. Treated * q = 0 /\ Stratum * q = 0
      BY <1>1, <2>1
    <3> QED
      BY <1>1, <1>2, <1>3, <3>1
  <2>2. CASE q >= 1
    <3>1. Stratum * q - Treated * q = (Stratum - Treated) * q
      BY <1>1, <1>2
    <3>2. (Stratum - Treated) * q >= 1
      <4>1. Stratum - Treated \in Nat /\ Stratum - Treated >= 1
        BY <1>1
      <4> QED
        BY <1>2, <2>2, <4>1
    <3>3. Share(m) < m
      BY <1>2, <1>3, <1>4, <1>5, <3>1, <3>2
    <3>4. Stratum * q >= Stratum
      BY <1>1, <1>2, <2>2
    <3>5. m > Treated
      BY <1>1, <1>2, <1>5, <3>4
    <3> QED
      BY <1>6, <3>3, <3>5, <1>1
  <2> QED
    BY <1>2, <2>1, <2>2
<1>8. Stratum * l >= Treated * r
  <2>1. CASE r < Treated
    <3>1. l = r
      BY <2>1
    <3> QED
      BY <1>1, <1>2, <3>1
  <2>2. CASE ~(r < Treated)
    <3>1. l = Treated
      BY <2>2
    <3>2. Stratum * Treated >= r * Treated
      BY <1>1, <1>2
    <3> QED
      BY <1>1, <1>2, <3>1, <3>2
  <2> QED
    BY <2>1, <2>2
<1> HIDE DEF l
<1>9. Stratum * Share(m) = Treated * (Stratum * q) + Stratum * l
  <2>1. Stratum * (Treated * q + l) = Stratum * (Treated * q) + Stratum * l
    BY <1>1, <1>2, <1>4, <1>5
  <2>2. Stratum * (Treated * q) = Treated * (Stratum * q)
    BY <1>1, <1>2
  <2> QED
    BY <1>3, <2>1, <2>2
<1>10. Treated * m = Treated * (Stratum * q) + Treated * r
  BY <1>1, <1>2, <1>5
<1>11. Stratum * Share(m) >= Treated * m
  <2> DEFINE x == Treated * (Stratum * q)
  <2>1. x \in Nat /\ Stratum * l \in Nat /\ Treated * r \in Nat
    BY <1>1, <1>2, <1>4, <1>5
  <2> HIDE DEF x
  <2> QED
    BY <1>8, <1>9, <1>10, <2>1 DEF x
<1> QED
  BY <1>6, <1>7, <1>11

LEMMA ShareNext ==
  ASSUME NEW m \in Nat
  PROVE  Share(m + 1) = Share(m) + IF m % Stratum < Treated THEN 1 ELSE 0
<1> DEFINE q == m \div Stratum
           r == m % Stratum
<1>1. Stratum \in Nat /\ Treated \in Nat /\ Treated < Stratum
  BY ReportAssumption
<1>2. q \in Nat /\ r \in Nat /\ r < Stratum
  BY StratumFacts
<1>3. Share(m) = Treated * q + IF r < Treated THEN r ELSE Treated
  BY DEF Share
<1>4. CASE r + 1 < Stratum
  <2>1. (m + 1) % Stratum = r + 1 /\ (m + 1) \div Stratum = q
    BY <1>4, StratumNext
  <2>2. Share(m + 1) = Treated * q + IF r + 1 < Treated THEN r + 1 ELSE Treated
    BY <2>1 DEF Share
  <2> HIDE DEF q, r
  <2>3. Treated * q \in Nat
    BY <1>1, <1>2
  <2>4. Share(m + 1) = Share(m) + IF r < Treated THEN 1 ELSE 0
    BY <1>1, <1>2, <1>3, <2>2, <2>3
  <2> QED
    BY <2>4 DEF r
<1>5. CASE ~(r + 1 < Stratum)
  <2>1. (m + 1) % Stratum = 0 /\ (m + 1) \div Stratum = q + 1
    BY <1>5, StratumNext
  <2>2. Share(m + 1) = Treated * (q + 1) + IF 0 < Treated THEN 0 ELSE Treated
    BY <2>1 DEF Share
  <2> HIDE DEF q, r
  <2>3. Treated * q \in Nat /\ Treated * (q + 1) = Treated * q + Treated
    BY <1>1, <1>2
  <2>4. ~(r < Treated) /\ (IF 0 < Treated THEN 0 ELSE Treated) = 0
    BY <1>1, <1>2, <1>5
  <2>5. Share(m + 1) = Share(m) + IF r < Treated THEN 1 ELSE 0
    BY <1>1, <1>3, <2>2, <2>3, <2>4
  <2> QED
    BY <2>5 DEF r
<1> QED
  BY <1>4, <1>5

(* The treated cases of a class in a batch are its share.                  *)
LEMMA TreatedOfBatch ==
  ASSUME NEW n \in Nat, NEW classes \in [1 .. n -> CaseClass], NEW k
  PROVE  LET S == {i \in 1 .. n : classes[i] = k}
             T == {i \in 1 .. n : classes[i] = k /\ GroupOf(classes, i) = "treatment"}
         IN  Cardinality(S) \in Nat /\ Cardinality(T) = Share(Cardinality(S))
<1> DEFINE S(j) == {i \in 1 .. j : classes[i] = k}
           T(j) == {i \in 1 .. j : classes[i] = k /\ GroupOf(classes, i) = "treatment"}
           good == {j \in 0 .. n : /\ IsFiniteSet(S(j)) /\ IsFiniteSet(T(j))
                                   /\ Cardinality(T(j)) = Share(Cardinality(S(j)))}
<1>1. 0 \in good
  <2>1. S(0) = {} /\ T(0) = {}
    OBVIOUS
  <2>2. Share(0) = 0
    BY ShareFacts
  <2> QED
    BY <2>1, <2>2, FS_EmptySet
<1>2. ASSUME NEW j \in 1 .. n, j - 1 \in good PROVE j \in good
  <2> DEFINE s == S(j - 1)
             t == T(j - 1)
             m == Cardinality(s)
             s1 == S(j)
             t1 == T(j)
  <2>1. IsFiniteSet(s) /\ IsFiniteSet(t) /\ Cardinality(t) = Share(m)
    BY <1>2
  <2>2. m \in Nat
    BY <2>1, FS_CardinalityType
  <2>3. j \notin s /\ j \notin t
    OBVIOUS
  <2>4. \A i \in 1 .. j : i = j \/ i \in 1 .. j - 1
    OBVIOUS
  <2>5. CASE classes[j] # k
    <3>1. s1 = s /\ t1 = t
      BY <2>4, <2>5
    <3> HIDE DEF s, t, s1, t1
    <3>2. IsFiniteSet(s1) /\ IsFiniteSet(t1) /\ Cardinality(t1) = Share(Cardinality(s1))
      BY <2>1, <3>1
    <3> QED
      BY <3>2 DEF s1, t1
  <2>6. CASE classes[j] = k
    <3>1. GroupOf(classes, j) = "treatment" <=> m % Stratum < Treated
      <4>1. SameBefore(classes, j) = m
        BY <2>6 DEF SameBefore
      <4> QED
        BY <4>1 DEF GroupOf
    <3>2. s1 = s \cup {j}
      BY <2>4, <2>6
    <3> DEFINE small == m % Stratum < Treated
    <3> HIDE DEF m
    <3> HIDE DEF small
    <3>3. (small => t1 = t \cup {j}) /\ (~small => t1 = t)
      <4>1. small => GroupOf(classes, j) = "treatment"
        BY <3>1 DEF small
      <4>2. ~small => GroupOf(classes, j) # "treatment"
        BY <3>1 DEF small
      <4> HIDE DEF s
      <4> QED
        BY <2>4, <2>6, <4>1, <4>2
    <3> HIDE DEF s, t, s1, t1
    <3>4. IsFiniteSet(s1) /\ Cardinality(s1) = m + 1
      BY <2>1, <2>3, <3>2, FS_AddElement DEF m
    <3>5. /\ IsFiniteSet(t1)
          /\ small => Cardinality(t1) = Cardinality(t) + 1
          /\ ~small => Cardinality(t1) = Cardinality(t)
      <4>1. CASE small
        BY <2>1, <2>3, <3>3, <4>1, FS_AddElement
      <4>2. CASE ~small
        BY <2>1, <3>3, <4>2
      <4> QED
        BY <4>1, <4>2
    <3>6. Cardinality(t1) = Share(m + 1)
      <4>1. Share(m + 1) = Share(m) + (IF small THEN 1 ELSE 0)
        BY <2>2, ShareNext DEF small
      <4>2. Share(m) \in Nat
        BY <2>2, ShareFacts
      <4> QED
        BY <2>1, <3>5, <4>1, <4>2
    <3> QED
      BY <3>4, <3>5, <3>6 DEF s1, t1
  <2> QED
    BY <2>5, <2>6
<1>3. n \in good
  <2> HIDE DEF good
  <2>1. \A j \in 1 .. n : j - 1 \in good => j \in good
    BY <1>2
  <2>2. n \in 0 .. n
    OBVIOUS
  <2> QED
    BY <1>1, <2>1, <2>2, HoldsUpTo
<1> QED
  BY <1>3, FS_CardinalityType

(* The cases of a class in a group.                                        *)
CountIn(s, group, class) ==
  Cardinality({i \in DOMAIN s : s[i].group = group /\ s[i].class = class})

OfClass(classes, class) == Cardinality({i \in DOMAIN classes : classes[i] = class})

LEMMA CountInType ==
  ASSUME NEW s \in Seq(CaseRow), NEW group, NEW class
  PROVE  CountIn(s, group, class) \in Nat
<1> DEFINE S == {i \in DOMAIN s : s[i].group = group /\ s[i].class = class}
<1>1. Len(s) \in Nat /\ DOMAIN s = 1 .. Len(s)
  BY LenProperties
<1>2. S \in SUBSET (1 .. Len(s)) /\ IsFiniteSet(1 .. Len(s))
  BY <1>1, FS_Interval
<1>3. CountIn(s, group, class) = Cardinality(S)
  BY DEF CountIn
<1> HIDE DEF S
<1> QED
  BY <1>2, <1>3, FS_Subset, FS_CardinalityType

LEMMA CountConcat ==
  ASSUME NEW s \in Seq(CaseRow), NEW u \in Seq(CaseRow), NEW group, NEW class
  PROVE  CountIn(s \o u, group, class) = CountIn(s, group, class) + CountIn(u, group, class)
<1> DEFINE l == Len(s)
           w == s \o u
           S == {i \in DOMAIN w : w[i].group = group /\ w[i].class = class}
           A == {i \in DOMAIN s : s[i].group = group /\ s[i].class = class}
           C == {i \in DOMAIN u : u[i].group = group /\ u[i].class = class}
           B == {i \in l + 1 .. l + Len(u) : w[i].group = group /\ w[i].class = class}
<1>1. /\ l \in Nat /\ DOMAIN s = 1 .. l
      /\ Len(u) \in Nat /\ DOMAIN u = 1 .. Len(u)
      /\ DOMAIN w = 1 .. l + Len(u)
  BY LenProperties, ConcatProperties
<1>2. \A i \in 1 .. l : i \in DOMAIN w /\ w[i] = s[i]
  BY <1>1, ConcatProperties
<1>3. \A i \in 1 .. Len(u) : i + l \in l + 1 .. l + Len(u) /\ w[i + l] = u[i]
  <2> TAKE i \in 1 .. Len(u)
  <2>1. i + l \in l + 1 .. l + Len(u) /\ i + l \in 1 .. l + Len(u) /\ ~(i + l <= l)
        /\ (i + l) - l = i
    BY <1>1
  <2>2. w[i + l] = u[(i + l) - l]
    BY <1>1, <2>1, ConcatProperties
  <2> QED
    BY <2>1, <2>2
<1> HIDE DEF w
<1>4. \A i \in l + 1 .. l + Len(u) :
        /\ i - l \in 1 .. Len(u) /\ (i - l) + l = i /\ i \notin 1 .. l
        /\ i \in 1 .. l + Len(u)
  BY <1>1
<1>5. IsFiniteSet(S)
  <2>1. S \in SUBSET (1 .. l + Len(u)) /\ IsFiniteSet(1 .. l + Len(u))
    BY <1>1, FS_Interval
  <2> HIDE DEF S
  <2> QED
    BY <2>1, FS_Subset
<1>6. A \cup B = S /\ A \cap B = {}
  <2>1. \A i \in 1 .. l + Len(u) : i \in 1 .. l \/ i \in l + 1 .. l + Len(u)
    BY <1>1
  <2>2. S \subseteq A \cup B
    BY <1>1, <1>2, <2>1
  <2>3. A \subseteq S
    BY <1>1, <1>2
  <2>4. B \subseteq S
    BY <1>1, <1>4
  <2>5. A \cap B = {}
    BY <1>1, <1>4
  <2> QED
    BY <2>2, <2>3, <2>4, <2>5
<1>7. Cardinality(B) = Cardinality(C)
  <2> DEFINE f == [i \in C |-> i + l]
  <2>1. IsFiniteSet(C)
    <3>1. C \in SUBSET (1 .. Len(u)) /\ IsFiniteSet(1 .. Len(u))
      BY <1>1, FS_Interval
    <3> HIDE DEF C
    <3> QED
      BY <3>1, FS_Subset
  <2>2. f \in [C -> B]
    BY <1>1, <1>3
  <2>3. \A x, y \in C : f[x] = f[y] => x = y
    BY <1>1
  <2>4. \A z \in B : \E x \in C : f[x] = z
    <3> TAKE z \in B
    <3>1. z - l \in 1 .. Len(u) /\ (z - l) + l = z /\ w[(z - l) + l] = u[z - l]
      BY <1>3, <1>4
    <3>2. z - l \in C
      BY <1>1, <3>1
    <3> QED
      BY <3>1, <3>2
  <2> HIDE DEF f, B, C
  <2> QED
    BY <2>1, <2>2, <2>3, <2>4, SameSize
<1>8. Cardinality(S) = Cardinality(A) + Cardinality(B)
  <2>1. A \in SUBSET S /\ B \in SUBSET S
    BY <1>6
  <2> HIDE DEF A, B, S
  <2>2. IsFiniteSet(A) /\ IsFiniteSet(B)
    BY <1>5, <2>1, FS_Subset
  <2>3. Cardinality(A) \in Nat /\ Cardinality(B) \in Nat /\ Cardinality(A \cap B) = 0
    BY <1>6, <2>2, FS_CardinalityType, FS_EmptySet
  <2>4. Cardinality(A \cup B) = Cardinality(A) + Cardinality(B) - Cardinality(A \cap B)
    BY <2>2, FS_Union
  <2> DEFINE both == A \cup B
  <2>5. both = S /\ Cardinality(both) = Cardinality(A) + Cardinality(B)
    BY <1>6, <2>3, <2>4
  <2> HIDE DEF both
  <2> QED
    BY <2>5
<1> QED
  BY <1>7, <1>8 DEF CountIn, w

(* What the table of cases and the batches tell of one class.              *)
ClassCounted(class) ==
  LET t == CountIn(cases, "treatment", class) c == CountIn(cases, "control", class)
  IN  /\ c = 0 <=> \A b \in DOMAIN batches : OfClass(batches[b], class) <= Treated
      /\ Stratum * t >= Treated * (t + c)

RatesInv ==
  /\ batches \in Seq(Seq(CaseClass))
  /\ \A class \in CaseClass : ClassCounted(class)

(* A batch of n cases adds the share of each class to the treated ones and *)
(* the rest to the control group.                                          *)
LEMMA BatchGroups ==
  ASSUME NEW n \in Nat, NEW classes \in [1 .. n -> CaseClass],
         NEW amount \in [1 .. n -> Amounts], NEW class \in CaseClass
  PROVE  LET new == [i \in 1 .. n |-> NewCase(classes[i], amount[i], GroupOf(classes, i))]
             m == OfClass(classes, class)
         IN  /\ new \in Seq(CaseRow) /\ m \in Nat
             /\ CountIn(new, "treatment", class) = Share(m)
             /\ CountIn(new, "control", class) = m - Share(m)
<1> DEFINE new == [i \in 1 .. n |-> NewCase(classes[i], amount[i], GroupOf(classes, i))]
           S == {i \in 1 .. n : classes[i] = class}
           T == {i \in 1 .. n : classes[i] = class /\ GroupOf(classes, i) = "treatment"}
           C == {i \in 1 .. n : classes[i] = class /\ GroupOf(classes, i) = "control"}
           m == Cardinality(S)
<1>1. DOMAIN classes = 1 .. n /\ DOMAIN new = 1 .. n
  OBVIOUS
<1>2. OfClass(classes, class) = m
  BY <1>1 DEF OfClass
<1>3. m \in Nat /\ Cardinality(T) = Share(m)
  BY TreatedOfBatch
<1>4. new \in Seq(CaseRow)
  <2>1. \A i \in 1 .. n : NewCase(classes[i], amount[i], GroupOf(classes, i)) \in CaseRow
    BY NewCaseType, GroupOfType
  <2>2. new \in [1 .. n -> CaseRow]
    BY <2>1
  <2> HIDE DEF new
  <2> QED
    BY <2>2
<1>5. \A i \in 1 .. n : new[i].class = classes[i] /\ new[i].group = GroupOf(classes, i)
  BY DEF NewCase
<1> HIDE DEF new
<1>6. /\ CountIn(new, "treatment", class) = Cardinality(T)
      /\ CountIn(new, "control", class) = Cardinality(C)
  <2>1. /\ {i \in DOMAIN new : new[i].group = "treatment" /\ new[i].class = class} = T
        /\ {i \in DOMAIN new : new[i].group = "control" /\ new[i].class = class} = C
    BY <1>1, <1>5
  <2> HIDE DEF T, C
  <2> QED
    BY <2>1 DEF CountIn
<1>7. Cardinality(S) = Cardinality(T) + Cardinality(C) /\ Cardinality(C) \in Nat
  <2>1. T \cup C = S /\ T \cap C = {} /\ T \in SUBSET (1 .. n) /\ C \in SUBSET (1 .. n)
    BY GroupOfType
  <2> HIDE DEF S, T, C
  <2>2. IsFiniteSet(T) /\ IsFiniteSet(C)
    <3>1. IsFiniteSet(1 .. n)
      BY FS_Interval
    <3> QED
      BY <2>1, <3>1, FS_Subset
  <2>3. Cardinality(T) \in Nat /\ Cardinality(C) \in Nat /\ Cardinality(T \cap C) = 0
    BY <2>1, <2>2, FS_CardinalityType, FS_EmptySet
  <2>4. Cardinality(T \cup C) = Cardinality(T) + Cardinality(C) - Cardinality(T \cap C)
    BY <2>2, FS_Union
  <2> DEFINE both == T \cup C
  <2>5. both = S /\ Cardinality(both) = Cardinality(T) + Cardinality(C)
    BY <2>1, <2>3, <2>4
  <2> HIDE DEF both
  <2> QED
    BY <2>3, <2>5
<1>8. Share(m) \in Nat
  BY <1>3, ShareFacts
<1> HIDE DEF S, T, C
<1>9. CountIn(new, "control", class) = m - Share(m)
  BY <1>3, <1>6, <1>7, <1>8
<1> QED
  BY <1>2, <1>3, <1>4, <1>6, <1>9 DEF new

LEMMA BatchKeepsRates ==
  ASSUME CasesInv, RatesInv, NEW n \in 1 .. MaxCases, NEW classes \in [1 .. n -> CaseClass],
         IngestBatch(classes), NEW class \in CaseClass
  PROVE  batches' \in Seq(Seq(CaseClass)) /\ ClassCounted(class)'
<1>1. n \in Nat /\ Len(classes) = n /\ classes \in Seq(CaseClass) /\ DOMAIN classes = 1 .. n
  BY ReportAssumption
<1>2. PICK amount \in [DOMAIN classes -> Amounts] :
        cases' = cases \o [i \in DOMAIN classes |->
                             NewCase(classes[i], amount[i], GroupOf(classes, i))]
  BY DEF IngestBatch
<1> DEFINE new == [i \in 1 .. n |-> NewCase(classes[i], amount[i], GroupOf(classes, i))]
           m == OfClass(classes, class)
           t == CountIn(cases, "treatment", class)
           c == CountIn(cases, "control", class)
           t1 == CountIn(cases', "treatment", class)
           c1 == CountIn(cases', "control", class)
           Small(bs) == \A b \in DOMAIN bs : OfClass(bs[b], class) <= Treated
<1>3. amount \in [1 .. n -> Amounts] /\ cases' = cases \o new
  BY <1>1, <1>2
<1>4. /\ new \in Seq(CaseRow) /\ m \in Nat
      /\ CountIn(new, "treatment", class) = Share(m)
      /\ CountIn(new, "control", class) = m - Share(m)
  BY <1>1, <1>3, BatchGroups
<1>5. cases \in Seq(CaseRow)
  BY DEF CasesInv
<1> HIDE DEF new, m
<1>6. t1 = t + Share(m) /\ c1 = c + (m - Share(m)) /\ t \in Nat /\ c \in Nat
  BY <1>3, <1>4, <1>5, CountConcat, CountInType
<1>7. /\ Share(m) \in Nat /\ Share(m) <= m
      /\ Share(m) = m <=> m <= Treated
      /\ Stratum * Share(m) >= Treated * m
  BY <1>4, ShareFacts
<1>8. batches \in Seq(Seq(CaseClass)) /\ batches' = Append(batches, classes)
  BY DEF RatesInv, IngestBatch
<1>9. Small(batches') <=> Small(batches) /\ m <= Treated
  <2> DEFINE bs == batches
             bs1 == batches'
             l == Len(bs)
  <2>1. /\ l \in Nat /\ DOMAIN bs = 1 .. l /\ DOMAIN bs1 = 1 .. l + 1
        /\ \A b \in 1 .. l : bs1[b] = bs[b]
        /\ bs1[l + 1] = classes
    BY <1>1, <1>8, AppendProperties, LenProperties
  <2> HIDE DEF bs, bs1, l
  <2>2. \A b \in 1 .. l + 1 : b \in 1 .. l \/ b = l + 1
    BY <2>1
  <2>3. l + 1 \in 1 .. l + 1 /\ \A b \in 1 .. l : b \in 1 .. l + 1
    BY <2>1
  <2>4. Small(bs1) <=> Small(bs) /\ m <= Treated
    BY <2>1, <2>2, <2>3 DEF m
  <2> QED
    BY <2>4 DEF bs, bs1
<1>10. (c = 0 <=> Small(batches)) /\ Stratum * t >= Treated * (t + c)
  BY DEF RatesInv, ClassCounted
<1> HIDE DEF t, c, t1, c1, Small
<1>11. c1 = 0 <=> Small(batches')
  BY <1>4, <1>6, <1>7, <1>9, <1>10
<1>12. Stratum * t1 >= Treated * (t1 + c1)
  <2>1. Stratum \in Nat /\ Treated \in Nat
    BY ReportAssumption
  <2>2. t1 + c1 = (t + c) + m
    BY <1>4, <1>6, <1>7
  <2> DEFINE s == Share(m)
  <2>3. /\ s \in Nat /\ t1 = t + s /\ t \in Nat /\ c \in Nat /\ m \in Nat
        /\ Stratum * s >= Treated * m
    BY <1>4, <1>6, <1>7
  <2> HIDE DEF s
  <2>4. Stratum * t1 = Stratum * t + Stratum * s
    BY <2>1, <2>3
  <2>5. Treated * ((t + c) + m) = Treated * (t + c) + Treated * m
    BY <2>1, <2>3
  <2>6. /\ Stratum * t \in Nat /\ Stratum * s \in Nat
        /\ Treated * (t + c) \in Nat /\ Treated * m \in Nat
    BY <2>1, <2>3
  <2> QED
    BY <1>10, <2>2, <2>3, <2>4, <2>5, <2>6
<1>13. batches' \in Seq(Seq(CaseClass))
  BY <1>1, <1>8
<1> QED
  BY <1>11, <1>12, <1>13 DEF ClassCounted, t1, c1, Small

LEMMA LiveKeepsRates ==
  ASSUME CasesInv, RatesInv, NEW class \in CaseClass,
         NEW k \in CaseClass, NEW amount \in Amounts, IngestLive(k, amount)
  PROVE  ClassCounted(class)'
<1> DEFINE row == NewCase(k, amount, "treatment")
           new == <<row>>
           t == CountIn(cases, "treatment", class)
           c == CountIn(cases, "control", class)
           t1 == CountIn(cases', "treatment", class)
           c1 == CountIn(cases', "control", class)
<1>1. row \in CaseRow /\ row.group = "treatment" /\ row.class = k
  BY NewCaseType DEF NewCase
<1>2. cases \in Seq(CaseRow) /\ cases' = Append(cases, row) /\ batches' = batches
  BY DEF CasesInv, IngestLive
<1> HIDE DEF row
<1>3. new \in Seq(CaseRow) /\ cases' = cases \o new
  BY <1>1, <1>2
<1>4. CountIn(new, "treatment", class) \in Nat /\ CountIn(new, "control", class) = 0
  <2>1. {i \in DOMAIN new : new[i].group = "control" /\ new[i].class = class} = {}
    BY <1>1
  <2> HIDE DEF new
  <2>2. CountIn(new, "control", class) = 0
    BY <2>1, FS_EmptySet DEF CountIn
  <2> QED
    BY <1>3, <2>2, CountInType
<1> HIDE DEF new
<1>5. /\ t1 = t + CountIn(new, "treatment", class) /\ c1 = c
      /\ t \in Nat /\ c \in Nat
  BY <1>2, <1>3, <1>4, CountConcat, CountInType
<1>6. /\ c = 0 <=> \A b \in DOMAIN batches : OfClass(batches[b], class) <= Treated
      /\ Stratum * t >= Treated * (t + c)
  BY DEF RatesInv, ClassCounted
<1> HIDE DEF t, c, t1, c1
<1>7. Stratum * t1 >= Treated * (t1 + c1)
  <2> DEFINE s == CountIn(new, "treatment", class)
  <2>1. Stratum \in Nat /\ Treated \in Nat /\ Treated < Stratum
    BY ReportAssumption
  <2>2. s \in Nat /\ t1 = t + s /\ c1 = c /\ t \in Nat /\ c \in Nat
    BY <1>4, <1>5
  <2> HIDE DEF s
  <2>3. Stratum * t1 = Stratum * t + Stratum * s
    BY <2>1, <2>2
  <2>4. Treated * (t1 + c1) = Treated * (t + c) + Treated * s
    BY <2>1, <2>2
  <2>5. Treated * s <= Stratum * s
    BY <2>1, <2>2
  <2>6. /\ Stratum * t \in Nat /\ Stratum * s \in Nat
        /\ Treated * (t + c) \in Nat /\ Treated * s \in Nat
    BY <2>1, <2>2
  <2> QED
    BY <1>6, <2>3, <2>4, <2>5, <2>6
<1> QED
  BY <1>2, <1>5, <1>6, <1>7 DEF ClassCounted, t1, c1

(* A step of a case leaves its class and group as they are.                *)
LEMMA StepsOfCasesKeepRates ==
  ASSUME CasesInv, RatesInv, NEW class \in CaseClass, NEW i \in DOMAIN cases, NEW d,
         d.group = cases[i].group, d.class = cases[i].class, Changes(i, d)
  PROVE  ClassCounted(class)'
<1>1. cases' = [cases EXCEPT ![i] = d] /\ batches' = batches
  BY DEF Changes
<1>2. DOMAIN cases' = DOMAIN cases
  BY <1>1
<1>3. \A j \in DOMAIN cases : cases'[j].group = cases[j].group /\ cases'[j].class = cases[j].class
  BY <1>1
<1>4. \A group : CountIn(cases', group, class) = CountIn(cases, group, class)
  <2> TAKE group
  <2> DEFINE S == {j \in DOMAIN cases : cases[j].group = group /\ cases[j].class = class}
             S1 == {j \in DOMAIN cases' : cases'[j].group = group /\ cases'[j].class = class}
  <2>1. S1 = S
    BY <1>2, <1>3
  <2>2. CountIn(cases, group, class) = Cardinality(S)
        /\ CountIn(cases', group, class) = Cardinality(S1)
    BY DEF CountIn
  <2> HIDE DEF S, S1
  <2> QED
    BY <2>1, <2>2
<1> QED
  BY <1>1, <1>4 DEF RatesInv, ClassCounted

LEMMA StepsKeepRates == CasesInv /\ RatesInv /\ [ReportNext]_reportVars => RatesInv'
<1> SUFFICES ASSUME CasesInv, RatesInv, [ReportNext]_reportVars
             PROVE  /\ batches' \in Seq(Seq(CaseClass))
                    /\ \A class \in CaseClass : ClassCounted(class)'
  BY DEF RatesInv
<1>0. /\ batches \in Seq(Seq(CaseClass))
      /\ \A i \in DOMAIN cases : cases[i] \in CaseRow
  BY CaseFacts DEF RatesInv
<1>1. CASE \E n \in 1 .. MaxCases : \E classes \in [1 .. n -> CaseClass] : IngestBatch(classes)
  <2>1. PICK n \in 1 .. MaxCases : \E classes \in [1 .. n -> CaseClass] : IngestBatch(classes)
    BY <1>1
  <2>2. PICK classes \in [1 .. n -> CaseClass] : IngestBatch(classes)
    BY <2>1
  <2>3. batches' \in Seq(Seq(CaseClass))
    <3>1. classes \in Seq(CaseClass) /\ batches' = Append(batches, classes)
      BY <2>2, ReportAssumption DEF IngestBatch
    <3> QED
      BY <1>0, <3>1
  <2> QED
    BY <2>2, <2>3, BatchKeepsRates
<1>2. CASE \E k \in CaseClass, amount \in Amounts : IngestLive(k, amount)
  BY <1>0, <1>2, LiveKeepsRates DEF IngestLive
<1>3. ASSUME NEW i \in DOMAIN cases,
             \/ \E type \in ActionTypes : ExecuteAction(i, type)
             \/ \E amount \in Payments : MarkRecovered(i, amount)
             \/ PromiseMade(i)
             \/ WriteOff(i)
      PROVE  /\ batches' \in Seq(Seq(CaseClass))
             /\ \A class \in CaseClass : ClassCounted(class)'
  <2>1. PICK d : d.group = cases[i].group /\ d.class = cases[i].class /\ Changes(i, d)
    <3>0. cases[i] \in CaseRow
      BY <1>0
    <3>1. CASE \E type \in ActionTypes : ExecuteAction(i, type)
      BY <3>0, <3>1 DEF ExecuteAction, CaseRow
    <3>2. CASE \E amount \in Payments : MarkRecovered(i, amount)
      BY <3>0, <3>2 DEF MarkRecovered, CaseRow
    <3>3. CASE PromiseMade(i)
      BY <3>0, <3>3 DEF PromiseMade, CaseRow
    <3>4. CASE WriteOff(i)
      BY <3>0, <3>4 DEF WriteOff, CaseRow
    <3> QED
      BY <1>3, <3>1, <3>2, <3>3, <3>4
  <2>2. batches' \in Seq(Seq(CaseClass))
    BY <1>0, <2>1 DEF Changes
  <2> QED
    BY <2>1, <2>2, StepsOfCasesKeepRates
<1>4. CASE UNCHANGED reportVars
  BY <1>4 DEF reportVars, RatesInv, ClassCounted
<1> QED
  BY <1>1, <1>2, <1>3, <1>4 DEF ReportNext

LEMMA RatesAreBare == CasesInv /\ RatesInv => BareLiftOfSmallStrata
<1> SUFFICES ASSUME CasesInv, RatesInv, NEW class \in CaseClass
             PROVE  LET rates == ClassRates(class)
                    IN  /\ rates["control"].n = 0 <=>
                             \A b \in DOMAIN batches : InBatch(class, b) <= Treated
                        /\ Stratum * rates["treatment"].n >=
                             Treated * (rates["treatment"].n + rates["control"].n)
  BY DEF BareLiftOfSmallStrata
<1>1. \A group \in {"treatment", "control"} :
        ClassRates(class)[group].n = CountIn(cases, group, class)
  <2> TAKE group \in {"treatment", "control"}
  <2> DEFINE S == {i \in InGroup(group) : cases[i].class = class}
             C == {i \in DOMAIN cases : cases[i].group = group /\ cases[i].class = class}
  <2>1. S = C
    BY DEF InGroup
  <2>2. ClassRates(class)[group].n = Cardinality(S)
    BY DEF ClassRates
  <2>3. CountIn(cases, group, class) = Cardinality(C)
    BY DEF CountIn
  <2> HIDE DEF S, C
  <2> QED
    BY <2>1, <2>2, <2>3
<1>2. \A b \in DOMAIN batches : InBatch(class, b) = OfClass(batches[b], class)
  BY DEF InBatch, OfClass
<1>3. ClassCounted(class)
  BY DEF RatesInv
<1> DEFINE rates == ClassRates(class)
<1> HIDE DEF rates
<1>4. /\ rates["treatment"].n = CountIn(cases, "treatment", class)
      /\ rates["control"].n = CountIn(cases, "control", class)
  BY <1>1 DEF rates
<1>5. /\ rates["control"].n = 0 <=>
           \A b \in DOMAIN batches : InBatch(class, b) <= Treated
      /\ Stratum * rates["treatment"].n >=
           Treated * (rates["treatment"].n + rates["control"].n)
  BY <1>2, <1>3, <1>4 DEF ClassCounted
<1> QED
  BY <1>5 DEF rates

(* A class is without control cases exactly when no single batch had more  *)
(* cases of it than the treated share of a stratum, whatever the batches,  *)
(* the live failures between them and what happens to the cases, and the   *)
(* treated cases are never fewer than that share (batch_generator.py:      *)
(* 113-123, measure.py:77-90).                                             *)
THEOREM ReportLiftIsBare == ReportSpec => []BareLiftOfSmallStrata
<1>1. ReportInit => RatesInv
  <2> SUFFICES ASSUME ReportInit, NEW class \in CaseClass PROVE ClassCounted(class) /\ batches = <<>>
    BY DEF RatesInv, ReportInit
  <2>1. cases = <<>> /\ batches = <<>>
    BY DEF ReportInit
  <2>2. \A group : CountIn(cases, group, class) = 0
    <3> TAKE group
    <3>1. {i \in DOMAIN cases : cases[i].group = group /\ cases[i].class = class} = {}
      BY <2>1
    <3> QED
      BY <3>1, FS_EmptySet DEF CountIn
  <2> QED
    BY <2>1, <2>2, ReportAssumption DEF ClassCounted
<1> QED
  BY <1>1, CasesAlways, StepsKeepRates, RatesAreBare, PTL DEF ReportSpec

-----------------------------------------------------------------------------
(***************************************************************************)
(* The choice of cases for review, for any list of cases and any capacity: *)
(* the table holds the best that fits, and the reconstruction finds a set  *)
(* of cases that is worth it.                                              *)
(***************************************************************************)

(* A function that begins at x and goes from each value to the next by a   *)
(* step of its own.                                                        *)
StepsUpTo(f, X, x, step, m) ==
  /\ f \in [0 .. m -> X] /\ f[0] = x
  /\ \A n \in 1 .. m : f[n] = step[n][f[n - 1]]

LEMMA OneMoreStep ==
  ASSUME NEW last \in Nat, NEW X, NEW x \in X, NEW step \in [1 .. last -> [X -> X]],
         NEW m \in 1 .. last, NEW f, StepsUpTo(f, X, x, step, m - 1)
  PROVE  \E g : StepsUpTo(g, X, x, step, m)
<1> DEFINE g == [n \in 0 .. m |-> IF n = m THEN step[m][f[m - 1]] ELSE f[n]]
<1>1. /\ m \in Nat \ {0} /\ m - 1 \in 0 .. m - 1
      /\ \A n \in 0 .. m : n = m \/ n \in 0 .. m - 1
      /\ \A n \in 1 .. m : n = m \/ n \in 1 .. m - 1
      /\ \A n \in 1 .. m : n - 1 \in 0 .. m - 1 /\ n - 1 # m /\ n \in 0 .. m
      /\ 0 \in 0 .. m /\ 0 # m
  OBVIOUS
<1>2. /\ f \in [0 .. m - 1 -> X] /\ f[0] = x
      /\ \A n \in 1 .. m - 1 : f[n] = step[n][f[n - 1]]
  BY DEF StepsUpTo
<1>3. g[m] \in X /\ g[m] = step[m][f[m - 1]]
  <2>1. step[m] \in [X -> X] /\ f[m - 1] \in X
    BY <1>1, <1>2
  <2>2. step[m][f[m - 1]] \in X
    BY <2>1
  <2>3. m \in 0 .. m
    BY <1>1
  <2> QED
    BY <2>2, <2>3
<1>4. \A n \in 0 .. m - 1 : n \in 0 .. m /\ n # m /\ g[n] = f[n] /\ f[n] \in X
  BY <1>1, <1>2
<1>5. g \in [0 .. m -> X]
  <2>1. \A n \in 0 .. m : g[n] \in X
    BY <1>1, <1>3, <1>4
  <2>2. g = [n \in 0 .. m |-> g[n]]
    OBVIOUS
  <2> HIDE DEF g
  <2> QED
    BY <2>1, <2>2
<1>6. g[0] = x
  BY <1>1, <1>2
<1> HIDE DEF g
<1>7. \A n \in 1 .. m : g[n] = step[n][g[n - 1]]
  <2> TAKE n \in 1 .. m
  <2>1. n - 1 \in 0 .. m - 1 /\ g[n - 1] = f[n - 1]
    BY <1>1, <1>4
  <2>2. CASE n = m
    BY <1>3, <2>1, <2>2
  <2>3. CASE n \in 1 .. m - 1
    <3>1. f[n] = step[n][f[n - 1]] /\ n \in 0 .. m - 1
      BY <1>2, <2>3
    <3> QED
      BY <1>4, <2>1, <3>1
  <2> QED
    BY <1>1, <2>2, <2>3
<1> QED
  BY <1>5, <1>6, <1>7 DEF StepsUpTo

LEMMA Stepwise ==
  ASSUME NEW last \in Nat, NEW X, NEW x \in X, NEW step \in [1 .. last -> [X -> X]]
  PROVE  \E f : StepsUpTo(f, X, x, step, last)
<1> DEFINE good == {m \in 0 .. last : \E f : StepsUpTo(f, X, x, step, m)}
<1>1. 0 \in good
  <2>1. 0 .. 0 = {0} /\ 1 .. 0 = {}
    OBVIOUS
  <2>2. StepsUpTo([n \in {0} |-> x], X, x, step, 0)
    BY <2>1 DEF StepsUpTo
  <2> QED
    BY <2>2
<1>2. \A m \in 1 .. last : m - 1 \in good => m \in good
  BY OneMoreStep
<1>3. last \in good
  <2>1. last \in 0 .. last
    OBVIOUS
  <2> HIDE DEF good
  <2> QED
    BY <1>1, <1>2, <2>1, HoldsUpTo
<1> QED
  BY <1>3

-----------------------------------------------------------------------------
ReviewCase == [value : Nat, hours : Nat]

(* The hundredths of a time, one fewer where the product falls short.      *)
LEMMA UnitsFacts ==
  ASSUME NEW h \in Nat
  PROVE  /\ Units(h) \in Nat /\ 10 * Units(h) <= h /\ h <= 10 * Units(h) + 10
         /\ h \notin Short => h <= 10 * Units(h) + 9
<1>1. h \div 10 \in Nat /\ 10 * (h \div 10) <= h /\ h <= 10 * (h \div 10) + 9
  OBVIOUS
<1>2. CASE h \in Short
  <2>1. h >= 10 /\ h % 10 = 0
    BY <1>2, PortfolioAssumption
  <2>2. h = 10 * (h \div 10)
    BY <2>1
  <2>3. Units(h) = h \div 10 - 1
    BY <1>2 DEF Units
  <2> DEFINE k == h \div 10
  <2>4. k \in Nat /\ h = 10 * k /\ k >= 1 /\ Units(h) = k - 1
    BY <1>1, <2>1, <2>2, <2>3
  <2> HIDE DEF k
  <2> QED
    BY <1>2, <2>4
<1>3. CASE h \notin Short
  BY <1>1, <1>3 DEF Units
<1> QED
  BY <1>2, <1>3

Worths(cs) == [i \in DOMAIN cs |-> cs[i].value]
Loads(cs) == [i \in DOMAIN cs |-> Units(cs[i].hours)]
Times(cs) == [i \in DOMAIN cs |-> cs[i].hours]

LEMMA ReviewFacts ==
  ASSUME NEW cs \in Seq(ReviewCase)
  PROVE  /\ Len(cs) \in Nat /\ DOMAIN cs = 1 .. Len(cs)
         /\ \A s \in {Worths(cs), Loads(cs), Times(cs)} : s \in Seq(Int) /\ Len(s) = Len(cs)
         /\ \A n \in 1 .. Len(cs) :
              /\ cs[n].value \in Nat /\ Worths(cs)[n] = cs[n].value
              /\ Units(cs[n].hours) \in Nat /\ Loads(cs)[n] = Units(cs[n].hours)
              /\ cs[n].hours \in Nat /\ Times(cs)[n] = cs[n].hours
<1>1. Len(cs) \in Nat /\ DOMAIN cs = 1 .. Len(cs)
  BY LenProperties
<1>2. \A n \in 1 .. Len(cs) : cs[n].value \in Nat /\ cs[n].hours \in Nat
  <2> TAKE n \in 1 .. Len(cs)
  <2>1. cs[n] \in ReviewCase
    BY ElementOfSeq
  <2> QED
    BY <2>1 DEF ReviewCase
<1>3. \A n \in 1 .. Len(cs) : Units(cs[n].hours) \in Nat
  BY <1>2, UnitsFacts
<1>4. /\ Worths(cs) \in [1 .. Len(cs) -> Int] /\ Loads(cs) \in [1 .. Len(cs) -> Int]
      /\ Times(cs) \in [1 .. Len(cs) -> Int]
  BY <1>1, <1>2, <1>3 DEF Worths, Loads, Times
<1>5. \A s \in {Worths(cs), Loads(cs), Times(cs)} : s \in Seq(Int) /\ Len(s) = Len(cs)
  BY <1>1, <1>4, SeqOfInt
<1> QED
  BY <1>1, <1>2, <1>3, <1>5 DEF Worths, Loads, Times

Budgets(capacity) == 0 .. Units(capacity)

LEMMA BestFacts ==
  ASSUME NEW cs \in Seq(ReviewCase), NEW capacity \in Nat
  PROVE  /\ Best(cs, capacity) \in [0 .. Len(cs) -> [Budgets(capacity) -> Nat]]
         /\ \A c \in Budgets(capacity) : Best(cs, capacity)[0][c] = 0
         /\ \A n \in 1 .. Len(cs) :
              Best(cs, capacity)[n] = NextRow(Best(cs, capacity)[n - 1], cs[n], capacity)
<1> DEFINE last == Len(cs)
           within == Budgets(capacity)
           X == [within -> Nat]
           zero == [c \in within |-> 0]
           Rows(f) == f = [i \in 0 .. last |-> IF i = 0 THEN zero
                                                ELSE NextRow(f[i - 1], cs[i], capacity)]
           step == [n \in 1 .. last |-> [above \in X |-> NextRow(above, cs[n], capacity)]]
<1>1. last \in Nat /\ Units(capacity) \in Nat
  BY LenProperties, UnitsFacts
<1>2. Best(cs, capacity) = CHOOSE f : Rows(f)
  BY DEF Best, Budgets
<1>3. ASSUME NEW n \in 1 .. last, NEW above \in X
      PROVE  NextRow(above, cs[n], capacity) \in X
  <2> DEFINE load == Units(cs[n].hours)
             worth == cs[n].value
  <2>1. load \in Nat /\ worth \in Nat
    BY ReviewFacts
  <2> HIDE DEF load, worth
  <2>2. ASSUME NEW c \in within
        PROVE  (IF load <= c THEN MaxOf(above[c], above[c - load] + worth) ELSE above[c]) \in Nat
    <3>1. above[c] \in Nat
      OBVIOUS
    <3>2. CASE load <= c
      <4>1. c - load \in within
        BY <1>1, <2>1, <3>2 DEF Budgets
      <4>2. above[c - load] \in Nat
        BY <4>1
      <4> QED
        BY <2>1, <3>1, <3>2, <4>2 DEF MaxOf
    <3> QED
      BY <3>1, <3>2
  <2> QED
    BY <2>2 DEF NextRow, Budgets, load, worth
<1>4. step \in [1 .. last -> [X -> X]]
  BY <1>3
<1>5. zero \in X
  OBVIOUS
<1>6. PICK f : StepsUpTo(f, X, zero, step, last)
  <2> HIDE DEF X, zero, step, last
  <2> QED
    BY <1>1, <1>4, <1>5, Stepwise
<1>7. /\ f \in [0 .. last -> X] /\ f[0] = zero
      /\ \A n \in 1 .. last : f[n] = NextRow(f[n - 1], cs[n], capacity)
  <2>1. f \in [0 .. last -> X] /\ f[0] = zero /\ \A n \in 1 .. last : f[n] = step[n][f[n - 1]]
    BY <1>6 DEF StepsUpTo
  <2>2. \A n \in 1 .. last : f[n - 1] \in X
    <3> TAKE n \in 1 .. last
    <3>1. n - 1 \in 0 .. last
      BY <1>1
    <3> HIDE DEF X
    <3> QED
      BY <2>1, <3>1
  <2> HIDE DEF X, zero
  <2> QED
    BY <2>1, <2>2
<1>8. Rows(f)
  <2>1. \A i \in 0 .. last : f[i] = IF i = 0 THEN zero ELSE NextRow(f[i - 1], cs[i], capacity)
    <3> HIDE DEF zero, X
    <3> QED
      BY <1>1, <1>7
  <2>2. f = [i \in 0 .. last |-> f[i]]
    <3> HIDE DEF X
    <3> QED
      BY <1>7
  <2> HIDE DEF zero, X
  <2> QED
    BY <2>1, <2>2
<1>9. Rows(Best(cs, capacity))
  <2> HIDE DEF Rows
  <2> QED
    BY <1>2, <1>8
<1> DEFINE e == Best(cs, capacity)
<1>10. /\ DOMAIN e = 0 .. last /\ e = [i \in 0 .. last |-> e[i]] /\ e[0] = zero
       /\ \A n \in 1 .. last : e[n] = NextRow(e[n - 1], cs[n], capacity)
  <2>1. e = [i \in 0 .. last |-> IF i = 0 THEN zero ELSE NextRow(e[i - 1], cs[i], capacity)]
    BY <1>9
  <2> HIDE DEF zero, e
  <2>2. \A i \in 0 .. last : e[i] = IF i = 0 THEN zero ELSE NextRow(e[i - 1], cs[i], capacity)
    BY <2>1
  <2> QED
    BY <1>1, <2>1, <2>2
<1> HIDE DEF e, Rows
<1>11. \A n \in 0 .. last : e[n] \in X
  <2> DEFINE whole == {n \in 0 .. last : e[n] \in X}
  <2>1. \A n \in 1 .. last : n - 1 \in whole => n \in whole
    <3> SUFFICES ASSUME NEW n \in 1 .. last, n - 1 \in whole PROVE n \in whole
      OBVIOUS
    <3>1. NextRow(e[n - 1], cs[n], capacity) \in X
      <4> HIDE DEF X
      <4> QED
        BY <1>3
    <3>2. n \in 0 .. last /\ e[n] = NextRow(e[n - 1], cs[n], capacity)
      <4>1. n \in 0 .. last
        BY <1>1
      <4>2. \A i \in 1 .. last : e[i] = NextRow(e[i - 1], cs[i], capacity)
        BY <1>10
      <4> QED
        BY <4>1, <4>2
    <3> HIDE DEF X
    <3>3. e[n] \in X
      BY <3>1, <3>2
    <3> QED
      BY <3>2, <3>3
  <2>2. 0 \in whole
    BY <1>1, <1>5, <1>10
  <2>3. 0 .. last \subseteq whole
    <3> HIDE DEF whole, last
    <3> QED
      BY <1>1, <2>1, <2>2, HoldsUpTo
  <2> HIDE DEF X
  <2> QED
    BY <2>3
<1>12. e \in [0 .. last -> X]
  <2> HIDE DEF X
  <2> QED
    BY <1>10, <1>11
<1>13. \A c \in within : e[0][c] = 0
  BY <1>10
<1> QED
  BY <1>10, <1>12, <1>13 DEF e

(* A place of the table, from the row above.                               *)
LEMMA BestOfMore ==
  ASSUME NEW cs \in Seq(ReviewCase), NEW capacity \in Nat, NEW n \in 1 .. Len(cs),
         NEW c \in Budgets(capacity)
  PROVE  LET dp == Best(cs, capacity)
             with == dp[n - 1][c - Loads(cs)[n]] + Worths(cs)[n]
         IN  /\ dp[n][c] \in Nat /\ dp[n - 1][c] \in Nat /\ c \in Nat
             /\ dp[n][c] = IF Loads(cs)[n] <= c THEN MaxOf(dp[n - 1][c], with) ELSE dp[n - 1][c]
             /\ Loads(cs)[n] <= c => /\ c - Loads(cs)[n] \in Budgets(capacity)
                                     /\ dp[n - 1][c - Loads(cs)[n]] \in Nat
<1> DEFINE dp == Best(cs, capacity)
           load == Loads(cs)[n]
           within == Budgets(capacity)
<1>0. Units(capacity) \in Nat
  BY UnitsFacts
<1>1. Len(cs) \in Nat /\ load \in Nat /\ Worths(cs)[n] \in Nat /\ Units(capacity) \in Nat
  BY <1>0, ReviewFacts
<1>2. n \in 0 .. Len(cs) /\ n - 1 \in 0 .. Len(cs) /\ c \in Nat
  BY <1>1 DEF Budgets
<1>3. dp \in [0 .. Len(cs) -> [within -> Nat]] /\ dp[n] = NextRow(dp[n - 1], cs[n], capacity)
  BY BestFacts
<1>4. dp[n] \in [within -> Nat] /\ dp[n - 1] \in [within -> Nat]
  BY <1>2, <1>3
<1>5. Units(cs[n].hours) = load /\ cs[n].value = Worths(cs)[n]
  BY ReviewFacts
<1> HIDE DEF dp, load
<1>6. dp[n][c] = IF load <= c THEN MaxOf(dp[n - 1][c], dp[n - 1][c - load] + Worths(cs)[n])
                 ELSE dp[n - 1][c]
  BY <1>3, <1>5 DEF NextRow, Budgets
<1>7. load <= c => c - load \in within
  BY <1>1, <1>2 DEF Budgets
<1>8. load <= c => dp[n - 1][c - load] \in Nat
  BY <1>4, <1>7
<1> QED
  BY <1>2, <1>4, <1>6, <1>7, <1>8 DEF dp, load

(* What fits in c units among the first n cases is worth at most the place *)
(* of the table.                                                           *)
LEMMA NoneIsBetter ==
  ASSUME NEW cs \in Seq(ReviewCase), NEW capacity \in Nat, NEW S
  PROVE  \A n \in 0 .. Len(cs) : \A c \in Budgets(capacity) :
           SumsOf(At(Loads(cs), S))[n] <= c => SumsOf(At(Worths(cs), S))[n] <= Best(cs, capacity)[n][c]
<1> DEFINE last == Len(cs)
           within == Budgets(capacity)
           dp == Best(cs, capacity)
           loads == SumsOf(At(Loads(cs), S))
           worths == SumsOf(At(Worths(cs), S))
           Fits(n) == \A c \in within : loads[n] <= c => worths[n] <= dp[n][c]
           good == {n \in 0 .. last : loads[n] >= 0 /\ Fits(n)}
<1>1. /\ Loads(cs) \in Seq(Int) /\ Len(Loads(cs)) = last
      /\ Worths(cs) \in Seq(Int) /\ Len(Worths(cs)) = last /\ last \in Nat
  BY ReviewFacts
<1>2. /\ At(Loads(cs), S) \in Seq(Int) /\ Len(At(Loads(cs), S)) = last
      /\ At(Worths(cs), S) \in Seq(Int) /\ Len(At(Worths(cs), S)) = last
  BY <1>1, AtFacts
<1>3. loads[0] = 0 /\ worths[0] = 0
  BY <1>2, SumsFacts
<1>4. \A n \in 0 .. last : loads[n] \in Int /\ worths[n] \in Int
  BY <1>2, SumsType
<1>5. ASSUME NEW n \in 1 .. last
      PROVE  /\ Loads(cs)[n] \in Nat /\ Worths(cs)[n] \in Nat
             /\ loads[n] = loads[n - 1] + IF n \in S THEN Loads(cs)[n] ELSE 0
             /\ worths[n] = worths[n - 1] + IF n \in S THEN Worths(cs)[n] ELSE 0
  <2>1. Loads(cs)[n] \in Nat /\ Worths(cs)[n] \in Nat
    BY ReviewFacts
  <2>2. /\ At(Loads(cs), S)[n] = IF n \in S THEN Loads(cs)[n] ELSE 0
        /\ At(Worths(cs), S)[n] = IF n \in S THEN Worths(cs)[n] ELSE 0
    BY <1>1, AtFacts
  <2>3. loads[n] = loads[n - 1] + At(Loads(cs), S)[n]
    BY <1>2, SumsFacts
  <2>4. worths[n] = worths[n - 1] + At(Worths(cs), S)[n]
    BY <1>2, SumsFacts
  <2> QED
    BY <2>1, <2>2, <2>3, <2>4
<1>6. \A c \in within : dp[0][c] = 0
  BY BestFacts
<1>7. ASSUME NEW n \in 1 .. last, NEW c \in within
      PROVE  LET load == Loads(cs)[n]
             IN  /\ dp[n][c] \in Nat /\ dp[n - 1][c] \in Nat /\ c \in Nat
                 /\ dp[n - 1][c] <= dp[n][c]
                 /\ load <= c => /\ c - load \in within /\ dp[n - 1][c - load] \in Nat
                                 /\ dp[n - 1][c - load] + Worths(cs)[n] <= dp[n][c]
  <2>1. Loads(cs)[n] \in Nat /\ Worths(cs)[n] \in Nat
    BY <1>5
  <2>2. LET with == dp[n - 1][c - Loads(cs)[n]] + Worths(cs)[n]
         IN  /\ dp[n][c] \in Nat /\ dp[n - 1][c] \in Nat /\ c \in Nat
             /\ dp[n][c] = IF Loads(cs)[n] <= c THEN MaxOf(dp[n - 1][c], with) ELSE dp[n - 1][c]
             /\ Loads(cs)[n] <= c => c - Loads(cs)[n] \in within
                                     /\ dp[n - 1][c - Loads(cs)[n]] \in Nat
    BY BestOfMore
  <2> HIDE DEF dp, within
  <2> QED
    BY <2>1, <2>2 DEF MaxOf
<1> HIDE DEF dp, loads, worths, last, within
<1>8. 0 \in good
  <2>1. Fits(0) /\ loads[0] >= 0 /\ 0 \in 0 .. last
    BY <1>1, <1>3, <1>6
  <2> HIDE DEF Fits
  <2> QED
    BY <2>1
<1>n. ASSUME NEW n \in 1 .. last, n - 1 \in good
      PROVE  loads[n - 1] >= 0 /\ loads[n] >= 0
  <2>1. loads[n - 1] >= 0 /\ loads[n - 1] \in Int
    BY <1>1, <1>4, <1>n
  <2>2. Loads(cs)[n] \in Nat /\ loads[n] = loads[n - 1] + IF n \in S THEN Loads(cs)[n] ELSE 0
    BY <1>5
  <2> QED
    BY <2>1, <2>2
<1>m. ASSUME NEW n \in 1 .. last, n - 1 \in good, NEW c \in within, loads[n] <= c
      PROVE  worths[n] <= dp[n][c]
  <2> DEFINE load == Loads(cs)[n]
             worth == Worths(cs)[n]
  <2>1. n - 1 \in 0 .. last /\ n \in 0 .. last
    BY <1>1
  <2>2. \A b \in within : loads[n - 1] <= b => worths[n - 1] <= dp[n - 1][b]
    BY <1>m
  <2>3. /\ load \in Nat /\ worth \in Nat
        /\ loads[n] = loads[n - 1] + IF n \in S THEN load ELSE 0
        /\ worths[n] = worths[n - 1] + IF n \in S THEN worth ELSE 0
    BY <1>5
  <2>4. /\ dp[n][c] \in Nat /\ dp[n - 1][c] \in Nat /\ c \in Nat
        /\ dp[n - 1][c] <= dp[n][c]
        /\ load <= c => /\ c - load \in within /\ dp[n - 1][c - load] \in Nat
                        /\ dp[n - 1][c - load] + worth <= dp[n][c]
    BY <1>7
  <2>5. loads[n - 1] \in Int /\ worths[n - 1] \in Int /\ loads[n] \in Int
    BY <1>4, <2>1
  <2>6. loads[n - 1] >= 0
    BY <1>m, <1>n
  <2> HIDE DEF load, worth, good
  <2>7. CASE n \in S
    <3>1. loads[n] = loads[n - 1] + load /\ worths[n] = worths[n - 1] + worth
      BY <2>3, <2>7
    <3>2. load <= c /\ loads[n - 1] <= c - load
      BY <1>m, <2>3, <2>4, <2>5, <2>6, <3>1
    <3>3. worths[n - 1] <= dp[n - 1][c - load]
      BY <2>2, <2>4, <3>2
    <3>4. dp[n - 1][c - load] \in Nat /\ dp[n - 1][c - load] + worth <= dp[n][c]
      BY <2>4, <3>2
    <3>5. dp[n][c] \in Nat /\ worth \in Nat /\ worths[n - 1] \in Int
      BY <2>3, <2>4, <2>5
    <3> DEFINE most == dp[n][c]
               rest == dp[n - 1][c - load]
               sofar == worths[n - 1]
    <3>6. /\ most \in Nat /\ rest \in Nat /\ worth \in Nat /\ sofar \in Int
          /\ sofar <= rest /\ rest + worth <= most
      BY <3>3, <3>4, <3>5
    <3>7. worths[n] = sofar + worth
      BY <3>1
    <3> HIDE DEF most, rest, sofar
    <3>8. sofar + worth <= most
      BY <3>6
    <3> QED
      BY <3>7, <3>8 DEF most
  <2>8. CASE n \notin S
    <3>1. loads[n] = loads[n - 1] + 0 /\ worths[n] = worths[n - 1] + 0
      BY <2>3, <2>8
    <3>2. loads[n - 1] <= c
      BY <1>m, <2>5, <3>1
    <3>3. worths[n - 1] <= dp[n - 1][c]
      BY <2>2, <3>2
    <3> QED
      BY <2>4, <2>5, <3>1, <3>3
  <2> QED
    BY <2>7, <2>8
<1>9. \A n \in 1 .. last : n - 1 \in good => n \in good
  <2> SUFFICES ASSUME NEW n \in 1 .. last, n - 1 \in good PROVE n \in good
    OBVIOUS
  <2>1. loads[n] >= 0 /\ Fits(n)
    <3> HIDE DEF good
    <3> QED
      BY <1>m, <1>n
  <2>2. n \in 0 .. last
    BY <1>1
  <2> HIDE DEF Fits
  <2> QED
    BY <2>1, <2>2
<1>10. 0 .. last \subseteq good
  <2> HIDE DEF good
  <2> QED
    BY <1>1, <1>8, <1>9, HoldsUpTo
<1> QED
  BY <1>10 DEF dp, loads, worths, last, within

(* The units left, from the last case to the first.                        *)
Spare(cs, dp, n, c) == IF dp[n][c] # dp[n - 1][c] THEN c - Units(cs[n].hours) ELSE c

LEMMA SpareFits ==
  ASSUME NEW cs \in Seq(ReviewCase), NEW capacity \in Nat, NEW n \in 1 .. Len(cs),
         NEW c \in Budgets(capacity)
  PROVE  Spare(cs, Best(cs, capacity), n, c) \in Budgets(capacity)
<1> DEFINE dp == Best(cs, capacity)
           load == Loads(cs)[n]
<1>1. load = Units(cs[n].hours)
  BY ReviewFacts
<1>2. ~(load <= c) => dp[n][c] = dp[n - 1][c]
  BY BestOfMore
<1>3. load <= c => c - load \in Budgets(capacity)
  BY BestOfMore
<1> HIDE DEF dp, load
<1> QED
  BY <1>1, <1>2, <1>3 DEF Spare, dp

LEMMA LeftFacts ==
  ASSUME NEW cs \in Seq(ReviewCase), NEW capacity \in Nat
  PROVE  /\ \A n \in 0 .. Len(cs) : Left(cs, capacity)[n] \in Budgets(capacity)
         /\ Left(cs, capacity)[Len(cs)] = Units(capacity)
         /\ \A n \in 1 .. Len(cs) :
              Left(cs, capacity)[n - 1]
                = Spare(cs, Best(cs, capacity), n, Left(cs, capacity)[n])
<1> DEFINE last == Len(cs)
           within == Budgets(capacity)
           dp == Best(cs, capacity)
           all == Units(capacity)
           Back(f) == f = [i \in 0 .. last |-> IF i = last THEN all
                                                ELSE Spare(cs, dp, i + 1, f[i + 1])]
           step == [k \in 1 .. last |-> [c \in within |-> Spare(cs, dp, last - k + 1, c)]]
<1>1. last \in Nat
  BY LenProperties
<1>2. all \in Nat /\ all \in within
  <2>1. all \in Nat
    BY UnitsFacts
  <2> QED
    BY <2>1 DEF Budgets
<1>3. Left(cs, capacity) = CHOOSE f : Back(f)
  <2>1. \A i \in 0 .. last : (i + 1) - 1 = i
    BY <1>1
  <2>2. \A f : [i \in 0 .. last |-> IF i = last THEN all ELSE Spare(cs, dp, i + 1, f[i + 1])]
               = [i \in 0 .. last |->
                    IF i = last THEN all
                    ELSE IF dp[i + 1][f[i + 1]] # dp[i][f[i + 1]]
                         THEN f[i + 1] - Units(cs[i + 1].hours)
                         ELSE f[i + 1]]
    <3> HIDE DEF dp, last, all
    <3> QED
      BY <2>1 DEF Spare
  <2>3. \A f : Back(f) <=>
          f = [i \in 0 .. last |->
                 IF i = last THEN all
                 ELSE IF dp[i + 1][f[i + 1]] # dp[i][f[i + 1]]
                      THEN f[i + 1] - Units(cs[i + 1].hours)
                      ELSE f[i + 1]]
    BY <2>2
  <2> HIDE DEF Back
  <2> QED
    BY <2>3 DEF Left
<1>4. step \in [1 .. last -> [within -> within]]
  <2>1. ASSUME NEW k \in 1 .. last, NEW c \in within
        PROVE  Spare(cs, dp, last - k + 1, c) \in within
    <3>1. last - k + 1 \in 1 .. Len(cs)
      BY <1>1
    <3> QED
      BY <3>1, SpareFits
  <2> HIDE DEF within, dp
  <2> QED
    BY <2>1
<1>5. PICK g : StepsUpTo(g, within, all, step, last)
  <2> HIDE DEF within, all, step, last
  <2> QED
    BY <1>1, <1>2, <1>4, Stepwise
<1>6. /\ g \in [0 .. last -> within] /\ g[0] = all
      /\ \A k \in 1 .. last : g[k] = Spare(cs, dp, last - k + 1, g[k - 1])
  <2>1. g \in [0 .. last -> within] /\ g[0] = all /\ \A k \in 1 .. last : g[k] = step[k][g[k - 1]]
    BY <1>5 DEF StepsUpTo
  <2>2. \A k \in 1 .. last : g[k - 1] \in within
    <3> TAKE k \in 1 .. last
    <3>1. k - 1 \in 0 .. last
      BY <1>1
    <3> HIDE DEF within
    <3> QED
      BY <2>1, <3>1
  <2> HIDE DEF within, dp
  <2> QED
    BY <2>1, <2>2
<1> HIDE DEF dp, within, all, step, last
<1> DEFINE f == [i \in 0 .. last |-> g[last - i]]
<1>7. Back(f)
  <2>1. ASSUME NEW i \in 0 .. last
        PROVE  f[i] = IF i = last THEN all ELSE Spare(cs, dp, i + 1, f[i + 1])
    <3>1. CASE i = last
      <4>1. last - i = 0
        BY <1>1, <3>1
      <4> QED
        BY <1>6, <3>1, <4>1
    <3>2. CASE i # last
      <4>1. /\ last - i \in 1 .. last /\ i + 1 \in 0 .. last
            /\ last - (last - i) + 1 = i + 1 /\ (last - i) - 1 = last - (i + 1)
        BY <1>1, <3>2
      <4>2. g[last - i] = Spare(cs, dp, last - (last - i) + 1, g[(last - i) - 1])
        BY <1>6, <4>1
      <4>3. f[i + 1] = g[last - (i + 1)] /\ f[i] = g[last - i]
        BY <4>1
      <4>4. g[last - i] = Spare(cs, dp, i + 1, g[last - (i + 1)])
        BY <4>1, <4>2
      <4> HIDE DEF f
      <4> QED
        BY <3>2, <4>3, <4>4
    <3> QED
      BY <3>1, <3>2
  <2>2. f = [i \in 0 .. last |-> f[i]]
    OBVIOUS
  <2> HIDE DEF f
  <2> QED
    BY <2>1, <2>2
<1> DEFINE e == Left(cs, capacity)
<1>8. Back(e)
  <2> HIDE DEF Back, f
  <2> QED
    BY <1>3, <1>7
<1>9. \A i \in 0 .. last : e[i] = IF i = last THEN all ELSE Spare(cs, dp, i + 1, e[i + 1])
  <2>1. e = [i \in 0 .. last |-> IF i = last THEN all ELSE Spare(cs, dp, i + 1, e[i + 1])]
    BY <1>8
  <2> HIDE DEF e
  <2> QED
    BY <2>1
<1> HIDE DEF e, f, Back
<1>10. e[last] = all
  BY <1>1, <1>9
<1>11. \A n \in 1 .. last : e[n - 1] = Spare(cs, dp, n, e[n])
  <2> TAKE n \in 1 .. last
  <2>1. n - 1 \in 0 .. last /\ n - 1 # last /\ (n - 1) + 1 = n
    BY <1>1
  <2>2. e[n - 1] = Spare(cs, dp, (n - 1) + 1, e[(n - 1) + 1])
    BY <1>9, <2>1
  <2> QED
    BY <2>1, <2>2
<1>12. \A n \in 0 .. last : e[n] \in within
  <2> DEFINE good == {k \in 0 .. last : e[last - k] \in within}
  <2>1. 0 \in good
    <3>1. last - 0 = last
      BY <1>1
    <3> QED
      BY <1>1, <1>2, <1>10, <3>1
  <2>2. ASSUME NEW k \in 1 .. last, k - 1 \in good PROVE k \in good
    <3>1. /\ last - k + 1 \in 1 .. last /\ last - (k - 1) = last - k + 1
          /\ (last - k + 1) - 1 = last - k /\ k \in 0 .. last
      BY <1>1
    <3>2. e[last - k + 1] \in within
      BY <2>2, <3>1
    <3>3. e[last - k] = Spare(cs, dp, last - k + 1, e[last - k + 1])
      <4>1. e[(last - k + 1) - 1] = Spare(cs, dp, last - k + 1, e[last - k + 1])
        BY <1>11, <3>1
      <4> QED
        BY <3>1, <4>1
    <3>4. Spare(cs, dp, last - k + 1, e[last - k + 1]) \in within
      BY <3>1, <3>2, SpareFits DEF dp, within, last
    <3> QED
      BY <3>1, <3>3, <3>4
  <2>3. 0 .. last \subseteq good
    <3> HIDE DEF good
    <3> QED
      BY <1>1, <2>1, <2>2, HoldsUpTo
  <2> TAKE n \in 0 .. last
  <2>4. last - n \in 0 .. last /\ last - (last - n) = n
    BY <1>1
  <2>5. e[last - (last - n)] \in within
    BY <2>3, <2>4
  <2> QED
    BY <2>4, <2>5
<1> QED
  BY <1>10, <1>11, <1>12 DEF e, dp, within, all, last

(* The cases named are worth the table's last place and fit.               *)
LEMMA RebuiltFacts ==
  ASSUME NEW cs \in Seq(ReviewCase), NEW capacity \in Nat
  PROVE  LET ids == KnapsackSelect(cs, capacity).ids
         IN  /\ ids \subseteq DOMAIN cs
             /\ Total(At(Worths(cs), ids)) = KnapsackSelect(cs, capacity).total
             /\ Total(At(Loads(cs), ids)) <= Units(capacity)
<1> DEFINE last == Len(cs)
           within == Budgets(capacity)
           dp == Best(cs, capacity)
           left == Left(cs, capacity)
           ids == {i \in DOMAIN cs : dp[i][left[i]] # dp[i - 1][left[i]]}
           loads == SumsOf(At(Loads(cs), ids))
           worths == SumsOf(At(Worths(cs), ids))
           good == {n \in 0 .. last : worths[n] = dp[n][left[n]] /\ loads[n] <= left[n]}
<1>1. KnapsackSelect(cs, capacity) = [ids |-> ids, total |-> dp[last][Units(capacity)]]
  BY DEF KnapsackSelect
<1>2. /\ Loads(cs) \in Seq(Int) /\ Len(Loads(cs)) = last
      /\ Worths(cs) \in Seq(Int) /\ Len(Worths(cs)) = last /\ last \in Nat
      /\ DOMAIN cs = 1 .. last
  BY ReviewFacts
<1> HIDE DEF ids
<1>3. /\ At(Loads(cs), ids) \in Seq(Int) /\ Len(At(Loads(cs), ids)) = last
      /\ At(Worths(cs), ids) \in Seq(Int) /\ Len(At(Worths(cs), ids)) = last
  BY <1>2, AtFacts
<1>4. loads[0] = 0 /\ worths[0] = 0
  BY <1>3, SumsFacts
<1>5. \A n \in 0 .. last : loads[n] \in Int /\ worths[n] \in Int
  BY <1>3, SumsType
<1>6. ASSUME NEW n \in 1 .. last
      PROVE  /\ Loads(cs)[n] \in Nat /\ Worths(cs)[n] \in Nat
             /\ loads[n] = loads[n - 1] + IF n \in ids THEN Loads(cs)[n] ELSE 0
             /\ worths[n] = worths[n - 1] + IF n \in ids THEN Worths(cs)[n] ELSE 0
  <2>1. Loads(cs)[n] \in Nat /\ Worths(cs)[n] \in Nat
    BY ReviewFacts
  <2>2. /\ At(Loads(cs), ids)[n] = IF n \in ids THEN Loads(cs)[n] ELSE 0
        /\ At(Worths(cs), ids)[n] = IF n \in ids THEN Worths(cs)[n] ELSE 0
    BY <1>2, AtFacts
  <2>3. loads[n] = loads[n - 1] + At(Loads(cs), ids)[n]
    BY <1>3, SumsFacts
  <2>4. worths[n] = worths[n - 1] + At(Worths(cs), ids)[n]
    BY <1>3, SumsFacts
  <2> QED
    BY <2>1, <2>2, <2>3, <2>4
<1>7. /\ \A n \in 0 .. last : left[n] \in within
      /\ left[last] = Units(capacity)
      /\ \A n \in 1 .. last : left[n - 1] = Spare(cs, dp, n, left[n])
  BY LeftFacts
<1>8. ASSUME NEW n \in 1 .. last
      PROVE  /\ n \in ids => /\ left[n - 1] = left[n] - Loads(cs)[n]
                             /\ dp[n][left[n]] = dp[n - 1][left[n - 1]] + Worths(cs)[n]
                             /\ left[n] \in Nat /\ left[n - 1] \in Nat
             /\ n \notin ids => /\ left[n - 1] = left[n]
                                /\ dp[n][left[n]] = dp[n - 1][left[n - 1]]
  <2> DEFINE c == left[n]
             load == Loads(cs)[n]
             worth == Worths(cs)[n]
  <2>1. c \in within /\ left[n - 1] = Spare(cs, dp, n, c) /\ n \in 1 .. last
    BY <1>2, <1>7
  <2>2. n \in ids <=> dp[n][c] # dp[n - 1][c]
    BY <1>2 DEF ids
  <2>3. Units(cs[n].hours) = load /\ load \in Nat /\ worth \in Nat
    BY ReviewFacts
  <2>4. /\ dp[n][c] \in Nat /\ dp[n - 1][c] \in Nat /\ c \in Nat
        /\ dp[n][c] = IF load <= c THEN MaxOf(dp[n - 1][c], dp[n - 1][c - load] + worth)
                      ELSE dp[n - 1][c]
        /\ load <= c => c - load \in within /\ dp[n - 1][c - load] \in Nat
    <3> HIDE DEF c
    <3> QED
      BY <2>1, BestOfMore
  <2> HIDE DEF dp, load, worth, left, c, within
  <2>5. CASE n \in ids
    <3>1. dp[n][c] # dp[n - 1][c]
      BY <2>2, <2>5
    <3>2. load <= c
      BY <2>4, <3>1
    <3>3. left[n - 1] = c - load
      BY <2>1, <2>3, <3>1 DEF Spare
    <3>4. dp[n][c] = dp[n - 1][c - load] + worth
      BY <2>3, <2>4, <3>1, <3>2 DEF MaxOf
    <3>5. c \in Nat /\ c - load \in Nat
      BY <2>3, <2>4, <3>2
    <3> QED
      BY <2>5, <3>3, <3>4, <3>5 DEF c, load, worth
  <2>6. CASE n \notin ids
    <3>1. dp[n][c] = dp[n - 1][c]
      BY <2>2, <2>6
    <3>2. left[n - 1] = c
      BY <2>1, <3>1 DEF Spare
    <3> QED
      BY <2>6, <3>1, <3>2 DEF c
  <2> QED
    BY <2>5, <2>6
<1>9. dp[0][left[0]] = 0 /\ 0 <= left[0]
  <2>1. left[0] \in within
    BY <1>2, <1>7
  <2>2. dp[0][left[0]] = 0
    BY <2>1, BestFacts
  <2>3. Units(capacity) \in Nat
    BY UnitsFacts
  <2> QED
    BY <2>1, <2>2, <2>3 DEF Budgets
<1> HIDE DEF dp, left, loads, worths, last, within
<1>10. 0 \in good
  BY <1>2, <1>4, <1>9
<1>11. \A n \in 1 .. last : n - 1 \in good => n \in good
  <2> SUFFICES ASSUME NEW n \in 1 .. last, n - 1 \in good PROVE n \in good
    OBVIOUS
  <2> DEFINE load == Loads(cs)[n]
             worth == Worths(cs)[n]
             before == loads[n - 1]
             room == left[n - 1]
  <2>1. n - 1 \in 0 .. last /\ n \in 0 .. last
    BY <1>2
  <2>2. worths[n - 1] = dp[n - 1][room] /\ before <= room
    OBVIOUS
  <2>3. CASE n \in ids
    <3>1. loads[n] = before + load /\ worths[n] = worths[n - 1] + worth /\ load \in Nat
      BY <1>6, <2>3
    <3>2. room = left[n] - load /\ dp[n][left[n]] = dp[n - 1][room] + worth
          /\ left[n] \in Nat /\ room \in Nat
      BY <1>8, <2>3
    <3>3. before \in Int
      BY <1>5, <2>1
    <3>4. before <= room
      BY <2>2
    <3>5. worths[n] = dp[n][left[n]]
      BY <2>2, <3>1, <3>2
    <3> HIDE DEF before, room, load
    <3>6. before + load <= left[n]
      BY <3>1, <3>2, <3>3, <3>4
    <3>7. loads[n] <= left[n]
      BY <3>1, <3>6
    <3> QED
      BY <2>1, <3>5, <3>7
  <2>4. CASE n \notin ids
    <3>1. loads[n] = before + 0 /\ worths[n] = worths[n - 1] + 0
      BY <1>6, <2>4
    <3>2. room = left[n] /\ dp[n][left[n]] = dp[n - 1][room]
      BY <1>8, <2>4
    <3>3. before \in Int /\ worths[n - 1] \in Int
      BY <1>5, <2>1
    <3>4. loads[n] = before /\ worths[n] = worths[n - 1]
      BY <3>1, <3>3
    <3> QED
      BY <2>1, <2>2, <3>2, <3>4
  <2> QED
    BY <2>3, <2>4
<1>12. last \in good
  <2>1. last \in 0 .. last
    BY <1>2
  <2> HIDE DEF good
  <2> QED
    BY <1>2, <1>10, <1>11, <2>1, HoldsUpTo
<1>13. Total(At(Worths(cs), ids)) = worths[last] /\ Total(At(Loads(cs), ids)) = loads[last]
  BY <1>3 DEF Total, worths, loads
<1>14. ids \subseteq DOMAIN cs
  BY DEF ids
<1> QED
  BY <1>1, <1>7, <1>12, <1>13, <1>14

(* A time is its hundredths and at most a hundredth more.                  *)
LEMMA TruncationFacts ==
  ASSUME NEW cs \in Seq(ReviewCase), NEW S
  PROVE  LET times == Total(At(Times(cs), S))
             loads == Total(At(Loads(cs), S))
         IN  /\ times \in Int /\ loads \in Int /\ 10 * loads <= times
             /\ S \subseteq DOMAIN cs => IsFiniteSet(S) /\ times <= 10 * loads + 10 * Cardinality(S)
<1> DEFINE last == Len(cs)
           ten == [n \in 1 .. last |-> IF n \in S THEN 10 ELSE 0]
           loads == SumsOf(At(Loads(cs), S))
           times == SumsOf(At(Times(cs), S))
           more == SumsOf(ten)
           good == {n \in 0 .. last : 10 * loads[n] <= times[n] /\ times[n] <= 10 * loads[n] + more[n]}
<1>1. /\ Loads(cs) \in Seq(Int) /\ Len(Loads(cs)) = last
      /\ Times(cs) \in Seq(Int) /\ Len(Times(cs)) = last /\ last \in Nat
      /\ DOMAIN cs = 1 .. last
  BY ReviewFacts
<1>2. /\ At(Loads(cs), S) \in Seq(Int) /\ Len(At(Loads(cs), S)) = last
      /\ At(Times(cs), S) \in Seq(Int) /\ Len(At(Times(cs), S)) = last
  BY <1>1, AtFacts
<1>3. ten \in Seq(Int) /\ Len(ten) = last /\ DOMAIN ten = 1 .. last
  <2>1. ten \in [1 .. last -> Int]
    OBVIOUS
  <2> HIDE DEF ten
  <2> QED
    BY <1>1, <2>1, SeqOfInt
<1>4. loads[0] = 0 /\ times[0] = 0 /\ more[0] = 0
  BY <1>2, <1>3, SumsFacts
<1>5. \A n \in 0 .. last : loads[n] \in Int /\ times[n] \in Int /\ more[n] \in Int
  BY <1>2, <1>3, SumsType
<1>6. ASSUME NEW n \in 1 .. last
      PROVE  /\ loads[n] = loads[n - 1] + IF n \in S THEN Loads(cs)[n] ELSE 0
             /\ times[n] = times[n - 1] + IF n \in S THEN Times(cs)[n] ELSE 0
             /\ more[n] = more[n - 1] + IF n \in S THEN 10 ELSE 0
             /\ Loads(cs)[n] \in Nat /\ Times(cs)[n] \in Nat
             /\ 10 * Loads(cs)[n] <= Times(cs)[n] /\ Times(cs)[n] <= 10 * Loads(cs)[n] + 10
  <2>1. /\ Loads(cs)[n] = Units(cs[n].hours) /\ Times(cs)[n] = cs[n].hours
        /\ cs[n].hours \in Nat
    BY ReviewFacts
  <2>2. /\ At(Loads(cs), S)[n] = IF n \in S THEN Loads(cs)[n] ELSE 0
        /\ At(Times(cs), S)[n] = IF n \in S THEN Times(cs)[n] ELSE 0
    BY <1>1, AtFacts
  <2>3. loads[n] = loads[n - 1] + At(Loads(cs), S)[n]
    BY <1>2, SumsFacts
  <2>4. times[n] = times[n - 1] + At(Times(cs), S)[n]
    BY <1>2, SumsFacts
  <2>5. more[n] = more[n - 1] + ten[n]
    <3> HIDE DEF ten
    <3> QED
      BY <1>3, SumsFacts
  <2>6. /\ Units(cs[n].hours) \in Nat /\ 10 * Units(cs[n].hours) <= cs[n].hours
        /\ cs[n].hours <= 10 * Units(cs[n].hours) + 10
    BY <2>1, UnitsFacts
  <2>9. /\ Loads(cs)[n] \in Nat /\ Times(cs)[n] \in Nat
        /\ 10 * Loads(cs)[n] <= Times(cs)[n] /\ Times(cs)[n] <= 10 * Loads(cs)[n] + 10
    BY <2>1, <2>6
  <2> QED
    BY <2>2, <2>3, <2>4, <2>5, <2>9
<1> HIDE DEF loads, times, more, last, ten
<1>7. 0 \in good
  BY <1>1, <1>4
<1>8. \A n \in 1 .. last : n - 1 \in good => n \in good
  <2> SUFFICES ASSUME NEW n \in 1 .. last, n - 1 \in good PROVE n \in good
    OBVIOUS
  <2> DEFINE load == Loads(cs)[n]
             time == Times(cs)[n]
             loads1 == loads[n - 1]
             times1 == times[n - 1]
             more1 == more[n - 1]
  <2>1. n - 1 \in 0 .. last /\ n \in 0 .. last
    BY <1>1
  <2>2. /\ loads1 \in Int /\ times1 \in Int /\ more1 \in Int
        /\ 10 * loads1 <= times1 /\ times1 <= 10 * loads1 + more1
    BY <1>5, <2>1
  <2>3. load \in Nat /\ time \in Nat /\ 10 * load <= time /\ time <= 10 * load + 10
    BY <1>6
  <2>4. CASE n \in S
    <3>1. loads[n] = loads1 + load /\ times[n] = times1 + time /\ more[n] = more1 + 10
      BY <1>6, <2>4
    <3> HIDE DEF load, time, loads1, times1, more1
    <3>2. /\ 10 * (loads1 + load) <= times1 + time
          /\ times1 + time <= 10 * (loads1 + load) + (more1 + 10)
      BY <2>2, <2>3
    <3>3. 10 * loads[n] <= times[n] /\ times[n] <= 10 * loads[n] + more[n]
      BY <3>1, <3>2
    <3> QED
      BY <2>1, <3>3
  <2>5. CASE n \notin S
    <3>1. loads[n] = loads1 + 0 /\ times[n] = times1 + 0 /\ more[n] = more1 + 0
      BY <1>6, <2>5
    <3> HIDE DEF loads1, times1, more1
    <3>2. loads[n] = loads1 /\ times[n] = times1 /\ more[n] = more1
      BY <2>2, <3>1
    <3>3. 10 * loads[n] <= times[n] /\ times[n] <= 10 * loads[n] + more[n]
      BY <2>2, <3>2
    <3> QED
      BY <2>1, <3>3
  <2> QED
    BY <2>4, <2>5
<1>9. last \in good
  <2>1. last \in 0 .. last
    BY <1>1
  <2> HIDE DEF good
  <2> QED
    BY <1>1, <1>7, <1>8, <2>1, HoldsUpTo
<1>10. Total(At(Loads(cs), S)) = loads[last] /\ Total(At(Times(cs), S)) = times[last]
  BY <1>2 DEF Total, loads, times
<1>11. Total(ten) = more[last]
  BY <1>3 DEF Total, more
<1>12. S \subseteq DOMAIN cs => IsFiniteSet(S) /\ more[last] = 10 * Cardinality(S)
  <2> SUFFICES ASSUME S \subseteq DOMAIN cs
               PROVE  IsFiniteSet(S) /\ Total(ten) = 10 * Cardinality(S)
    BY <1>11
  <2>1. S \subseteq DOMAIN ten
    BY <1>1, <1>3
  <2>2. \A n \in DOMAIN ten : ten[n] = IF n \in S THEN 10 ELSE 0
    BY DEF ten
  <2>3. 10 \in Nat
    OBVIOUS
  <2> QED
    BY <1>3, <2>1, <2>2, <2>3, SumsOfCount
<1>13. last \in 0 .. last
  BY <1>1
<1>14. /\ loads[last] \in Int /\ times[last] \in Int
       /\ 10 * loads[last] <= times[last] /\ times[last] <= 10 * loads[last] + more[last]
  BY <1>5, <1>9, <1>13
<1> QED
  BY <1>10, <1>12, <1>14

(* The greedy choice keeps to the hours.                                   *)
LEMMA GreedyFits ==
  ASSUME NEW cs \in Seq(ReviewCase), NEW capacity \in Nat, NEW order, NEW over
  PROVE  Total(At(Times(cs), GreedySelect(cs, capacity, order, over))) <= capacity
<1> DEFINE last == Len(cs)
           Hours(S) == Total(At(Times(cs), S))
           Passes(h, n) == h < capacity \/ (h = capacity /\ order[n] \notin over)
           More(S, n) == IF Passes(Hours(S \cup {order[n]}), n) THEN S \cup {order[n]} ELSE S
           X == SUBSET {order[n] : n \in 1 .. last}
           none == {}
           Pass(f) == f = [n \in 0 .. last |-> IF n = 0 THEN none ELSE More(f[n - 1], n)]
           step == [n \in 1 .. last |-> [S \in X |-> More(S, n)]]
           chosen == CHOOSE f : Pass(f)
<1>1. last \in Nat
  BY LenProperties
<1>2. GreedySelect(cs, capacity, order, over) = chosen[last]
  <2> DEFINE hs == [i \in DOMAIN cs |-> HoursOf(cs[i])]
             With(ts, S, n) == IF Passes(Total(At(ts, S \cup {order[n]})), n)
                               THEN S \cup {order[n]} ELSE S
             Greedy(ts) == (CHOOSE f : f = [n \in 0 .. last |->
                              IF n = 0 THEN {} ELSE With(ts, f[n - 1], n)])[last]
  <2>1. hs = Times(cs)
    BY DEF HoursOf, Times
  <2>2. GreedySelect(cs, capacity, order, over) = Greedy(hs)
    BY DEF GreedySelect, Sum
  <2>3. Greedy(hs) = Greedy(Times(cs))
    <3> HIDE DEF Greedy, hs
    <3> QED
      BY <2>1
  <2>4. Greedy(Times(cs)) = chosen[last]
    OBVIOUS
  <2> HIDE DEF Greedy, chosen, hs
  <2> QED
    BY <2>2, <2>3, <2>4
<1> HIDE DEF Passes
<1>h. ASSUME NEW S, NEW n, Hours(S) <= capacity PROVE Hours(More(S, n)) <= capacity
  <2>1. Hours(S \cup {order[n]}) \in Int
    BY TruncationFacts
  <2> HIDE DEF Hours
  <2>2. Passes(Hours(S \cup {order[n]}), n) => Hours(S \cup {order[n]}) <= capacity
    BY <2>1 DEF Passes
  <2> QED
    BY <1>h, <2>2
<1>3. step \in [1 .. last -> [X -> X]] /\ none \in X
  <2>1. ASSUME NEW n \in 1 .. last, NEW S \in X PROVE More(S, n) \in X
    OBVIOUS
  <2> HIDE DEF X, More
  <2>2. step \in [1 .. last -> [X -> X]]
    BY <2>1
  <2> QED
    BY <2>2 DEF X
<1>4. PICK g : StepsUpTo(g, X, none, step, last)
  <2> HIDE DEF X, none, step, last
  <2> QED
    BY <1>1, <1>3, Stepwise
<1>5. Pass(g)
  <2>1. g \in [0 .. last -> X] /\ g[0] = none /\ \A n \in 1 .. last : g[n] = step[n][g[n - 1]]
    BY <1>4 DEF StepsUpTo
  <2>2. \A n \in 1 .. last : g[n - 1] \in X
    <3> TAKE n \in 1 .. last
    <3>1. n - 1 \in 0 .. last
      BY <1>1
    <3> HIDE DEF X
    <3> QED
      BY <2>1, <3>1
  <2> HIDE DEF X, More, none
  <2>3. \A n \in 1 .. last : g[n] = More(g[n - 1], n)
    BY <2>1, <2>2
  <2>4. \A n \in 0 .. last : g[n] = IF n = 0 THEN none ELSE More(g[n - 1], n)
    BY <1>1, <2>1, <2>3
  <2>5. g = [n \in 0 .. last |-> g[n]]
    BY <2>1
  <2> QED
    BY <2>4, <2>5
<1>6. Pass(chosen)
  <2> HIDE DEF Pass
  <2> QED
    BY <1>5
<1>7. \A n \in 0 .. last : chosen[n] = IF n = 0 THEN none ELSE More(chosen[n - 1], n)
  <2>1. chosen = [n \in 0 .. last |-> IF n = 0 THEN none ELSE More(chosen[n - 1], n)]
    BY <1>6
  <2> HIDE DEF chosen, More, none
  <2> QED
    BY <2>1
<1> HIDE DEF chosen, Pass
<1>8. Hours(none) <= capacity
  <2> DEFINE s == At(Times(cs), {})
  <2>1. s \in Seq(Int) /\ Len(s) = last /\ \A n \in 1 .. last : s[n] = 0
    BY ReviewFacts, AtFacts
  <2>2. DOMAIN s = 1 .. last
    BY <2>1, SumsType
  <2> HIDE DEF s
  <2>3. Total(s) = 0 * Cardinality({})
    <3>1. {} \subseteq DOMAIN s /\ 0 \in Nat /\ \A n \in DOMAIN s : s[n] = IF n \in {} THEN 0 ELSE 0
      BY <2>1, <2>2
    <3> QED
      BY <2>1, <3>1, SumsOfCount
  <2>4. Total(s) = 0
    BY <2>3, FS_EmptySet
  <2> QED
    BY <2>4 DEF s
<1> DEFINE good == {n \in 0 .. last : Hours(chosen[n]) <= capacity}
<1>9. 0 \in good
  <2>0. 0 \in 0 .. last
    BY <1>1
  <2>1. chosen[0] = none /\ 0 \in 0 .. last
    <3> HIDE DEF More, none
    <3> QED
      BY <1>7, <2>0
  <2> HIDE DEF Hours
  <2> QED
    BY <1>8, <2>1
<1>10. \A n \in 1 .. last : n - 1 \in good => n \in good
  <2> SUFFICES ASSUME NEW n \in 1 .. last, n - 1 \in good PROVE n \in good
    OBVIOUS
  <2>1. n \in 0 .. last /\ chosen[n] = More(chosen[n - 1], n)
    BY <1>1, <1>7
  <2>2. Hours(chosen[n - 1]) <= capacity
    OBVIOUS
  <2> HIDE DEF Hours, More
  <2> QED
    BY <1>h, <2>1, <2>2
<1>11. last \in good
  <2>1. last \in 0 .. last
    BY <1>1
  <2> HIDE DEF good
  <2> QED
    BY <1>1, <1>9, <1>10, <2>1, HoldsUpTo
<1> QED
  BY <1>2, <1>11

-----------------------------------------------------------------------------
PortfolioInv ==
  /\ pending \in Seq(ReviewCase) /\ hours \in Nat
  /\ selected.done => /\ selected.knapsack = KnapsackSelect(pending, hours)
                      /\ \E order, over :
                           selected.greedy = GreedySelect(pending, hours, order, over)

LEMMA PortfolioStep == PortfolioInv /\ [PortfolioNext]_portfolioVars => PortfolioInv'
BY DEF PortfolioInv, PortfolioNext, Select, portfolioVars

LEMMA PortfolioStart == PortfolioInit => PortfolioInv
<1> SUFFICES ASSUME PortfolioInit PROVE PortfolioInv
  OBVIOUS
<1>1. PICK n \in 0 .. MaxPending : pending \in [1 .. n -> PendingCase]
  BY DEF PortfolioInit
<1>2. n \in Nat
  BY PortfolioAssumption
<1>3. PendingCase \subseteq ReviewCase
  BY PortfolioAssumption DEF PendingCase, ReviewCase
<1>4. pending \in Seq(ReviewCase)
  <2>1. pending \in [1 .. n -> ReviewCase]
    BY <1>1, <1>3
  <2> QED
    BY <1>2, <2>1
<1> QED
  BY <1>4, PortfolioAssumption DEF PortfolioInit, PortfolioInv

LEMMA ChosenIsOptimal ==
  ASSUME NEW cs \in Seq(ReviewCase), NEW capacity \in Nat, NEW order, NEW over
  PROVE  LET knapsack == KnapsackSelect(cs, capacity)
             ids == knapsack.ids
         IN  /\ Total(At(Worths(cs), ids)) = knapsack.total
             /\ Total(At(Loads(cs), ids)) <= Units(capacity)
             /\ \A S : Total(At(Loads(cs), S)) <= Units(capacity)
                         => Total(At(Worths(cs), S)) <= knapsack.total
             /\ Total(At(Times(cs), ids)) <= capacity + 10 * Cardinality(ids)
             /\ capacity \notin Short =>
                  Total(At(Worths(cs), GreedySelect(cs, capacity, order, over)))
                    <= knapsack.total
<1> DEFINE last == Len(cs)
           ids == KnapsackSelect(cs, capacity).ids
           total == KnapsackSelect(cs, capacity).total
           greedy == GreedySelect(cs, capacity, order, over)
           all == Units(capacity)
<1>1. /\ ids \subseteq DOMAIN cs /\ Total(At(Worths(cs), ids)) = total
      /\ Total(At(Loads(cs), ids)) <= all
  BY RebuiltFacts
<1>2. total = Best(cs, capacity)[last][all]
  BY DEF KnapsackSelect
<1>3. last \in Nat /\ all \in Nat /\ all \in Budgets(capacity) /\ last \in 0 .. last
  <2>1. last \in Nat /\ all \in Nat
    BY LenProperties, UnitsFacts
  <2> QED
    BY <2>1 DEF Budgets
<1>4. 10 * all <= capacity /\ (capacity \notin Short => capacity <= 10 * all + 9)
  BY UnitsFacts
<1>5. ASSUME NEW S, Total(At(Loads(cs), S)) <= all
      PROVE  Total(At(Worths(cs), S)) <= total
  <2>1. /\ Len(At(Loads(cs), S)) = last /\ Len(At(Worths(cs), S)) = last
    BY ReviewFacts, AtFacts
  <2>2. SumsOf(At(Loads(cs), S))[last] <= all
    BY <1>5, <2>1 DEF Total
  <2>3. SumsOf(At(Worths(cs), S))[last] <= Best(cs, capacity)[last][all]
    <3> HIDE DEF last, all
    <3> QED
      BY <1>3, <2>2, NoneIsBetter DEF last
  <2> QED
    BY <1>2, <2>1, <2>3 DEF Total
<1> DEFINE load(S) == Total(At(Loads(cs), S))
           time(S) == Total(At(Times(cs), S))
<1>6. time(greedy) <= capacity
  BY GreedyFits
<1>7. load(greedy) \in Int /\ time(greedy) \in Int /\ 10 * load(greedy) <= time(greedy)
  BY TruncationFacts
<1>8. /\ load(ids) \in Int /\ time(ids) \in Int /\ IsFiniteSet(ids)
      /\ time(ids) <= 10 * load(ids) + 10 * Cardinality(ids)
  BY <1>1, TruncationFacts
<1>9. Cardinality(ids) \in Nat
  BY <1>8, FS_CardinalityType
<1>10. load(ids) <= all
  BY <1>1
<1> HIDE DEF ids, total, greedy, all, load, time
<1>11. capacity \notin Short => load(greedy) <= all
  BY <1>3, <1>4, <1>6, <1>7
<1>12. capacity \notin Short => Total(At(Worths(cs), greedy)) <= total
  BY <1>5, <1>11 DEF load
<1>13. time(ids) <= capacity + 10 * Cardinality(ids)
  BY <1>3, <1>4, <1>8, <1>9, <1>10
<1> QED
  BY <1>1, <1>5, <1>12, <1>13 DEF ids, total, greedy, all, time

(* For any list of cases, any capacity and any losses of the products,     *)
(* what the knapsack names is worth its total and fits the hundredths, no  *)
(* set that fits them is worth more, the hours overrun the capacity by at  *)
(* most a hundredth a case, and the greedy choice is no better where the   *)
(* capacity lost none.                                                     *)
THEOREM SelectionHolds == PortfolioSpec => []SelectionIsOptimal
<1>1. PortfolioInv => SelectionIsOptimal
  <2> SUFFICES ASSUME PortfolioInv, selected.done PROVE SelectionIsOptimal
    BY DEF SelectionIsOptimal
  <2>1. /\ pending \in Seq(ReviewCase) /\ hours \in Nat
        /\ selected.knapsack = KnapsackSelect(pending, hours)
    BY DEF PortfolioInv
  <2>4. PICK order, over : selected.greedy = GreedySelect(pending, hours, order, over)
    BY DEF PortfolioInv
  <2>2. /\ [i \in DOMAIN pending |-> ValueOf(pending[i])] = Worths(pending)
        /\ [i \in DOMAIN pending |-> UnitsOf(pending[i])] = Loads(pending)
        /\ [i \in DOMAIN pending |-> HoursOf(pending[i])] = Times(pending)
    BY DEF ValueOf, UnitsOf, HoursOf, Worths, Loads, Times
  <2>3. \A S : /\ Sum(pending, S, ValueOf) = Total(At(Worths(pending), S))
               /\ Sum(pending, S, UnitsOf) = Total(At(Loads(pending), S))
               /\ Sum(pending, S, HoursOf) = Total(At(Times(pending), S))
    BY <2>2 DEF Sum
  <2> HIDE DEF Sum
  <2> QED
    BY <2>1, <2>3, <2>4, ChosenIsOptimal DEF SelectionIsOptimal
<1> QED
  BY <1>1, PortfolioStart, PortfolioStep, PTL DEF PortfolioSpec

-----------------------------------------------------------------------------
(***************************************************************************)
(* The failure windows, for any scopes, times, hours and baselines: each   *)
(* holds the failures the history says are remembered, and no others.      *)
(***************************************************************************)

(* v is what is left of the first m times of w from the cutoff c on: place *)
(* i of v came from place h[i] of w.                                       *)
Filters(v, h, w, c, m) ==
  /\ v \in Seq(Nat) /\ h \in [1 .. Len(v) -> 1 .. m]
  /\ \A i \in 1 .. Len(v) : v[i] = w[h[i]] /\ w[h[i]] >= c
  /\ \A i, j \in 1 .. Len(v) : h[i] = h[j] => i = j
  /\ \A n \in 1 .. m : w[n] >= c => \E i \in 1 .. Len(v) : h[i] = n

LEMMA FiltersMore ==
  ASSUME NEW w \in Seq(Nat), NEW c \in Int, NEW m \in 1 .. Len(w), NEW v, NEW h,
         Filters(v, h, w, c, m - 1)
  PROVE  \E g : Filters(IF w[m] >= c THEN Append(v, w[m]) ELSE v, g, w, c, m)
<1>1. Len(w) \in Nat /\ w[m] \in Nat /\ m \in Nat
  BY LenProperties, ElementOfSeq
<1>2. /\ v \in Seq(Nat) /\ Len(v) \in Nat /\ h \in [1 .. Len(v) -> 1 .. m - 1]
      /\ \A i \in 1 .. Len(v) : v[i] = w[h[i]] /\ w[h[i]] >= c
      /\ \A i, j \in 1 .. Len(v) : h[i] = h[j] => i = j
      /\ \A n \in 1 .. m - 1 : w[n] >= c => \E i \in 1 .. Len(v) : h[i] = n
  BY LenProperties DEF Filters
<1>3. \A n \in 1 .. m : n = m \/ n \in 1 .. m - 1
  BY <1>1
<1>4. CASE w[m] >= c
  <2> DEFINE more == Append(v, w[m])
             last == Len(v)
             g == [i \in 1 .. last + 1 |-> IF i = last + 1 THEN m ELSE h[i]]
  <2>1. /\ more \in Seq(Nat) /\ Len(more) = last + 1 /\ more[last + 1] = w[m]
        /\ \A i \in 1 .. last : more[i] = v[i]
    BY <1>1, <1>2, AppendProperties
  <2>2. /\ last \in Nat /\ \A i \in 1 .. last + 1 : i = last + 1 \/ i \in 1 .. last
        /\ last + 1 \in 1 .. last + 1
        /\ \A i \in 1 .. last : i \in 1 .. last + 1 /\ i # last + 1
        /\ \A n \in 1 .. m - 1 : n \in 1 .. m /\ n # m
        /\ m \in 1 .. m
    BY <1>1, <1>2
  <2> HIDE DEF more, last
  <2>3. g[last + 1] = m /\ \A i \in 1 .. last : g[i] = h[i] /\ h[i] \in 1 .. m - 1
    BY <1>2, <2>2 DEF last
  <2>4. g \in [1 .. last + 1 -> 1 .. m]
    <3>1. \A i \in 1 .. last + 1 : g[i] \in 1 .. m
      BY <2>2, <2>3
    <3>2. g = [i \in 1 .. last + 1 |-> g[i]]
      OBVIOUS
    <3> HIDE DEF g
    <3> QED
      BY <3>1, <3>2
  <2> HIDE DEF g
  <2>5. \A i \in 1 .. last + 1 : more[i] = w[g[i]] /\ w[g[i]] >= c
    BY <1>2, <1>4, <2>1, <2>2, <2>3 DEF last
  <2>6. \A i, j \in 1 .. last + 1 : g[i] = g[j] => i = j
    BY <1>2, <2>2, <2>3 DEF last
  <2>7. \A n \in 1 .. m : w[n] >= c => \E i \in 1 .. last + 1 : g[i] = n
    <3> SUFFICES ASSUME NEW n \in 1 .. m, w[n] >= c PROVE \E i \in 1 .. last + 1 : g[i] = n
      OBVIOUS
    <3>1. CASE n = m
      BY <2>2, <2>3, <3>1
    <3>2. CASE n \in 1 .. m - 1
      <4>1. PICK i \in 1 .. last : h[i] = n
        BY <1>2, <3>2 DEF last
      <4> QED
        BY <2>2, <2>3, <4>1
    <3> QED
      BY <1>3, <3>1, <3>2
  <2>8. Filters(more, g, w, c, m)
    BY <2>1, <2>4, <2>5, <2>6, <2>7 DEF Filters
  <2> QED
    BY <1>4, <2>8 DEF more
<1>5. CASE ~(w[m] >= c)
  <2>1. h \in [1 .. Len(v) -> 1 .. m]
    <3>1. 1 .. m - 1 \subseteq 1 .. m
      BY <1>1
    <3> QED
      BY <1>2, <3>1
  <2>2. Filters(v, h, w, c, m)
    BY <1>2, <1>3, <1>5, <2>1 DEF Filters
  <2> QED
    BY <1>5, <2>2
<1> QED
  BY <1>4, <1>5

LEMMA SinceFilters ==
  ASSUME NEW w \in Seq(Nat), NEW c \in Int
  PROVE  \E h : Filters(Since(w, c), h, w, c, Len(w))
<1> DEFINE last == Len(w)
           X == Seq(Nat)
           none == <<>>
           More(v, n) == IF w[n] >= c THEN Append(v, w[n]) ELSE v
           Pass(f) == f = [n \in 0 .. last |-> IF n = 0 THEN none ELSE More(f[n - 1], n)]
           step == [n \in 1 .. last |-> [v \in X |-> More(v, n)]]
           kept == CHOOSE f : Pass(f)
<1>1. last \in Nat /\ \A n \in 1 .. last : w[n] \in Nat
  BY LenProperties, ElementOfSeq
<1>2. Since(w, c) = kept[last]
  BY DEF Since
<1>3. step \in [1 .. last -> [X -> X]] /\ none \in X
  <2>1. ASSUME NEW n \in 1 .. last, NEW v \in X PROVE More(v, n) \in X
    BY <1>1, AppendProperties
  <2>2. none \in X
    OBVIOUS
  <2> HIDE DEF X, More
  <2>3. step \in [1 .. last -> [X -> X]]
    BY <2>1
  <2> QED
    BY <2>2, <2>3
<1>4. PICK g : StepsUpTo(g, X, none, step, last)
  <2> HIDE DEF X, none, step, last
  <2> QED
    BY <1>1, <1>3, Stepwise
<1>5. Pass(g)
  <2>1. g \in [0 .. last -> X] /\ g[0] = none /\ \A n \in 1 .. last : g[n] = step[n][g[n - 1]]
    BY <1>4 DEF StepsUpTo
  <2>2. \A n \in 1 .. last : g[n - 1] \in X
    <3> TAKE n \in 1 .. last
    <3>1. n - 1 \in 0 .. last
      BY <1>1
    <3> HIDE DEF X
    <3> QED
      BY <2>1, <3>1
  <2> HIDE DEF X, More, none
  <2>3. \A n \in 1 .. last : g[n] = More(g[n - 1], n)
    BY <2>1, <2>2
  <2>4. \A n \in 0 .. last : g[n] = IF n = 0 THEN none ELSE More(g[n - 1], n)
    BY <1>1, <2>1, <2>3
  <2>5. g = [n \in 0 .. last |-> g[n]]
    BY <2>1
  <2> QED
    BY <2>4, <2>5
<1>6. Pass(kept)
  <2> HIDE DEF Pass
  <2> QED
    BY <1>5
<1>7. \A n \in 0 .. last : kept[n] = IF n = 0 THEN none ELSE More(kept[n - 1], n)
  <2>1. kept = [n \in 0 .. last |-> IF n = 0 THEN none ELSE More(kept[n - 1], n)]
    BY <1>6
  <2> HIDE DEF kept, More, none
  <2> QED
    BY <2>1
<1> HIDE DEF kept, Pass
<1> DEFINE good == {n \in 0 .. last : \E h : Filters(kept[n], h, w, c, n)}
<1>8. 0 \in good
  <2>1. 0 \in 0 .. last
    BY <1>1
  <2>2. kept[0] = none
    <3> HIDE DEF More, none
    <3> QED
      BY <1>7, <2>1
  <2>3. Filters(none, [i \in 1 .. 0 |-> 1], w, c, 0)
    BY DEF Filters
  <2> HIDE DEF none
  <2> QED
    BY <2>1, <2>2, <2>3
<1>9. \A n \in 1 .. last : n - 1 \in good => n \in good
  <2> SUFFICES ASSUME NEW n \in 1 .. last, n - 1 \in good PROVE n \in good
    OBVIOUS
  <2>1. PICK h : Filters(kept[n - 1], h, w, c, n - 1)
    OBVIOUS
  <2>2. n \in 0 .. last /\ n # 0
    BY <1>1
  <2>3. kept[n] = More(kept[n - 1], n)
    <3> HIDE DEF More, none
    <3> QED
      BY <1>7, <2>2
  <2>4. \E g1 : Filters(More(kept[n - 1], n), g1, w, c, n)
    BY <2>1, FiltersMore
  <2> HIDE DEF More
  <2> QED
    BY <2>2, <2>3, <2>4
<1>10. last \in good
  <2>1. last \in 0 .. last
    BY <1>1
  <2> HIDE DEF good
  <2> QED
    BY <1>1, <1>8, <1>9, <2>1, HoldsUpTo
<1> QED
  BY <1>2, <1>10

-----------------------------------------------------------------------------
FailureCase == [at : FailureTimes, method : Methods, class : Classes]

(* The failures remembered of a list of them.                              *)
Holds(k, fs) ==
  {i \in DOMAIN fs :
     /\ k \in ScopesOf(fs[i])
     /\ \A j \in i .. Len(fs) :
          k \in ScopesOf(fs[j]) => fs[i].at >= fs[j].at - WindowHours}

(* The window w has exactly those: its place i has the failure f[i].       *)
Tells(f, w, fs, k) ==
  /\ f \in [1 .. Len(w) -> Holds(k, fs)]
  /\ \A i \in 1 .. Len(w) : w[i] = fs[f[i]].at
  /\ \A i, j \in 1 .. Len(w) : f[i] = f[j] => i = j
  /\ \A r \in Holds(k, fs) : \E i \in 1 .. Len(w) : f[i] = r

LEMMA FailureFacts ==
  ASSUME NEW fs \in Seq(FailureCase)
  PROVE  /\ Len(fs) \in Nat /\ DOMAIN fs = 1 .. Len(fs)
         /\ \A i \in 1 .. Len(fs) : fs[i].at \in Nat
<1>1. \A i \in 1 .. Len(fs) : fs[i].at \in Nat
  <2> TAKE i \in 1 .. Len(fs)
  <2>1. fs[i] \in FailureCase
    BY ElementOfSeq
  <2> QED
    BY <2>1, DegradationAssumption DEF FailureCase
<1> QED
  BY <1>1, LenProperties

(* One more failure pushes out of its scopes what failed too long before.  *)
LEMMA HoldsOfMore ==
  ASSUME NEW fs \in Seq(FailureCase), NEW x \in FailureCase, NEW k
  PROVE  Holds(k, Append(fs, x))
           = IF k \in ScopesOf(x)
             THEN {r \in Holds(k, fs) : fs[r].at >= x.at - WindowHours} \cup {Len(fs) + 1}
             ELSE Holds(k, fs)
<1> DEFINE more == Append(fs, x)
           last == Len(fs)
<1>1. /\ more \in Seq(FailureCase) /\ Len(more) = last + 1 /\ more[last + 1] = x
      /\ \A i \in 1 .. last : more[i] = fs[i]
  BY AppendProperties
<1>2. last \in Nat /\ DOMAIN fs = 1 .. last
  BY FailureFacts
<1>3. DOMAIN more = 1 .. last + 1
  BY <1>1, FailureFacts
<1>4. x.at \in Nat /\ WindowHours \in Nat
  BY DegradationAssumption DEF FailureCase
<1> HIDE DEF more, last
<1>5. ASSUME NEW r \in 1 .. last
      PROVE  r \in Holds(k, more) <=> /\ r \in Holds(k, fs)
                                      /\ k \in ScopesOf(x) => fs[r].at >= x.at - WindowHours
  <2>1. /\ r \in 1 .. last + 1 /\ more[r] = fs[r] /\ last + 1 \in r .. last + 1
        /\ \A j \in r .. last + 1 : j = last + 1 \/ j \in r .. last
        /\ \A j \in r .. last : j \in r .. last + 1 /\ more[j] = fs[j]
    BY <1>1, <1>2
  <2>2. r \in Holds(k, more) <=>
          /\ k \in ScopesOf(fs[r])
          /\ \A j \in r .. last + 1 :
               k \in ScopesOf(more[j]) => fs[r].at >= more[j].at - WindowHours
    BY <1>1, <1>3, <2>1 DEF Holds
  <2>3. r \in Holds(k, fs) <=>
          /\ k \in ScopesOf(fs[r])
          /\ \A j \in r .. last : k \in ScopesOf(fs[j]) => fs[r].at >= fs[j].at - WindowHours
    BY <1>2 DEF Holds, last
  <2>4. (\A j \in r .. last + 1 :
           k \in ScopesOf(more[j]) => fs[r].at >= more[j].at - WindowHours)
          <=> /\ \A j \in r .. last :
                   k \in ScopesOf(fs[j]) => fs[r].at >= fs[j].at - WindowHours
              /\ k \in ScopesOf(x) => fs[r].at >= x.at - WindowHours
    BY <1>1, <2>1
  <2> QED
    BY <2>2, <2>3, <2>4
<1>6. last + 1 \in Holds(k, more) <=> k \in ScopesOf(x)
  <2>1. \A j \in last + 1 .. last + 1 : j = last + 1
    BY <1>2
  <2>2. last + 1 \in DOMAIN more
    BY <1>2, <1>3
  <2>3. x.at >= x.at - WindowHours
    BY <1>4
  <2> QED
    BY <1>1, <2>1, <2>2, <2>3 DEF Holds
<1>7. \A r \in Holds(k, more) : r \in 1 .. last \/ r = last + 1
  <2>1. \A r \in 1 .. last + 1 : r \in 1 .. last \/ r = last + 1
    BY <1>2
  <2> QED
    BY <1>3, <2>1 DEF Holds
<1>8. Holds(k, fs) \subseteq 1 .. last
  BY <1>2 DEF Holds
<1> DEFINE new == Holds(k, more)
           old == Holds(k, fs)
           late == {r \in old : fs[r].at >= x.at - WindowHours}
<1>9. CASE k \in ScopesOf(x)
  <2>1. \A r \in new : r \in late \/ r = last + 1
    BY <1>5, <1>7, <1>9
  <2>2. \A r \in late : r \in new
    BY <1>5, <1>8, <1>9
  <2>3. last + 1 \in new
    BY <1>6, <1>9
  <2> HIDE DEF new, late
  <2>4. new = late \cup {last + 1}
    BY <2>1, <2>2, <2>3
  <2> QED
    BY <1>9, <2>4 DEF new, late, more, last
<1>10. CASE k \notin ScopesOf(x)
  <2>1. \A r \in new : r \in old
    BY <1>5, <1>6, <1>7, <1>10
  <2>2. \A r \in old : r \in new
    BY <1>5, <1>8, <1>10
  <2> HIDE DEF new, old
  <2>3. new = old
    BY <2>1, <2>2
  <2> QED
    BY <1>10, <2>3 DEF new, old, more, last
<1> QED
  BY <1>9, <1>10

LEMMA WindowTells ==
  ASSUME NEW fs \in Seq(FailureCase), NEW x \in FailureCase, NEW k, NEW w \in Seq(Nat),
         NEW f, Tells(f, w, fs, k)
  PROVE  LET next == IF k \in ScopesOf(x) THEN Pruned(Append(w, x.at), x.at) ELSE w
         IN  next \in Seq(Nat) /\ \E g : Tells(g, next, Append(fs, x), k)
<1> DEFINE more == Append(fs, x)
           past == Len(fs)
           last == Len(w)
<1>1. /\ more \in Seq(FailureCase) /\ Len(more) = past + 1 /\ more[past + 1] = x
      /\ \A i \in 1 .. past : more[i] = fs[i]
  BY AppendProperties
<1>2. past \in Nat /\ last \in Nat /\ Holds(k, fs) \subseteq 1 .. past
  BY FailureFacts, LenProperties DEF Holds
<1>3. /\ f \in [1 .. last -> Holds(k, fs)]
      /\ \A i \in 1 .. last : w[i] = fs[f[i]].at
      /\ \A i, j \in 1 .. last : f[i] = f[j] => i = j
      /\ \A r \in Holds(k, fs) : \E i \in 1 .. last : f[i] = r
  BY DEF Tells
<1>4. x.at \in Nat /\ WindowHours \in Nat
  BY DegradationAssumption DEF FailureCase
<1>5. CASE k \notin ScopesOf(x)
  <2>1. Holds(k, more) = Holds(k, fs)
    BY <1>5, HoldsOfMore
  <2>2. \A i \in 1 .. last : w[i] = more[f[i]].at
    BY <1>1, <1>2, <1>3
  <2> HIDE DEF more, last
  <2>3. Tells(f, w, more, k)
    BY <1>3, <2>1, <2>2 DEF Tells, last
  <2> QED
    BY <1>5, <2>3 DEF more
<1>6. CASE k \in ScopesOf(x)
  <2> DEFINE all == Append(w, x.at)
             c == x.at - WindowHours
             v == Since(all, c)
             e == [i \in 1 .. last + 1 |-> IF i = last + 1 THEN past + 1 ELSE f[i]]
  <2>1. /\ all \in Seq(Nat) /\ Len(all) = last + 1 /\ all[last + 1] = x.at
        /\ \A i \in 1 .. last : all[i] = w[i]
    BY <1>4, AppendProperties
  <2>2. c \in Int /\ x.at >= c
    BY <1>4
  <2>3. Holds(k, more) = {r \in Holds(k, fs) : fs[r].at >= c} \cup {past + 1}
    BY <1>6, HoldsOfMore
  <2>4. /\ last + 1 \in 1 .. last + 1 /\ past + 1 \notin 1 .. past
        /\ \A i \in 1 .. last + 1 : i = last + 1 \/ i \in 1 .. last
        /\ \A i \in 1 .. last : i \in 1 .. last + 1 /\ i # last + 1
    BY <1>2
  <2>5. Pruned(all, x.at) = v
    BY DEF Pruned
  <2> HIDE DEF all, v, c
  <2>6. PICK h : Filters(v, h, all, c, last + 1)
    <3>1. \E h : Filters(Since(all, c), h, all, c, Len(all))
      BY <2>1, <2>2, SinceFilters
    <3> QED
      BY <2>1, <3>1 DEF v
  <2> DEFINE kept == Len(v)
  <2>7. /\ v \in Seq(Nat) /\ h \in [1 .. kept -> 1 .. last + 1]
        /\ \A i \in 1 .. kept : v[i] = all[h[i]] /\ all[h[i]] >= c
        /\ \A i, j \in 1 .. kept : h[i] = h[j] => i = j
        /\ \A n \in 1 .. last + 1 : all[n] >= c => \E i \in 1 .. kept : h[i] = n
    BY <2>6 DEF Filters
  <2> HIDE DEF more, past, last, kept
  <2>8. e[last + 1] = past + 1 /\ \A i \in 1 .. last : e[i] = f[i] /\ f[i] \in Holds(k, fs)
    BY <1>3, <2>4
  <2> HIDE DEF e
  <2>9. \A i \in 1 .. last + 1 : all[i] = more[e[i]].at
    <3> TAKE i \in 1 .. last + 1
    <3>1. CASE i = last + 1
      BY <1>1, <2>1, <2>8, <3>1
    <3>2. CASE i \in 1 .. last
      <4>1. e[i] = f[i] /\ f[i] \in 1 .. past
        BY <1>2, <2>8, <3>2
      <4>2. more[f[i]] = fs[f[i]]
        BY <1>1, <4>1
      <4>3. all[i] = w[i] /\ w[i] = fs[f[i]].at
        BY <1>3, <2>1, <3>2
      <4> QED
        BY <4>1, <4>2, <4>3
    <3> QED
      BY <2>4, <3>1, <3>2
  <2>10. \A i, j \in 1 .. last + 1 : e[i] = e[j] => i = j
    BY <1>2, <1>3, <2>4, <2>8
  <2>11. ASSUME NEW i \in 1 .. last + 1, all[i] >= c PROVE e[i] \in Holds(k, more)
    <3>1. CASE i = last + 1
      BY <2>3, <2>8, <3>1
    <3>2. CASE i \in 1 .. last
      BY <1>3, <2>1, <2>3, <2>8, <2>11, <3>2
    <3> QED
      BY <2>4, <3>1, <3>2
  <2>12. \A r \in Holds(k, more) : \E i \in 1 .. last + 1 : e[i] = r /\ all[i] >= c
    <3> SUFFICES ASSUME NEW r \in Holds(k, more)
                 PROVE  \E i \in 1 .. last + 1 : e[i] = r /\ all[i] >= c
      OBVIOUS
    <3>1. CASE r = past + 1
      BY <2>1, <2>2, <2>4, <2>8, <3>1
    <3>2. CASE r \in Holds(k, fs) /\ fs[r].at >= c
      <4>1. PICK i \in 1 .. last : f[i] = r
        BY <1>3, <3>2
      <4>2. e[i] = r /\ all[i] = fs[r].at /\ i \in 1 .. last + 1
        BY <1>3, <2>1, <2>4, <2>8, <4>1
      <4> QED
        BY <3>2, <4>2
    <3> QED
      BY <2>3, <3>1, <3>2
  <2> DEFINE g == [i \in 1 .. kept |-> e[h[i]]]
  <2>13. g \in [1 .. kept -> Holds(k, more)]
    BY <2>7, <2>11
  <2>14. \A i \in 1 .. kept : v[i] = more[g[i]].at
    BY <2>7, <2>9
  <2>15. \A i, j \in 1 .. kept : g[i] = g[j] => i = j
    BY <2>7, <2>10
  <2>16. \A r \in Holds(k, more) : \E i \in 1 .. kept : g[i] = r
    <3> SUFFICES ASSUME NEW r \in Holds(k, more) PROVE \E i \in 1 .. kept : g[i] = r
      OBVIOUS
    <3>1. PICK n \in 1 .. last + 1 : e[n] = r /\ all[n] >= c
      BY <2>12
    <3>2. PICK i \in 1 .. kept : h[i] = n
      BY <2>7, <3>1
    <3> QED
      BY <3>1, <3>2
  <2> HIDE DEF g
  <2>17. Tells(g, v, more, k)
    BY <2>13, <2>14, <2>15, <2>16 DEF Tells, kept
  <2> QED
    BY <1>6, <2>5, <2>7, <2>17 DEF all, more
<1> QED
  BY <1>5, <1>6

-----------------------------------------------------------------------------
DegradationInv ==
  /\ failures \in Seq(FailureCase) /\ windows \in [Scopes -> Seq(Nat)]
  /\ baselines \in [Scopes -> Nat \cup {Absent}]
  /\ \A k \in Scopes : \E f : Tells(f, windows[k], failures, k)

LEMMA DegradationStart == DegradationInit => DegradationInv
<1> SUFFICES ASSUME DegradationInit PROVE DegradationInv
  OBVIOUS
<1>1. failures = <<>> /\ windows = [k \in Scopes |-> <<>>] /\ baselines \in BaselineSets
  BY DEF DegradationInit
<1>2. baselines \in [Scopes -> Nat \cup {Absent}]
  BY <1>1, DegradationAssumption
<1>3. failures \in Seq(FailureCase) /\ windows \in [Scopes -> Seq(Nat)]
  BY <1>1
<1>4. ASSUME NEW k \in Scopes PROVE \E f : Tells(f, windows[k], failures, k)
  <2>1. Holds(k, failures) = {} /\ windows[k] = <<>>
    BY <1>1 DEF Holds
  <2>2. Tells([i \in 1 .. 0 |-> 0], <<>>, failures, k)
    BY <2>1 DEF Tells
  <2> QED
    BY <2>1, <2>2
<1> QED
  BY <1>2, <1>3, <1>4 DEF DegradationInv

LEMMA DegradationStep ==
  DegradationInv /\ [DegradationNext]_degradationVars => DegradationInv'
<1> SUFFICES ASSUME DegradationInv, [DegradationNext]_degradationVars PROVE DegradationInv'
  OBVIOUS
<1>1. CASE UNCHANGED degradationVars
  BY <1>1 DEF degradationVars, DegradationInv
<1>2. CASE DegradationNext
  <2>1. PICK x \in FailureCase : RecordFailure(x)
    BY <1>2 DEF DegradationNext, FailureCase
  <2> DEFINE Next(k) == IF k \in ScopesOf(x) THEN Pruned(Append(windows[k], x.at), x.at)
                        ELSE windows[k]
  <2>2. /\ windows' = [k \in Scopes |-> Next(k)]
        /\ failures' = Append(failures, x) /\ baselines' = baselines
    BY <2>1 DEF RecordFailure
  <2>3. failures' \in Seq(FailureCase)
    BY <2>2, AppendProperties DEF DegradationInv
  <2>4. ASSUME NEW k \in Scopes
        PROVE  Next(k) \in Seq(Nat) /\ \E g : Tells(g, Next(k), Append(failures, x), k)
    <3>1. PICK f : Tells(f, windows[k], failures, k)
      BY DEF DegradationInv
    <3>2. failures \in Seq(FailureCase) /\ windows[k] \in Seq(Nat)
      BY DEF DegradationInv
    <3> QED
      BY <3>1, <3>2, WindowTells
  <2> HIDE DEF Next
  <2>5. windows' \in [Scopes -> Seq(Nat)]
    BY <2>2, <2>4
  <2>6. \A k \in Scopes : \E g : Tells(g, windows'[k], failures', k)
    BY <2>2, <2>4
  <2> QED
    BY <2>2, <2>3, <2>5, <2>6 DEF DegradationInv
<1> QED
  BY <1>1, <1>2

(* The planner and the report, from the number of failures in the window.  *)
LEMMA Judged ==
  ASSUME DegradationInv, NEW k \in Scopes
  PROVE  LET n == Len(windows[k])
         IN  /\ IsDegraded({k}) <=>
                  /\ baselines[k] > 0
                  /\ n >= Max({MinSamples, 2 * baselines[k] * WindowHours})
             /\ IsDegraded({k}) <=> [scope |-> k, state |-> "CONFIRMED"] \in Signals
<1> DEFINE n == Len(windows[k])
           b == baselines[k]
           h == WindowHours
           bound == 2 * b * h
<1>1. /\ windows[k] \in Seq(Nat) /\ n \in Nat /\ b \in Nat \cup {-1}
      /\ h \in Nat \ {0} /\ MinSamples \in Nat
  BY DegradationAssumption, LenProperties DEF DegradationInv, Absent
<1>2. windows[k] # <<>> <=> n > 0
  BY <1>1, EmptySeq, LenProperties
<1>3. IsDegraded({k}) <=> Heard(k) /\ b > 0 /\ n >= bound
  BY DEF IsDegraded
<1>4. Heard(k) <=> n > 0 /\ n >= MinSamples
  BY <1>2 DEF Heard
<1>5. [scope |-> k, state |-> "CONFIRMED"] \in Signals <=> Heard(k) /\ State(k) = "CONFIRMED"
  BY DEF Signals
<1>6. State(k) = "CONFIRMED" <=> n >= 2 * (IF b > 0 THEN b * h ELSE n)
  BY DEF State, ExpectedFailures
<1> HIDE DEF n, b, h
<1>7. b > 0 => bound \in Nat /\ bound > 0 /\ 2 * (b * h) = bound
  <2> SUFFICES ASSUME b > 0 PROVE bound \in Nat /\ bound > 0 /\ 2 * (b * h) = bound
    OBVIOUS
  <2>1. b \in Nat /\ b >= 1 /\ h \in Nat /\ h >= 1
    BY <1>1
  <2>2. b * h >= b /\ b * h \in Nat
    BY <2>1
  <2>3. bound = 2 * (b * h)
    BY <2>1
  <2> QED
    BY <2>1, <2>2, <2>3
<1>8. b > 0 => /\ Max({MinSamples, bound}) \in {MinSamples, bound}
               /\ Max({MinSamples, bound}) >= MinSamples /\ Max({MinSamples, bound}) >= bound
  <2> SUFFICES ASSUME b > 0
               PROVE  /\ Max({MinSamples, bound}) \in {MinSamples, bound}
                      /\ Max({MinSamples, bound}) >= MinSamples
                      /\ Max({MinSamples, bound}) >= bound
    OBVIOUS
  <2>1. bound \in Nat
    BY <1>7
  <2> HIDE DEF bound
  <2>2. \E x \in {MinSamples, bound} : \A y \in {MinSamples, bound} : x >= y
    BY <1>1, <2>1
  <2> QED
    BY <2>2 DEF Max
<1> HIDE DEF bound
<1>9. IsDegraded({k}) <=> b > 0 /\ n >= Max({MinSamples, bound})
  BY <1>1, <1>3, <1>4, <1>7, <1>8
<1>10. IsDegraded({k}) <=> [scope |-> k, state |-> "CONFIRMED"] \in Signals
  <2>1. CASE b > 0
    BY <1>3, <1>5, <1>6, <1>7, <2>1
  <2>2. CASE ~(b > 0)
    BY <1>1, <1>3, <1>4, <1>5, <1>6, <2>2
  <2> QED
    BY <2>1, <2>2
<1> QED
  BY <1>9, <1>10 DEF n, b, h, bound

(* For any order of failures and any baselines a window holds exactly the  *)
(* failures remembered, and the planner calls a scope degraded for those.  *)
THEOREM WindowsHoldByArrival == DegradationSpec => []DegradedByArrival
<1>1. DegradationInv => DegradedByArrival
  <2> SUFFICES ASSUME DegradationInv PROVE DegradedByArrival
    OBVIOUS
  <2>1. ASSUME NEW k \in Scopes
        PROVE  /\ \A u \in FailureTimes :
                    Cardinality({i \in DOMAIN windows[k] : windows[k][i] = u})
                      = Cardinality({i \in Remembered(k) : failures[i].at = u})
               /\ Cardinality(Remembered(k)) = Len(windows[k])
    <3> DEFINE w == windows[k]
               last == Len(w)
    <3>1. PICK f : Tells(f, w, failures, k)
      BY DEF DegradationInv
    <3>2. Remembered(k) = Holds(k, failures)
      BY DEF Remembered, Holds
    <3>3. last \in Nat /\ DOMAIN w = 1 .. last
      BY LenProperties DEF DegradationInv
    <3> HIDE DEF w, last
    <3>4. /\ f \in [1 .. last -> Remembered(k)]
          /\ \A i \in 1 .. last : w[i] = failures[f[i]].at
          /\ \A i, j \in 1 .. last : f[i] = f[j] => i = j
          /\ \A r \in Remembered(k) : \E i \in 1 .. last : f[i] = r
      BY <3>1, <3>2 DEF Tells, last
    <3>5. IsFiniteSet(1 .. last) /\ Cardinality(1 .. last) = last
      BY <3>3, FS_Interval
    <3>6. Cardinality(Remembered(k)) = last
      BY <3>4, <3>5, SameSize
    <3>7. ASSUME NEW u
          PROVE  Cardinality({i \in DOMAIN w : w[i] = u})
                   = Cardinality({i \in Remembered(k) : failures[i].at = u})
      <4> DEFINE S == {i \in 1 .. last : w[i] = u}
                 T == {i \in Remembered(k) : failures[i].at = u}
                 g == [i \in S |-> f[i]]
      <4>1. IsFiniteSet(S)
        BY <3>5, FS_Subset
      <4>2. g \in [S -> T]
        BY <3>4
      <4>3. \A i, j \in S : g[i] = g[j] => i = j
        BY <3>4
      <4>4. \A r \in T : \E i \in S : g[i] = r
        <5> SUFFICES ASSUME NEW r \in T PROVE \E i \in S : g[i] = r
          OBVIOUS
        <5>1. PICK i \in 1 .. last : f[i] = r
          BY <3>4
        <5> QED
          BY <3>4, <5>1
      <4> HIDE DEF S, T, g
      <4>5. Cardinality(T) = Cardinality(S)
        BY <4>1, <4>2, <4>3, <4>4, SameSize
      <4> QED
        BY <3>3, <4>5 DEF S, T
    <3> QED
      BY <3>6, <3>7 DEF w, last
  <2>2. \A k \in Scopes : IsDegraded({k}) => IsDegraded(Scopes)
    BY DEF IsDegraded
  <2>3. ASSUME NEW k \in Scopes
        PROVE  /\ IsDegraded({k}) <=>
                    /\ baselines[k] > 0
                    /\ Cardinality(Remembered(k))
                         >= Max({MinSamples, 2 * baselines[k] * WindowHours})
               /\ IsDegraded({k}) <=> [scope |-> k, state |-> "CONFIRMED"] \in Signals
    <3>1. Cardinality(Remembered(k)) = Len(windows[k])
      BY <2>1
    <3> QED
      BY <3>1, Judged
  <2> QED
    BY <2>1, <2>2, <2>3 DEF DegradedByArrival
<1> QED
  BY <1>1, DegradationStart, DegradationStep, PTL DEF DegradationSpec

-----------------------------------------------------------------------------
(* The calendar: the first days of the months are the sums of the lengths  *)
(* of the months before.                                                   *)
Months == 1 .. Len(MonthDays)

LEMMA MonthsType ==
  /\ Len(MonthDays) \in Nat /\ MonthDays \in Seq(Int)
  /\ \A m \in Months : MonthDays[m] \in 28 .. 31
<1>1. MonthDays \in Seq(28 .. 31)
  BY ReplyAssumption
<1>2. Len(MonthDays) \in Nat /\ \A m \in Months : MonthDays[m] \in 28 .. 31
  BY <1>1, LenProperties, ElementOfSeq DEF Months
<1>3. MonthDays \in Seq(Int)
  <2>1. 28 .. 31 \subseteq Int
    OBVIOUS
  <2>2. DOMAIN MonthDays = Months /\ MonthDays = [m \in Months |-> MonthDays[m]]
    BY <1>1, LenProperties DEF Months
  <2>3. MonthDays \in [1 .. Len(MonthDays) -> Int]
    BY <1>2, <2>2 DEF Months
  <2> QED
    BY <1>2, <2>3
<1> QED
  BY <1>2, <1>3

LEMMA MonthStarts ==
  /\ \A m \in Months : MonthStart[m] \in Int
  /\ \A m \in Months : m = 1 => MonthStart[m] = 0
  /\ \A m \in Months : m # 1 => MonthStart[m] = MonthStart[m - 1] + MonthDays[m - 1]
<1> DEFINE sums == SumsOf(MonthDays)
           Starts(f) == f = [m \in Months |-> IF m = 1 THEN 0 ELSE f[m - 1] + MonthDays[m - 1]]
           start == [m \in Months |-> sums[m - 1]]
<1>1. MonthStart = CHOOSE f : Starts(f)
  BY DEF MonthStart, Months
<1>2. /\ sums \in [0 .. Len(MonthDays) -> Int] /\ sums[0] = 0
      /\ \A n \in 1 .. Len(MonthDays) : sums[n] = sums[n - 1] + MonthDays[n]
  BY MonthsType, SumsFacts
<1> HIDE DEF sums
<1>3. \A m \in Months : m - 1 \in 0 .. Len(MonthDays) /\ m - 1 + 1 = m
  BY MonthsType DEF Months
<1>4. \A m \in Months : m # 1 => m - 1 \in Months /\ (m - 1) - 1 \in 0 .. Len(MonthDays)
  BY MonthsType DEF Months
<1>5. \A m \in Months : start[m] = IF m = 1 THEN 0 ELSE start[m - 1] + MonthDays[m - 1]
  <2> TAKE m \in Months
  <2>1. CASE m = 1
    BY <1>2, <2>1
  <2>2. CASE m # 1
    <3>1. start[m - 1] = sums[m - 1 - 1] /\ start[m] = sums[m - 1]
      BY <1>4, <2>2
    <3>2. sums[m - 1] = sums[m - 1 - 1] + MonthDays[m - 1]
      BY <1>2, <1>4, <2>2 DEF Months
    <3> QED
      BY <2>2, <3>1, <3>2
  <2> QED
    BY <2>1, <2>2
<1>6. Starts(start)
  BY <1>5
<1>7. Starts(MonthStart)
  <2> HIDE DEF Starts
  <2> QED
    BY <1>1, <1>6
<1>8. \A m \in Months : start[m] \in Int
  BY <1>2, <1>3
<1>9. \A m \in Months : MonthStart[m] = IF m = 1 THEN 0 ELSE MonthStart[m - 1] + MonthDays[m - 1]
  BY <1>7
<1> HIDE DEF Starts, start
<1>10. \A m \in Months : MonthStart[m] \in Int
  <2> DEFINE whole == {n \in 0 .. Len(MonthDays) : n = 0 \/ MonthStart[n] \in Int}
  <2>1. 0 \in whole
    BY MonthsType
  <2>2. \A n \in 1 .. Len(MonthDays) : n - 1 \in whole => n \in whole
    <3> SUFFICES ASSUME NEW n \in 1 .. Len(MonthDays), n - 1 \in whole PROVE n \in whole
      OBVIOUS
    <3>1. MonthStart[n] \in Int
      <4>0. n \in Months
        BY DEF Months
      <4>1. CASE n = 1
        BY <1>9, <4>0, <4>1
      <4>2. CASE n # 1
        <5>1. n - 1 # 0 /\ MonthStart[n - 1] \in Int
          BY <4>2
        <5>2. MonthDays[n - 1] \in Int
          BY <1>4, <4>0, <4>2, MonthsType
        <5> QED
          BY <1>9, <4>0, <4>2, <5>1, <5>2
      <4> QED
        BY <4>1, <4>2
    <3>2. n \in 0 .. Len(MonthDays)
      BY MonthsType
    <3> QED
      BY <3>1, <3>2
  <2>3. 0 .. Len(MonthDays) \subseteq whole
    <3> HIDE DEF whole
    <3> QED
      BY <2>1, <2>2, MonthsType, HoldsUpTo
  <2>4. \A m \in Months : m \in 0 .. Len(MonthDays) /\ m # 0
    BY MonthsType DEF Months
  <2> QED
    BY <2>3, <2>4
<1> QED
  BY <1>9, <1>10

(* A month starts when the months before it have ended.                    *)
LEMMA MonthsApart ==
  ASSUME NEW m \in Months, NEW n \in Months, m < n
  PROVE  MonthStart[m] + MonthDays[m] <= MonthStart[n]
<1> DEFINE after == {k \in 0 .. Len(MonthDays) :
                       k > m => MonthStart[m] + MonthDays[m] <= MonthStart[k]}
<1>1. 0 \in after
  BY MonthsType DEF Months
<1>2. \A k \in 1 .. Len(MonthDays) : k - 1 \in after => k \in after
  <2> SUFFICES ASSUME NEW k \in 1 .. Len(MonthDays), k - 1 \in after, k > m
               PROVE  MonthStart[m] + MonthDays[m] <= MonthStart[k]
    <3>1. 1 .. Len(MonthDays) \subseteq 0 .. Len(MonthDays)
      BY MonthsType
    <3> QED
      BY <3>1
  <2>1. k \in Months /\ k # 1 /\ k - 1 \in Months
    BY MonthsType DEF Months
  <2>2. MonthStart[k] = MonthStart[k - 1] + MonthDays[k - 1]
    BY <2>1, MonthStarts
  <2>3. MonthStart[k - 1] \in Int /\ MonthStart[m] \in Int
    BY <2>1, MonthStarts
  <2>4. MonthDays[k - 1] \in 28 .. 31 /\ MonthDays[m] \in 28 .. 31
    BY <2>1, MonthsType
  <2>5. CASE k - 1 = m
    BY <2>2, <2>3, <2>4, <2>5
  <2>6. CASE k - 1 > m
    <3>1. MonthStart[m] + MonthDays[m] <= MonthStart[k - 1]
      BY <2>6
    <3> DEFINE end == MonthStart[m] + MonthDays[m]
               before == MonthStart[k - 1]
               length == MonthDays[k - 1]
    <3>2. end \in Int /\ before \in Int /\ length \in 28 .. 31
      BY <2>3, <2>4
    <3>3. end <= before /\ MonthStart[k] = before + length
      BY <2>2, <3>1
    <3>4. ASSUME NEW x \in Int, NEW y \in Int, NEW z \in 28 .. 31, x <= y
          PROVE  x <= y + z
      BY <3>4
    <3> HIDE DEF end, before, length
    <3>5. end <= before + length
      BY <3>2, <3>3, <3>4
    <3> QED
      BY <3>3, <3>5 DEF end
  <2>7. k \in Int /\ m \in Int
    BY MonthsType DEF Months
  <2> QED
    BY <2>5, <2>6, <2>7
<1>3. 0 .. Len(MonthDays) \subseteq after
  <2> HIDE DEF after
  <2> QED
    BY <1>1, <1>2, MonthsType, HoldsUpTo
<1>4. n \in 0 .. Len(MonthDays) /\ n > m
  BY MonthsType DEF Months
<1> QED
  BY <1>3, <1>4

(* A day is in one month.                                                  *)
InMonth(day, m) == MonthStart[m] <= day /\ day < MonthStart[m] + MonthDays[m]

LEMMA OneMonth ==
  ASSUME NEW m \in Months, NEW n \in Months, NEW day \in Int, InMonth(day, m), InMonth(day, n)
  PROVE  m = n
<1>1. m \in Int /\ n \in Int
  BY MonthsType DEF Months
<1>2. /\ MonthStart[m] \in Int /\ MonthStart[n] \in Int
      /\ MonthDays[m] \in Int /\ MonthDays[n] \in Int
  BY MonthStarts, MonthsType
<1>3. ~(m < n)
  <2> SUFFICES ASSUME m < n PROVE FALSE
    OBVIOUS
  <2>1. MonthStart[m] + MonthDays[m] <= MonthStart[n]
    BY MonthsApart
  <2> QED
    BY <1>2, <2>1 DEF InMonth
<1>4. ~(n < m)
  <2> SUFFICES ASSUME n < m PROVE FALSE
    OBVIOUS
  <2>1. MonthStart[n] + MonthDays[n] <= MonthStart[m]
    BY MonthsApart
  <2> QED
    BY <1>2, <2>1 DEF InMonth
<1> QED
  BY <1>1, <1>3, <1>4

LEMMA MonthOfDay ==
  ASSUME NEW m \in Months, NEW day \in Int, InMonth(day, m)
  PROVE  MonthOf(day) = m /\ DayOfMonth(day) = day - MonthStart[m] + 1
<1>1. MonthOf(day) = CHOOSE n \in Months : InMonth(day, n)
  BY DEF MonthOf, Months, InMonth
<1>2. MonthOf(day) \in Months /\ InMonth(day, MonthOf(day))
  BY <1>1
<1>3. MonthOf(day) = m
  BY <1>2, OneMonth
<1> QED
  BY <1>3 DEF DayOfMonth

(* Every day before the last month is in one.                              *)
LEMMA MonthFound ==
  ASSUME NEW last \in Months, NEW day \in Nat, day < MonthStart[last]
  PROVE  \E m \in Months : m < last /\ InMonth(day, m)
<1> DEFINE found == {k \in 0 .. Len(MonthDays) :
             (k \in Months /\ day < MonthStart[k]) => \E m \in Months : m < k /\ InMonth(day, m)}
<1>1. 0 \in found
  BY MonthsType DEF Months
<1>2. \A k \in 1 .. Len(MonthDays) : k - 1 \in found => k \in found
  <2> SUFFICES ASSUME NEW k \in 1 .. Len(MonthDays), k - 1 \in found, day < MonthStart[k]
               PROVE  \E m \in Months : m < k /\ InMonth(day, m)
    <3>1. 1 .. Len(MonthDays) \subseteq 0 .. Len(MonthDays)
      BY MonthsType
    <3> QED
      BY <3>1
  <2>1. k \in Months /\ k \in Int
    BY MonthsType DEF Months
  <2>2. k # 1
    BY <2>1, MonthStarts
  <2>3. k - 1 \in Months /\ MonthStart[k] = MonthStart[k - 1] + MonthDays[k - 1]
    <3>1. k - 1 \in Months
      BY <2>2, MonthsType DEF Months
    <3> QED
      BY <2>1, <2>2, <3>1, MonthStarts
  <2>4. MonthStart[k - 1] \in Int
    BY <2>3, MonthStarts
  <2>5. CASE day < MonthStart[k - 1]
    <3>1. PICK m \in Months : m < k - 1 /\ InMonth(day, m)
      BY <2>3, <2>5
    <3>2. m < k
      BY <2>1, <3>1 DEF Months
    <3> QED
      BY <3>1, <3>2
  <2>6. CASE MonthStart[k - 1] <= day
    <3>1. InMonth(day, k - 1)
      BY <2>3, <2>6 DEF InMonth
    <3>2. k - 1 < k
      BY <2>1
    <3> QED
      BY <2>3, <3>1, <3>2
  <2> QED
    BY <2>4, <2>5, <2>6
<1>3. 0 .. Len(MonthDays) \subseteq found
  <2> HIDE DEF found
  <2> QED
    BY <1>1, <1>2, MonthsType, HoldsUpTo
<1>4. last \in 0 .. Len(MonthDays)
  BY MonthsType DEF Months
<1> QED
  BY <1>3, <1>4

LEMMA MonthsNatural ==
  ASSUME NEW m \in Months
  PROVE  MonthStart[m] \in Nat
<1>1. 1 \in Months /\ m \in Int /\ m >= 1
  BY MonthsType DEF Months
<1>2. MonthStart[m] \in Int /\ MonthStart[1] = 0 /\ MonthDays[1] \in 28 .. 31
  BY <1>1, MonthStarts, MonthsType
<1>3. CASE m = 1
  BY <1>2, <1>3
<1>4. CASE m # 1
  <2>1. 1 < m
    BY <1>1, <1>4
  <2>2. MonthStart[1] + MonthDays[1] <= MonthStart[m]
    BY <1>1, <2>1, MonthsApart
  <2> QED
    BY <1>2, <2>2
<1> QED
  BY <1>3, <1>4

(* Days and their evenings.                                                *)
LEMMA DayOfInstant ==
  ASSUME NEW now \in Nat
  PROVE  /\ Today(now) \in Nat
         /\ Today(now) * 1440 <= now /\ now < Today(now) * 1440 + 1440
BY DEF Today, OneDay

LEMMA EveningFacts ==
  ASSUME NEW day \in Nat
  PROVE  /\ Evening(day) \in Nat /\ Evening(day) = day * 1440 + 1080
         /\ Today(Evening(day)) = day /\ IsEvening(Evening(day))
<1>1. Evening(day) = day * 1440 + 1080 /\ Evening(day) \in Nat
  BY DEF Evening, OneDay, OneHour
<1>2. Today(Evening(day)) = day
  BY <1>1 DEF Today, OneDay
<1>3. Evening(day) % 1440 = 1080
  BY <1>1
<1> QED
  BY <1>1, <1>2, <1>3 DEF IsEvening, OneDay, OneHour

LEMMA LaterEvening ==
  ASSUME NEW now \in Nat, NEW day \in Nat, day > Today(now)
  PROVE  Evening(day) > now
BY DayOfInstant, EveningFacts

LEMMA MonthsOfInstant ==
  ASSUME NEW now \in ReplyTimes
  PROVE  \E m \in Months :
           /\ m + 1 \in Months /\ InMonth(Today(now), m) /\ MonthOf(Today(now)) = m
           /\ MonthStart[m + 1] = MonthStart[m] + MonthDays[m]
<1>1. now \in Nat /\ Today(now) \in Nat
  BY ReplyAssumption, DayOfInstant
<1>2. PICK last \in 2 .. Len(MonthDays) : Today(now) < MonthStart[last]
  BY CalendarAssumption
<1>3. last \in Months
  BY MonthsType DEF Months
<1>4. PICK m \in Months : m < last /\ InMonth(Today(now), m)
  BY <1>1, <1>2, <1>3, MonthFound
<1>5. PICK n \in Months : n = m + 1 /\ n # 1 /\ n - 1 = m
  <2>1. last \in Nat /\ m \in Nat \ {0} /\ m < last
    BY <1>3, <1>4, MonthsType DEF Months
  <2>2. \E n \in Nat : n = m + 1 /\ n # 1 /\ n - 1 = m /\ n <= last
    BY <2>1
  <2>3. PICK n \in Nat : n = m + 1 /\ n # 1 /\ n - 1 = m /\ n <= last
    BY <2>2
  <2>4. n \in Months
    BY <1>3, <2>3, MonthsType DEF Months
  <2> QED
    BY <2>3, <2>4
<1>6. MonthStart[n] = MonthStart[m] + MonthDays[m]
  <2>1. MonthStart[n] = MonthStart[n - 1] + MonthDays[n - 1]
    BY <1>5, MonthStarts
  <2> QED
    BY <1>5, <2>1
<1>7. MonthOf(Today(now)) = m
  BY <1>1, <1>4, MonthOfDay
<1> QED
  BY <1>4, <1>5, <1>6, <1>7

(* By day of the month: the first evening ahead on such a day.             *)
DayMeant(number) == IF number < 28 THEN number ELSE 28

FirstSuch(due, day, now) ==
  /\ due \in Nat /\ due > now /\ DayOfMonth(Today(due)) = day
  /\ \A d \in Today(now) .. Today(due) - 1 :
       Evening(d) > now => DayOfMonth(Today(Evening(d))) # day

LEMMA OnDateFacts ==
  ASSUME NEW now \in ReplyTimes, NEW number \in 0 .. 99, DayMeant(number) # 0
  PROVE  \E due : OnDate(number, now) = Promise(due) /\ FirstSuch(due, DayMeant(number), now)
<1> DEFINE today == Today(now)
           day == DayMeant(number)
<1>1. day \in 1 .. 28
  BY DEF DayMeant
<1>2. now \in Nat /\ today \in Nat
  BY ReplyAssumption, DayOfInstant
<1>3. PICK m \in Months :
        /\ m + 1 \in Months /\ InMonth(today, m) /\ MonthOf(today) = m
        /\ MonthStart[m + 1] = MonthStart[m] + MonthDays[m]
  BY MonthsOfInstant
<1> DEFINE start == MonthStart[m]
           next == MonthStart[m + 1]
           soon == start + day - 1
           late == next + day - 1
<1>4. /\ start \in Nat /\ next \in Nat
      /\ MonthDays[m] \in 28 .. 31 /\ MonthDays[m + 1] \in 28 .. 31
  BY <1>3, MonthsNatural, MonthsType
<1>5. OnDate(number, now) = Promise(IF Evening(soon) <= now THEN Evening(late) ELSE Evening(soon))
  BY <1>3 DEF OnDate, DayMeant, Gone
<1>6. start <= today /\ today < next
  BY <1>3 DEF InMonth
<1>7. next = start + MonthDays[m]
  BY <1>3
<1>8. soon \in Nat /\ late \in Nat /\ soon < next /\ soon >= start /\ late > today
  BY <1>1, <1>2, <1>4, <1>6, <1>7
<1>9. InMonth(soon, m) /\ InMonth(late, m + 1)
  <2>1. late < next + MonthDays[m + 1] /\ next <= late
    BY <1>1, <1>4
  <2> QED
    BY <1>7, <1>8, <2>1 DEF InMonth
<1> HIDE DEF day, today
<1>10. DayOfMonth(soon) = day /\ DayOfMonth(late) = day
  <2>1. DayOfMonth(soon) = soon - start + 1
    BY <1>8, <1>9, MonthOfDay
  <2>2. DayOfMonth(late) = late - next + 1
    BY <1>3, <1>8, <1>9, MonthOfDay
  <2> QED
    BY <1>1, <1>4, <2>1, <2>2
<1> HIDE DEF soon, late
<1>11. ASSUME NEW d \in Nat, today <= d, d < next
       PROVE  DayOfMonth(d) = d - start + 1
  <2>1. InMonth(d, m)
    <3>1. start <= d
      BY <1>4, <1>2, <1>6, <1>11
    <3> QED
      BY <1>7, <1>11, <3>1 DEF InMonth
  <2> QED
    BY <2>1, MonthOfDay
<1>12. \A d \in Nat : Today(Evening(d)) = d /\ Evening(d) \in Nat
  BY EveningFacts
<1>13. CASE ~(Evening(soon) <= now)
  <2>1. OnDate(number, now) = Promise(Evening(soon))
    BY <1>5, <1>13
  <2>2. Evening(soon) > now
    BY <1>2, <1>8, <1>12, <1>13
  <2>3. ASSUME NEW d \in today .. soon - 1
        PROVE  DayOfMonth(Today(Evening(d))) # day
    <3>1. d \in Nat /\ today <= d /\ d < next /\ d < soon
      BY <1>2, <1>4, <1>8
    <3>2. DayOfMonth(d) = d - start + 1
      BY <1>11, <3>1
    <3>3. d - start + 1 # day
      BY <1>1, <1>4, <3>1 DEF soon
    <3> QED
      BY <1>12, <3>1, <3>2, <3>3
  <2>4. FirstSuch(Evening(soon), day, now)
    BY <1>8, <1>10, <1>12, <2>2, <2>3 DEF FirstSuch, today
  <2> QED
    BY <2>1, <2>4 DEF day
<1>14. CASE Evening(soon) <= now
  <2>1. OnDate(number, now) = Promise(Evening(late))
    BY <1>5, <1>14
  <2>2. Evening(late) > now
    BY <1>2, <1>8, LaterEvening DEF today
  <2>3. ASSUME NEW d \in today .. late - 1, Evening(d) > now
        PROVE  DayOfMonth(Today(Evening(d))) # day
    <3>1. d \in Nat /\ today <= d /\ d < late
      BY <1>2, <1>8
    <3>2. CASE d < next
      <4>1. DayOfMonth(d) = d - start + 1
        BY <1>11, <3>1, <3>2
      <4>2. d # soon
        BY <1>2, <1>8, <1>12, <1>14, <2>3
      <4>3. d - start + 1 # day
        BY <1>1, <1>4, <3>1, <4>2 DEF soon
      <4> QED
        BY <1>12, <3>1, <4>1, <4>3
    <3>3. CASE next <= d
      <4>1. InMonth(d, m + 1)
        <5>1. d < next + MonthDays[m + 1]
          BY <1>1, <1>4, <3>1 DEF late
        <5> QED
          BY <3>3, <5>1 DEF InMonth
      <4>2. DayOfMonth(d) = d - next + 1
        BY <1>3, <3>1, <4>1, MonthOfDay
      <4>3. d - next + 1 # day
        BY <1>1, <1>4, <3>1 DEF late
      <4> QED
        BY <1>12, <3>1, <4>2, <4>3
    <3> QED
      BY <1>4, <3>1, <3>2, <3>3
  <2>4. FirstSuch(Evening(late), day, now)
    BY <1>8, <1>10, <1>12, <2>2, <2>3 DEF FirstSuch, today
  <2> QED
    BY <2>1, <2>4 DEF day
<1> QED
  BY <1>13, <1>14

(* By weekday: within a week, on the weekday named.                        *)
LEMMA NextWeekdayFacts ==
  ASSUME NEW now \in Nat, NEW target \in 0 .. 6
  PROVE  \E ahead \in 1 .. 7 : /\ NextWeekday(target, now) = Evening(Today(now) + ahead)
                               /\ Weekday(Today(now) + ahead) = target
<1> DEFINE today == Today(now)
           delta == (target + (7 - (today % 7))) % 7
           ahead == IF delta = 0 THEN 7 ELSE delta
<1>1. today \in Nat
  BY DayOfInstant
<1> HIDE DEF today
<1>2. delta \in 0 .. 6
  BY <1>1
<1>3. ahead \in 1 .. 7
  BY <1>2
<1>4. (today + ahead) % 7 = target
  <2>1. PICK w \in 0 .. 6, q \in Nat : today = 7 * q + w /\ today % 7 = w
    BY <1>1
  <2>2. delta = (target + (7 - w)) % 7
    BY <2>1
  <2>3. CASE target > w
    <3>1. delta = target - w
      BY <2>2, <2>3
    <3>2. ahead = target - w
      BY <2>3, <3>1
    <3>3. today + ahead = 7 * q + target
      BY <2>1, <3>2
    <3> QED
      BY <3>3
  <2>4. CASE target = w
    <3>1. delta = 0
      BY <2>2, <2>4
    <3>2. today + ahead = 7 * (q + 1) + target
      BY <2>1, <2>4, <3>1
    <3> QED
      BY <3>2
  <2>5. CASE target < w
    <3>1. delta = target + 7 - w
      BY <2>2, <2>5
    <3>2. ahead = target + 7 - w
      BY <2>5, <3>1
    <3>3. today + ahead = 7 * (q + 1) + target
      BY <2>1, <3>2
    <3> QED
      BY <3>3
  <2> QED
    BY <2>3, <2>4, <2>5
<1>5. NextWeekday(target, now) = Evening(today + ahead)
  BY DEF NextWeekday, Weekday, today
<1> HIDE DEF ahead
<1> QED
  BY <1>3, <1>4, <1>5 DEF Weekday, today

-----------------------------------------------------------------------------
(* The phrase that decides a promise: it is in the reply, and those the    *)
(* code looks for before it are not.                                       *)
Decides(r, i) ==
  /\ i \in 1 .. 7 /\ Order[i] \in r.phrases
  /\ \A j \in 1 .. 7 : j < i => Order[j] \notin r.phrases

LEMMA OrderType ==
  /\ DOMAIN Order = 1 .. 7
  /\ Order[1] = "tarikh" /\ Order[2] = "din" /\ Order[3] = "parso" /\ Order[4] = "kal"
  /\ Order[5] = "weekday" /\ Order[6] = "next_week" /\ Order[7] = "aaj"
BY DEF Order

LEMMA FirstPhrase ==
  ASSUME NEW r, NEW now, ~ClosingPhrases(r), Found(r) # {}
  PROVE  \E i \in 1 .. 7 : Decides(r, i) /\ ParseReply(r, now) = Promised(r, Order[i], now)
<1> DEFINE i == CHOOSE k \in Found(r) : \A j \in Found(r) : k <= j
<1>1. Found(r) \subseteq 1 .. 7
  BY OrderType DEF Found
<1>2. i \in Found(r) /\ \A j \in Found(r) : i <= j
  <2>1. Found(r) \subseteq Nat
    BY <1>1
  <2> QED
    BY <2>1, LeastNatural
<1>3. ParseReply(r, now) = Promised(r, Order[i], now)
  BY DEF ParseReply
<1> HIDE DEF i
<1>4. Order[i] \in r.phrases
  BY <1>2 DEF Found
<1>5. ASSUME NEW j \in 1 .. 7, j < i PROVE Order[j] \notin r.phrases
  <2>1. ~(i <= j)
    BY <1>1, <1>2, <1>5
  <2> QED
    BY <1>2, <2>1, OrderType DEF Found
<1> QED
  BY <1>1, <1>2, <1>3, <1>4, <1>5 DEF Decides

(* A reply without a phrase of a promise promises nothing.                 *)
LEMMA ClosingIsNoPromise ==
  ASSUME NEW r, ClosingPhrases(r)
  PROVE  Closing(r).intent # "promise"
<1>1. CASE "stop" \in r.phrases
  BY <1>1 DEF Closing, Parsed
<1>2. CASE "stop" \notin r.phrases /\ "paid" \in r.phrases
  BY <1>2 DEF Closing, Parsed
<1>3. CASE "stop" \notin r.phrases /\ "paid" \notin r.phrases
  BY <1>3 DEF Closing, Parsed
<1> QED
  BY <1>1, <1>2, <1>3

LEMMA OnlyPhrases ==
  ASSUME NEW r, NEW now, ParseReply(r, now).intent = "promise"
  PROVE  \E i \in 1 .. 7 : Decides(r, i) /\ ParseReply(r, now) = Promised(r, Order[i], now)
<1>1. ~ClosingPhrases(r)
  BY ClosingIsNoPromise DEF ParseReply
<1>2. Found(r) # {}
  <2>1. Parsed("other", NoDue).intent = "other"
    BY DEF Parsed
  <2> QED
    BY <1>1, <2>1 DEF ParseReply
<1> QED
  BY <1>1, <1>2, FirstPhrase

(* When a promise is late already.                                         *)
TooLate(r, now) ==
  \/ /\ r.phrases = {"aaj"} /\ now % OneDay >= 22 * OneHour
  \/ /\ "din" \in r.phrases /\ "tarikh" \notin r.phrases
     /\ r.number = 0 /\ now % OneDay >= 18 * OneHour

LEMMA NotTooLate ==
  ASSUME NEW r, NEW now, NEW i \in 1 .. 7, Decides(r, i), i # 2, i # 7
  PROVE  ~TooLate(r, now)
<1>1. Order[i] \in r.phrases /\ Order[i] # "aaj"
  BY OrderType DEF Decides
<1>2. r.phrases # {"aaj"}
  BY <1>1
<1>3. i = 1 \/ i > 2
  OBVIOUS
<1>4. "tarikh" \in r.phrases \/ "din" \notin r.phrases
  BY <1>3, OrderType DEF Decides
<1> QED
  BY <1>2, <1>4 DEF TooLate

LEMMA PromiseDue == \A due : Promise(due).due = due /\ Promise(due).intent = "promise"
BY DEF Promise, Parsed

(* What the code answers for each phrase.                                  *)
LEMMA AheadFacts ==
  ASSUME NEW now \in Nat, NEW days \in Nat
  PROVE  /\ Evening(Today(now) + days) \in Nat
         /\ Today(Evening(Today(now) + days)) = Today(now) + days
         /\ days > 0 => Evening(Today(now) + days) > now
<1>1. Today(now) \in Nat /\ Today(now) + days \in Nat
  BY DayOfInstant
<1>2. days > 0 => Evening(Today(now) + days) > now
  BY <1>1, LaterEvening
<1> QED
  BY <1>1, <1>2, EveningFacts

LEMMA EveningOfToday ==
  ASSUME NEW now \in Nat
  PROVE  Evening(Today(now)) <= now <=> now % 1440 >= 1080
<1> DEFINE midnight == Today(now) * 1440
           since == now % 1440
<1>1. midnight \in Nat /\ Today(now) \in Nat
  BY DayOfInstant
<1>2. since = now - midnight
  BY DEF Today, OneDay
<1>3. Evening(Today(now)) = midnight + 1080
  BY <1>1, EveningFacts
<1> HIDE DEF midnight, since
<1>4. midnight + 1080 <= now <=> since >= 1080
  BY <1>1, <1>2
<1> QED
  BY <1>3, <1>4 DEF since

LEMMA LaterTodayFacts ==
  ASSUME NEW now \in Nat
  PROVE  TodayLater(now) <= now <=> now % 1440 >= 1320
<1> DEFINE today == Today(now)
           since == now % 1440
<1>1. today \in Nat /\ now = today * 1440 + since /\ since \in 0 .. 1439
  <2>1. Today(now) \in Nat
    BY DayOfInstant
  <2>2. now % 1440 = now - Today(now) * 1440
    BY DEF Today, OneDay
  <2>3. now % 1440 \in 0 .. 1439
    OBVIOUS
  <2> DEFINE midnight == Today(now) * 1440
  <2>4. midnight \in Nat /\ since = now - midnight /\ since \in 0 .. 1439
    BY <2>1, <2>2, <2>3
  <2> HIDE DEF midnight, since
  <2>5. now = midnight + since
    BY <2>4
  <2> QED
    BY <2>1, <2>4, <2>5 DEF midnight
<1>2. TodayLater(now) = IF now + 360 < today * 1440 + 1320 THEN now + 360 ELSE today * 1440 + 1320
  BY DEF TodayLater, OneDay, OneHour
<1> HIDE DEF today, since
<1>3. CASE now + 360 < today * 1440 + 1320
  BY <1>1, <1>2, <1>3 DEF since
<1>4. CASE ~(now + 360 < today * 1440 + 1320)
  <2>1. TodayLater(now) = today * 1440 + 1320
    BY <1>2, <1>4
  <2>2. today * 1440 + 1320 <= now <=> since >= 1320
    BY <1>1
  <2> QED
    BY <2>1, <2>2 DEF since
<1> QED
  BY <1>3, <1>4

(* What is asked of a promise that one phrase decides.                     *)
Meets(r, now, due) ==
  /\ "tarikh" \in r.phrases => FirstSuch(due, DayMeant(r.number), now)
  /\ r.phrases = {"weekday"} =>
       /\ IsEvening(due) /\ Weekday(Today(due)) = r.weekday
       /\ Today(due) - Today(now) \in 1 .. 7
  /\ due <= now <=> TooLate(r, now)

LEMMA PhraseMeets ==
  ASSUME NEW r \in Reply, NEW now \in ReplyTimes, NEW i \in 1 .. 7, Decides(r, i),
         ~ClosingPhrases(r), Promised(r, Order[i], now).intent = "promise"
  PROVE  Meets(r, now, Promised(r, Order[i], now).due)
<1> DEFINE due == Promised(r, Order[i], now).due
<1>1. now \in Nat /\ Today(now) \in Nat
  BY ReplyAssumption, DayOfInstant
<1>2. r.phrases \subseteq Phrase /\ r.number \in 0 .. 99 /\ r.weekday \in 0 .. 6
  BY DEF Reply
<1>3. i # 1 => "tarikh" \notin r.phrases
  BY OrderType DEF Decides
<1>4. i # 5 => r.phrases # {"weekday"}
  <2> SUFFICES ASSUME r.phrases = {"weekday"} PROVE i = 5
    OBVIOUS
  <2>1. Order[i] = "weekday"
    BY DEF Decides
  <2> QED
    BY <2>1, OrderType
<1>5. ASSUME i # 2, i # 7, due \in Nat, due > now
      PROVE  due <= now <=> TooLate(r, now)
  <2>1. ~TooLate(r, now)
    BY <1>5, NotTooLate
  <2>2. ~(due <= now)
    BY <1>1, <1>5
  <2> QED
    BY <2>1, <2>2
<1>6. CASE i = 1
  <2>1. Promised(r, Order[i], now) = OnDate(r.number, now)
    BY <1>6, OrderType DEF Promised
  <2>2. DayMeant(r.number) # 0
    <3> SUFFICES ASSUME DayMeant(r.number) = 0 PROVE FALSE
      OBVIOUS
    <3>1. OnDate(r.number, now) = Parsed("raises", NoDue)
      BY DEF OnDate, DayMeant
    <3>2. Parsed("raises", NoDue).intent = "raises"
      BY DEF Parsed
    <3> QED
      BY <2>1, <3>1, <3>2
  <2>3. PICK d : OnDate(r.number, now) = Promise(d) /\ FirstSuch(d, DayMeant(r.number), now)
    BY <1>2, <2>2, OnDateFacts
  <2>4. due = d
    BY <2>1, <2>3, PromiseDue
  <2>5. due \in Nat /\ due > now
    BY <2>3, <2>4 DEF FirstSuch
  <2>6. due <= now <=> TooLate(r, now)
    BY <1>5, <1>6, <2>5
  <2> HIDE DEF due
  <2>7. Meets(r, now, due)
    BY <1>4, <1>6, <2>3, <2>4, <2>6 DEF Meets
  <2> QED
    BY <2>7 DEF due
<1>7. CASE i = 2
  <2>0. PICK number \in Nat : number = r.number
    BY <1>2
  <2>1. Promised(r, Order[i], now) = Promise(Evening(Today(now) + number))
    BY <1>7, <2>0, OrderType DEF Promised
  <2>2. due = Evening(Today(now) + number)
    BY <2>1, PromiseDue
  <2>3. "din" \in r.phrases /\ "tarikh" \notin r.phrases /\ r.phrases # {"aaj"}
    <3>1. "din" \in r.phrases
      BY <1>7, OrderType DEF Decides
    <3> QED
      BY <1>3, <1>7, <3>1
  <2>4. TooLate(r, now) <=> number = 0 /\ now % 1440 >= 1080
    BY <2>0, <2>3 DEF TooLate, OneDay, OneHour
  <2> HIDE DEF due
  <2>5. ASSUME number = 0 PROVE due <= now <=> TooLate(r, now)
    <3>1. Today(now) + number = Today(now)
      BY <1>1, <2>5
    <3>2. Evening(Today(now) + number) <= now <=> now % 1440 >= 1080
      BY <1>1, <3>1, EveningOfToday
    <3> QED
      BY <2>2, <2>4, <2>5, <3>2
  <2>6. ASSUME number # 0 PROVE due <= now <=> TooLate(r, now)
    <3>1. Evening(Today(now) + number) \in Nat
      BY <1>1, <2>0, AheadFacts
    <3>2. number > 0
      BY <2>0, <2>6
    <3>3. Evening(Today(now) + number) > now
      BY <1>1, <2>0, <3>2, AheadFacts
    <3>4. ~(Evening(Today(now) + number) <= now)
      BY <1>1, <3>1, <3>3
    <3>5. ~(due <= now) /\ ~TooLate(r, now)
      BY <2>2, <2>4, <2>6, <3>4
    <3> QED
      BY <3>5
  <2>7. Meets(r, now, due)
    BY <1>3, <1>4, <1>7, <2>5, <2>6 DEF Meets
  <2> QED
    BY <2>7 DEF due
<1>8. ASSUME NEW days \in Nat, days > 0, due = Evening(Today(now) + days), i # 1, i # 2, i # 7
      PROVE  due <= now <=> TooLate(r, now)
  <2>1. due \in Nat /\ due > now
    BY <1>1, <1>8, AheadFacts
  <2> QED
    BY <1>5, <1>8, <2>1
<1>9. CASE i = 3 \/ i = 4 \/ i = 6
  <2>1. \E days \in Nat : days > 0 /\ Promised(r, Order[i], now) = Promise(Evening(Today(now) + days))
    <3>1. CASE i = 3
      BY <3>1, OrderType DEF Promised
    <3>2. CASE i = 4
      BY <3>2, OrderType DEF Promised
    <3>3. CASE i = 6
      BY <3>3, OrderType DEF Promised
    <3> QED
      BY <1>9, <3>1, <3>2, <3>3
  <2>2. PICK days \in Nat : days > 0 /\ Promised(r, Order[i], now) = Promise(Evening(Today(now) + days))
    BY <2>1
  <2>3. due = Evening(Today(now) + days)
    BY <2>2, PromiseDue
  <2>4. due <= now <=> TooLate(r, now)
    BY <1>8, <1>9, <2>2, <2>3
  <2> HIDE DEF due
  <2>5. Meets(r, now, due)
    BY <1>3, <1>4, <1>9, <2>4 DEF Meets
  <2> QED
    BY <2>5 DEF due
<1>10. CASE i = 5
  <2>1. Promised(r, Order[i], now) = Promise(NextWeekday(r.weekday, now))
    BY <1>10, OrderType DEF Promised
  <2>2. PICK ahead \in 1 .. 7 : /\ NextWeekday(r.weekday, now) = Evening(Today(now) + ahead)
                                /\ Weekday(Today(now) + ahead) = r.weekday
    BY <1>1, <1>2, NextWeekdayFacts
  <2>3. due = Evening(Today(now) + ahead)
    BY <2>1, <2>2, PromiseDue
  <2>4. ahead \in Nat /\ ahead > 0 /\ Today(now) + ahead \in Nat
    BY <1>1
  <2>5. due <= now <=> TooLate(r, now)
    BY <1>8, <1>10, <2>3, <2>4
  <2>6. Today(due) = Today(now) + ahead /\ IsEvening(due)
    BY <2>3, <2>4, EveningFacts
  <2>7. Today(due) - Today(now) \in 1 .. 7 /\ Weekday(Today(due)) = r.weekday
    BY <1>1, <2>2, <2>6
  <2> HIDE DEF due
  <2>8. Meets(r, now, due)
    BY <1>3, <1>10, <2>5, <2>6, <2>7 DEF Meets
  <2> QED
    BY <2>8 DEF due
<1>11. CASE i = 7
  <2>1. Promised(r, Order[i], now) = Promise(TodayLater(now))
    BY <1>11, OrderType DEF Promised
  <2>2. due = TodayLater(now)
    BY <2>1, PromiseDue
  <2>3. r.phrases = {"aaj"}
    <3>1. /\ "tarikh" \notin r.phrases /\ "din" \notin r.phrases /\ "parso" \notin r.phrases
          /\ "kal" \notin r.phrases /\ "weekday" \notin r.phrases /\ "next_week" \notin r.phrases
      BY <1>11, OrderType DEF Decides
    <3>2. "stop" \notin r.phrases /\ "paid" \notin r.phrases /\ "cant" \notin r.phrases
      BY DEF ClosingPhrases
    <3>3. "aaj" \in r.phrases
      BY <1>11, OrderType DEF Decides
    <3> QED
      BY <1>2, <3>1, <3>2, <3>3 DEF Phrase
  <2>4. TooLate(r, now) <=> now % 1440 >= 1320
    <3>1. "din" \notin r.phrases
      BY <2>3
    <3> QED
      BY <2>3, <3>1 DEF TooLate, OneDay, OneHour
  <2>5. due <= now <=> TooLate(r, now)
    BY <1>1, <2>2, <2>4, LaterTodayFacts
  <2> HIDE DEF due
  <2>6. Meets(r, now, due)
    BY <1>3, <1>4, <1>11, <2>5 DEF Meets
  <2> QED
    BY <2>6 DEF due
<1> QED
  BY <1>6, <1>7, <1>9, <1>10, <1>11

(* A reply is parsed once, from the words and the instant it came with.    *)
ReplyInv ==
  /\ reply \in Reply /\ arrived \in ReplyTimes
  /\ meaning \in {Unread, ParseReply(reply, arrived)}

LEMMA ReplyStart == ReplyInit => ReplyInv
BY ReplyAssumption DEF ReplyInit, ReplyInv

LEMMA ReplyStep == ReplyInv /\ [ReplyNext]_replyVars => ReplyInv'
<1> SUFFICES ASSUME ReplyInv, [ReplyNext]_replyVars PROVE ReplyInv'
  OBVIOUS
<1>1. reply' = reply /\ arrived' = arrived
  BY DEF ReplyNext, Parse, replyVars
<1>2. meaning' = meaning \/ meaning' = ParseReply(reply, arrived)
  BY DEF ReplyNext, Parse, replyVars
<1> QED
  BY <1>1, <1>2 DEF ReplyInv, Unread, Parsed

LEMMA ReadAsMeant == ReplyInv => DueAsMeant
<1> SUFFICES ASSUME ReplyInv, meaning.intent = "promise"
             PROVE  Meets(reply, arrived, meaning.due)
  BY DEF Meets, DueAsMeant, TooLate, FirstAfter, FirstSuch, DayMeant
<1>1. meaning = ParseReply(reply, arrived)
  BY DEF ReplyInv, Unread, Parsed
<1>2. PICK i \in 1 .. 7 : /\ Decides(reply, i)
                          /\ ParseReply(reply, arrived) = Promised(reply, Order[i], arrived)
  BY <1>1, OnlyPhrases
<1>3. ~ClosingPhrases(reply)
  BY <1>1, ClosingIsNoPromise DEF ParseReply
<1> QED
  BY <1>1, <1>2, <1>3, PhraseMeets DEF ReplyInv

(* Whatever the reply and whenever it comes, in any calendar of months of  *)
(* 28 to 31 days, its promise falls due as the customer means it.          *)
THEOREM PromisesFallAsMeant == ReplySpec => []DueAsMeant
BY ReplyStart, ReplyStep, ReadAsMeant, PTL DEF ReplySpec
=============================================================================
