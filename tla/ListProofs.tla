------------------------------ MODULE ListProofs ------------------------------
(***************************************************************************)
(* Theorems about the parts of the service that keep a list: the chain of  *)
(* audit events, the queue of deliveries to diagnose, the log of the rate  *)
(* limiter and the outcomes of a payment method.  They share no state.     *)
(***************************************************************************)
EXTENDS AuditChain, DiagnosisQueue, RateLimiter, NetworkHealth,
        SequenceTheorems, FiniteSetTheorems, WellFoundedInduction, TLAPS

(* A set of naturals has a least: what holds of all numbers is shown by    *)
(* the least one it might fail for.                                        *)
LEMMA LeastNatural ==
  ASSUME NEW S, S \subseteq Nat, S # {}
  PROVE  \E m \in S : \A n \in S : m <= n
<1> DEFINE less == OpToRel(<, Nat)
<1>1. IsWellFoundedOn(less, Nat)
  BY NatLessThanWellFounded
<1>2. PICK m \in S : \A n \in S : ~(<<n, m>> \in less)
  <2> HIDE DEF less
  <2> QED
    BY <1>1, WFMin
<1>3. \A n \in S : ~(n < m)
  BY <1>2 DEF OpToRel
<1> QED
  BY <1>3

-----------------------------------------------------------------------------
(***************************************************************************)
(* The audit chain: while no two appends have overlapped it is whole, for  *)
(* any number of threads, events, failed inserts and restarts.             *)
(***************************************************************************)

Stage == {"idle", "indexed", "hashed", "linked"}
Appending == {"indexed", "hashed"}
Link == [index : Nat, event : Nat, hash : Seq(Nat), prev : Seq(Nat)]
Row == [event : Nat, hash : Seq(Nat), prev : Seq(Nat), index : Nat, process : Nat]

ChainTyped ==
  /\ links \in Seq(Link) /\ rows \subseteq Row
  /\ at \in [Thread -> Stage]
  /\ event \in [Thread -> Nat] /\ index \in [Thread -> Nat]
  /\ prev \in [Thread -> Seq(Nat)]
  /\ events \in Nat /\ process \in Nat /\ raced \in BOOLEAN

NoFutureRow == \A w \in rows : w.process <= process

(* What a thread holds still fits the list.                                *)
OneAppends == \A t, u \in Thread : at[t] \in Appending /\ at[u] \in Appending => t = u
HeldIndex == \A t \in Thread : at[t] \in Appending => index[t] = Len(links)
HeldHash == \A t \in Thread : at[t] = "hashed" => prev[t] = LastHash
HeldLink ==
  \A t \in Thread : at[t] = "linked" =>
    /\ index[t] + 1 \in DOMAIN links
    /\ links[index[t] + 1].hash = LinkHash(prev[t], event[t])

InPlace == \A i \in DOMAIN links : links[i].index = i - 1
RowsMatch ==
  \A w \in rows : w.process = process =>
    /\ w.index + 1 \in DOMAIN links
    /\ links[w.index + 1].hash = w.hash

Whole ==
  /\ Verified /\ InPlace /\ RowsMatch
  /\ OneAppends /\ HeldIndex /\ HeldHash /\ HeldLink

ChainInv == ChainTyped /\ NoFutureRow /\ (~raced => Whole)

LEMMA LastHashType == ASSUME ChainTyped PROVE LastHash \in Seq(Nat)
<1>1. CASE links = <<>>
  BY <1>1 DEF LastHash, Genesis
<1>2. CASE links # <<>>
  <2>1. Len(links) \in 1 .. Len(links)
    BY <1>2 DEF ChainTyped
  <2>2. links[Len(links)] \in Link
    BY <2>1 DEF ChainTyped
  <2> QED
    BY <1>2, <2>2 DEF LastHash, Link
<1> QED
  BY <1>1, <1>2

LEMMA EmptyChain == \A S : <<>> \in Seq(S)
  BY EmptySeq

LEMMA ChainInitInv == AuditInit => ChainInv
<1> SUFFICES ASSUME AuditInit PROVE ChainInv
  OBVIOUS
<1>1. ChainTyped
  BY EmptyChain DEF AuditInit, ChainTyped, Genesis, Stage
<1>2. NoFutureRow /\ Verified /\ InPlace /\ RowsMatch
  BY DEF AuditInit, NoFutureRow, Verified, InPlace, RowsMatch
<1>3. OneAppends /\ HeldIndex /\ HeldHash /\ HeldLink
  BY DEF AuditInit, OneAppends, HeldIndex, HeldHash, HeldLink, Appending
<1> QED
  BY <1>1, <1>2, <1>3 DEF ChainInv, Whole

(* The list and the table stay: only the thread's own claims are to show.  *)
LEMMA ReadsIndexInv ==
  ASSUME ChainInv, NEW t \in Thread, ReadsIndex(t) PROVE ChainInv'
<1>1. ChainTyped'
  BY DEF ChainInv, ChainTyped, ReadsIndex, Steps, NextIndex, Stage
<1>2. NoFutureRow'
  BY DEF ChainInv, NoFutureRow, ReadsIndex
<1>3. ASSUME ~raced' PROVE Whole'
  <2>1. ~raced /\ Whole /\ \A u \in Thread : at[u] \notin Appending
    BY <1>3 DEF ChainInv, ReadsIndex, Appending
  <2>2. Verified' /\ InPlace' /\ RowsMatch'
    BY <2>1 DEF Whole, Verified, InPlace, RowsMatch, ReadsIndex
  <2>3. \A u \in Thread : /\ u # t => at'[u] = at[u] /\ index'[u] = index[u]
                                      /\ event'[u] = event[u]
                          /\ u = t => at'[u] = "indexed" /\ index'[u] = Len(links)
    BY DEF ReadsIndex, Steps, NextIndex, ChainInv, ChainTyped
  <2>4. OneAppends' /\ HeldIndex'
    BY <2>1, <2>3 DEF OneAppends, HeldIndex, ReadsIndex
  <2>5. HeldHash' /\ HeldLink'
    BY <2>1, <2>3 DEF Whole, HeldHash, HeldLink, ReadsIndex, Appending, LastHash
  <2> QED
    BY <2>2, <2>4, <2>5 DEF Whole
<1> QED
  BY <1>1, <1>2, <1>3 DEF ChainInv

LEMMA ReadsPreviousInv ==
  ASSUME ChainInv, NEW t \in Thread, ReadsPrevious(t) PROVE ChainInv'
<1>1. ChainTyped'
  BY LastHashType DEF ChainInv, ChainTyped, ReadsPrevious, Steps, Stage
<1>2. NoFutureRow'
  BY DEF ChainInv, NoFutureRow, ReadsPrevious
<1>3. ASSUME ~raced' PROVE Whole'
  <2>1. Whole
    BY <1>3 DEF ChainInv, ReadsPrevious
  <2>2. Verified' /\ InPlace' /\ RowsMatch'
    BY <2>1 DEF Whole, Verified, InPlace, RowsMatch, ReadsPrevious
  <2>3. /\ at[t] = "indexed" /\ LastHash' = LastHash
        /\ \A u \in Thread : /\ u # t => at'[u] = at[u] /\ prev'[u] = prev[u]
                             /\ u = t => at'[u] = "hashed" /\ prev'[u] = LastHash
    BY DEF ReadsPrevious, Steps, ChainInv, ChainTyped, LastHash
  <2>4. OneAppends' /\ HeldIndex'
    BY <2>1, <2>3 DEF Whole, OneAppends, HeldIndex, ReadsPrevious, Appending
  <2>5. HeldHash' /\ HeldLink'
    BY <2>1, <2>3 DEF Whole, HeldHash, HeldLink, ReadsPrevious
  <2> QED
    BY <2>2, <2>4, <2>5 DEF Whole
<1> QED
  BY <1>1, <1>2, <1>3 DEF ChainInv

(* The new link takes the place its thread read, as no other appends.      *)
LEMMA AppendsLinkInv ==
  ASSUME ChainInv, NEW t \in Thread, AppendsLink(t) PROVE ChainInv'
<1> DEFINE new == [index |-> index[t], event |-> event[t],
                   hash |-> LinkHash(prev[t], event[t]), prev |-> prev[t]]
<1>0. new \in Link /\ links \in Seq(Link) /\ links' = Append(links, new)
  BY DEF AppendsLink, ChainInv, ChainTyped, Link, LinkHash
<1>1. /\ Len(links') = Len(links) + 1 /\ DOMAIN links' = 1 .. Len(links) + 1
      /\ DOMAIN links = 1 .. Len(links) /\ Len(links) \in Nat
      /\ links'[Len(links) + 1] = new
      /\ \A i \in 1 .. Len(links) : links'[i] = links[i]
  BY <1>0
<1>2. ChainTyped' /\ NoFutureRow'
  BY <1>0 DEF ChainInv, ChainTyped, NoFutureRow, AppendsLink, Steps, Stage
<1>3. ASSUME ~raced' PROVE Whole'
  <2>1. Whole
    BY <1>3 DEF ChainInv, AppendsLink
  <2>2. /\ at[t] = "hashed" /\ index[t] = Len(links) /\ prev[t] = LastHash
    BY <2>1 DEF AppendsLink, Steps, Whole, HeldIndex, HeldHash, Appending
  <2>3. \A u \in Thread : /\ u # t => at'[u] = at[u] /\ at[u] \notin Appending
                          /\ u = t => at'[u] = "linked"
    BY <2>1, <2>2 DEF AppendsLink, Steps, Whole, OneAppends, Appending, ChainInv, ChainTyped
  <2>4. Verified'
    <3> SUFFICES ASSUME NEW i \in 1 .. Len(links) + 1
                 PROVE  /\ links'[i].prev = IF i > 1 THEN links'[i - 1].hash ELSE Genesis
                        /\ links'[i].hash = LinkHash(links'[i].prev, links'[i].event)
      BY <1>1 DEF Verified, LinkHash, Genesis
    <3>1. CASE i \in 1 .. Len(links)
      <4>1. /\ links[i].prev = IF i > 1 THEN links[i - 1].hash ELSE Genesis
            /\ links[i].hash = LinkHash(links[i].prev, links[i].event)
        BY <1>1, <2>1, <3>1 DEF Whole, Verified
      <4>2. links'[i] = links[i] /\ (i > 1 => links'[i - 1] = links[i - 1])
        BY <1>1, <3>1
      <4> QED
        BY <4>1, <4>2
    <3>2. CASE i = Len(links) + 1
      <4>1. links'[i] = new /\ new.prev = LastHash
        BY <1>1, <2>2, <3>2
      <4>2. CASE links = <<>>
        BY <4>1, <4>2, <3>2 DEF LastHash
      <4>3. CASE links # <<>>
        <5>0. Len(links) >= 1
          BY <1>0, <4>3
        <5>1. i > 1 /\ links'[i - 1] = links[Len(links)]
          BY <1>1, <3>2, <5>0
        <5> QED
          BY <4>1, <4>3, <5>1 DEF LastHash
      <4> QED
        BY <4>2, <4>3
    <3> QED
      BY <1>1, <3>1, <3>2
  <2>5. InPlace'
    BY <1>1, <2>1, <2>2 DEF Whole, InPlace
  <2>6. RowsMatch'
    BY <1>1, <2>1 DEF Whole, RowsMatch, AppendsLink
  <2>7. OneAppends' /\ HeldIndex' /\ HeldHash'
    BY <2>3 DEF OneAppends, HeldIndex, HeldHash, Appending
  <2>8. HeldLink'
    BY <1>1, <2>1, <2>2, <2>3 DEF Whole, HeldLink, AppendsLink, LinkHash
  <2> QED
    BY <2>4, <2>5, <2>6, <2>7, <2>8 DEF Whole
<1> QED
  BY <1>2, <1>3 DEF ChainInv

(* A row is the link its thread appended, or the insert failed.            *)
LEMMA InsertInv ==
  ASSUME ChainInv, NEW t \in Thread, InsertsRow(t) \/ InsertFails(t) PROVE ChainInv'
<1> DEFINE new == [event |-> event[t], hash |-> LinkHash(prev[t], event[t]),
                   prev |-> prev[t], index |-> index[t], process |-> process]
<1>0. new \in Row /\ (rows' = rows \cup {new} \/ rows' = rows)
  BY DEF InsertsRow, InsertFails, ChainInv, ChainTyped, Row, LinkHash
<1>1. /\ at[t] = "linked" /\ at' = [at EXCEPT ![t] = "idle"]
      /\ UNCHANGED <<links, event, index, prev, events, process, raced>>
  BY DEF InsertsRow, InsertFails, Steps
<1>2. ChainTyped'
  BY <1>0, <1>1 DEF ChainInv, ChainTyped, Stage
<1>3. NoFutureRow'
  BY <1>0, <1>1 DEF ChainInv, ChainTyped, NoFutureRow
<1>4. ASSUME ~raced' PROVE Whole'
  <2>1. Whole
    BY <1>1, <1>4 DEF ChainInv
  <2>2. Verified' /\ InPlace'
    BY <1>1, <2>1 DEF Whole, Verified, InPlace
  <2>3. RowsMatch'
    BY <1>0, <1>1, <2>1 DEF Whole, RowsMatch, HeldLink
  <2>4. \A u \in Thread : at'[u] \in {at[u], "idle"}
    BY <1>1 DEF ChainInv, ChainTyped
  <2>5. OneAppends' /\ HeldIndex' /\ HeldHash' /\ HeldLink'
    BY <1>1, <2>1, <2>4
    DEF Whole, OneAppends, HeldIndex, HeldHash, HeldLink, Appending, LastHash
  <2> QED
    BY <2>2, <2>3, <2>5 DEF Whole
<1> QED
  BY <1>2, <1>3, <1>4 DEF ChainInv

(* A new process starts an empty list; the rows of the old are not its own. *)
LEMMA RestartInv == ASSUME ChainInv, AuditRestart PROVE ChainInv'
<1>1. ChainTyped'
  <2>1. links' \in Seq(Link)
    BY EmptyChain DEF AuditRestart
  <2>2. process' \in Nat
    BY DEF ChainInv, ChainTyped, AuditRestart
  <2>3. raced' = FALSE
    BY DEF AuditRestart
  <2>4. at' \in [Thread -> Stage]
    BY DEF AuditRestart, Stage
  <2> QED
    BY <2>1, <2>2, <2>3, <2>4 DEF ChainInv, ChainTyped, AuditRestart
<1>2. \A w \in rows' : w.process < process'
  BY DEF ChainInv, ChainTyped, NoFutureRow, AuditRestart, Row
<1>3. NoFutureRow' /\ RowsMatch'
  BY <1>1, <1>2 DEF NoFutureRow, RowsMatch, ChainTyped, Row
<1>4. Verified' /\ InPlace'
  BY DEF AuditRestart, Verified, InPlace
<1>5. OneAppends' /\ HeldIndex' /\ HeldHash' /\ HeldLink'
  BY DEF AuditRestart, OneAppends, HeldIndex, HeldHash, HeldLink, Appending
<1> QED
  BY <1>1, <1>3, <1>4, <1>5 DEF ChainInv, Whole

LEMMA ChainStepInv == ChainInv /\ [AuditNext]_auditVars => ChainInv'
<1> SUFFICES ASSUME ChainInv, [AuditNext]_auditVars PROVE ChainInv'
  OBVIOUS
<1>1. CASE UNCHANGED auditVars
  BY <1>1 DEF auditVars, ChainInv, ChainTyped, NoFutureRow, Whole, Verified, InPlace,
              RowsMatch, OneAppends, HeldIndex, HeldHash, HeldLink, LastHash
<1> QED
  BY <1>1, ReadsIndexInv, ReadsPreviousInv, AppendsLinkInv, InsertInv, RestartInv
  DEF AuditNext

LEMMA ChainAlways == AuditSpec => []ChainInv
  BY ChainInitInv, ChainStepInv, PTL DEF AuditSpec

(* Until two appends of a process overlap its chain verifies, every index  *)
(* is a position, and every row of the process is the link it names.       *)
THEOREM ChainSound == AuditSpec => []SoundUnlessRaced
<1>1. ChainInv => SoundUnlessRaced
  BY DEF ChainInv, Whole, InPlace, RowsMatch, SoundUnlessRaced
<1> QED
  BY <1>1, ChainAlways, PTL

(* What a link of a verified chain hashes is every event up to its own:    *)
(* the first link of which that failed would have its hash from one of     *)
(* which it holds.                                                         *)
LEMMA VerifiedPins ==
  ASSUME ChainTyped, Verified
  PROVE  \A n \in 1 .. Len(links) : links[n].hash = [i \in 1 .. n |-> links[i].event]
<1> DEFINE bad == {n \in 1 .. Len(links) : links[n].hash # [i \in 1 .. n |-> links[i].event]}
<1>1. /\ Len(links) \in Nat /\ DOMAIN links = 1 .. Len(links)
      /\ \A i \in 1 .. Len(links) : links[i].event \in Nat
  <2>1. links \in Seq(Link)
    BY DEF ChainTyped
  <2>2. \A i \in 1 .. Len(links) : links[i] \in Link
    BY <2>1, ElementOfSeq
  <2> QED
    BY <2>1, <2>2, LenProperties DEF Link
<1>2. ASSUME NEW n \in 1 .. Len(links), NEW s \in Seq(Nat), Len(s) = n - 1,
             \A i \in 1 .. n - 1 : s[i] = links[i].event,
             links[n].hash = Append(s, links[n].event)
      PROVE  links[n].hash = [i \in 1 .. n |-> links[i].event]
  <2>1. /\ Append(s, links[n].event) \in Seq(Nat) /\ Len(Append(s, links[n].event)) = n
        /\ \A i \in 1 .. n - 1 : Append(s, links[n].event)[i] = s[i]
        /\ Append(s, links[n].event)[n] = links[n].event
    BY <1>1, <1>2, AppendProperties
  <2>2. DOMAIN Append(s, links[n].event) = 1 .. n
    BY <2>1, LenProperties
  <2>3. \A i \in 1 .. n : Append(s, links[n].event)[i] = links[i].event
    <3> TAKE i \in 1 .. n
    <3>1. i = n \/ i \in 1 .. n - 1
      BY <1>1
    <3> QED
      BY <1>2, <2>1, <3>1
  <2> QED
    BY <1>2, <2>1, <2>2, <2>3, LenProperties
<1>3. bad = {}
  <2> SUFFICES ASSUME bad # {} PROVE FALSE
    OBVIOUS
  <2>1. PICK n \in bad : \A k \in bad : n <= k
    <3>1. bad \subseteq Nat
      BY <1>1
    <3> HIDE DEF bad
    <3> QED
      BY <3>1, LeastNatural
  <2>2. /\ n \in 1 .. Len(links) /\ links[n].hash # [i \in 1 .. n |-> links[i].event]
        /\ links[n].prev = IF n > 1 THEN links[n - 1].hash ELSE Genesis
        /\ links[n].hash = Append(links[n].prev, links[n].event)
    BY <1>1, <2>1 DEF Verified, LinkHash
  <2>3. CASE n = 1
    <3>1. links[n].prev = <<>> /\ <<>> \in Seq(Nat) /\ Len(<<>>) = n - 1
      BY <2>2, <2>3, EmptySeq DEF Genesis
    <3> QED
      BY <1>2, <2>2, <2>3, <3>1
  <2>4. CASE n > 1
    <3> DEFINE s == [i \in 1 .. n - 1 |-> links[i].event]
    <3>1. n - 1 \in 1 .. Len(links) /\ ~(n <= n - 1)
      BY <1>1, <2>2, <2>4
    <3>2. n - 1 \notin bad
      BY <2>1, <3>1
    <3>3. links[n].prev = s
      BY <2>2, <2>4, <3>1, <3>2
    <3>4. s \in [1 .. n - 1 -> Nat] /\ n - 1 \in Nat
      BY <1>1, <2>2, <3>1
    <3>5. s \in Seq(Nat) /\ Len(s) = n - 1
      <4>1. s \in Seq(Nat)
        BY <3>4, SeqDef
      <4> QED
        BY <3>4, <4>1
    <3>6. \A i \in 1 .. n - 1 : s[i] = links[i].event
      OBVIOUS
    <3> HIDE DEF s
    <3> QED
      BY <1>2, <2>2, <3>3, <3>5, <3>6
  <2> QED
    BY <1>1, <2>2, <2>3, <2>4
<1> QED
  BY <1>3

(* The verdict "valid" pins every event of the process and their order,    *)
(* whichever appends have overlapped before.                               *)
THEOREM ChainPinsHistory == AuditSpec => []VerdictPinsHistory
<1>1. ChainInv => VerdictPinsHistory
  <2> SUFFICES ASSUME ChainInv, Verified, links # <<>>
              PROVE  LastHash = [i \in DOMAIN links |-> links[i].event]
    BY DEF VerdictPinsHistory
  <2>1. ChainTyped
    BY DEF ChainInv
  <2>2. DOMAIN links = 1 .. Len(links) /\ Len(links) \in 1 .. Len(links)
    <3>1. links \in Seq(Link)
      BY <2>1 DEF ChainTyped
    <3> QED
      BY <3>1, LenProperties, EmptySeq
  <2> QED
    BY <2>1, <2>2, VerifiedPins DEF LastHash
<1> QED
  BY <1>1, ChainAlways, PTL

-----------------------------------------------------------------------------
(***************************************************************************)
(* The queue of deliveries, for any number of processors and deliveries.   *)
(* What a processor holds, the answers and the queue share nothing, and    *)
(* each is in the order of arrival.  That none is lost needs, of a process *)
(* nothing has disturbed, that one processor works at a time and that what *)
(* it saw of the queue is still so.                                        *)
(***************************************************************************)

QueueTyped ==
  /\ queue \in Seq(Nat) /\ delivered \in Nat
  /\ stage \in [Processor -> {"idle", "looking", "taking", "diagnosing"}]
  /\ item \in [Processor -> Nat] /\ results \in [Processor -> Seq(Nat)]
  /\ answered \subseteq Seq(Nat)

(* What was delivered and is not dropped, by where it is.                  *)
Held == UNION {InHand(p) : p \in Processor}

Numbered == ToSet(queue) \cup Answered \cup Held \subseteq 1 .. delivered

InTurn ==
  /\ Ascends(queue) /\ \A a \in answered : Ascends(a)
  /\ \A p \in Processor :
       /\ Ascends(results[p])
       /\ stage[p] = "diagnosing" => \A d \in ToSet(results[p]) : d < item[p]
  /\ \A w \in ToSet(queue), d \in Answered \cup Held : d < w

Apart ==
  /\ \A p, q \in Processor : p # q => InHand(p) \cap InHand(q) = {}
  /\ \A p \in Processor, a \in answered : InHand(p) \cap ToSet(a) = {}
  /\ \A a, b \in answered : a # b => ToSet(a) \cap ToSet(b) = {}

Rests == \A p \in Processor : stage[p] = "idle" => results[p] = <<>>

Undisturbed ==
  ~disturbed =>
    /\ \A p, q \in Processor : stage[p] # "idle" /\ stage[q] # "idle" => p = q
    /\ \A p \in Processor : stage[p] = "taking" => queue # <<>>
    /\ 1 .. delivered = ToSet(queue) \cup Answered \cup Held

QueueInv == QueueTyped /\ Numbered /\ InTurn /\ Apart /\ Rests /\ Undisturbed

LEMMA EmptySet ==
  /\ <<>> \in Seq(Nat) /\ ToSet(<<>>) = {} /\ Ascends(<<>>)
<1>1. <<>> \in Seq(Nat) /\ DOMAIN <<>> = {}
  OBVIOUS
<1> QED
  BY <1>1 DEF ToSet, Ascends

LEMMA AppendSet ==
  ASSUME NEW s \in Seq(Nat), NEW x \in Nat
  PROVE  /\ Append(s, x) \in Seq(Nat) /\ Append(s, x) # <<>>
         /\ ToSet(Append(s, x)) = ToSet(s) \cup {x}
         /\ Ascends(s) /\ (\A d \in ToSet(s) : d < x) => Ascends(Append(s, x))
<1> DEFINE more == Append(s, x)
<1>1. /\ Len(s) \in Nat /\ DOMAIN s = 1 .. Len(s)
      /\ more \in Seq(Nat) /\ Len(more) = Len(s) + 1 /\ more # <<>>
      /\ \A i \in 1 .. Len(s) : more[i] = s[i]
      /\ more[Len(s) + 1] = x
  BY AppendProperties, LenProperties
<1>2. DOMAIN more = 1 .. Len(s) + 1
  BY <1>1, LenProperties
<1> HIDE DEF more
<1>3. ToSet(more) = ToSet(s) \cup {x}
  <2>1. \A i \in DOMAIN more : i \in DOMAIN s \/ i = Len(s) + 1
    BY <1>1, <1>2
  <2>2. \A i \in DOMAIN s : i \in DOMAIN more
    BY <1>1, <1>2
  <2>3. Len(s) + 1 \in DOMAIN more
    BY <1>1, <1>2
  <2> QED
    BY <1>1, <2>1, <2>2, <2>3 DEF ToSet
<1>4. ASSUME Ascends(s), \A d \in ToSet(s) : d < x PROVE Ascends(more)
  <2> SUFFICES ASSUME NEW i \in DOMAIN more, NEW j \in DOMAIN more, i < j
              PROVE  more[i] < more[j]
    BY DEF Ascends
  <2>1. i \in DOMAIN s /\ (j \in DOMAIN s \/ j = Len(s) + 1)
    BY <1>1, <1>2
  <2>2. s[i] \in ToSet(s)
    BY <2>1 DEF ToSet
  <2> QED
    BY <1>1, <1>4, <2>1, <2>2 DEF Ascends
<1> QED
  BY <1>1, <1>3, <1>4 DEF more

LEMMA HeadSet ==
  ASSUME NEW s \in Seq(Nat), s # <<>>, Ascends(s)
  PROVE  /\ Head(s) \in Nat /\ Tail(s) \in Seq(Nat) /\ Ascends(Tail(s))
         /\ ToSet(s) = {Head(s)} \cup ToSet(Tail(s))
         /\ \A w \in ToSet(Tail(s)) : Head(s) < w
<1> DEFINE rest == Tail(s)
<1>1. /\ Len(s) \in Nat /\ Len(s) > 0 /\ DOMAIN s = 1 .. Len(s)
      /\ Head(s) \in Nat /\ rest \in Seq(Nat) /\ Len(rest) = Len(s) - 1
      /\ \A i \in 1 .. Len(rest) : rest[i] = s[i + 1]
  BY HeadTailProperties, LenProperties, EmptySeq
<1>2. Head(s) = s[1] /\ DOMAIN rest = 1 .. Len(s) - 1
  BY <1>1, LenProperties DEF Head
<1> HIDE DEF rest
<1>3. /\ 1 \in DOMAIN s
      /\ \A i \in DOMAIN rest : i + 1 \in DOMAIN s /\ 1 < i + 1 /\ rest[i] = s[i + 1]
      /\ \A j \in DOMAIN s : j = 1 \/ (j - 1 \in DOMAIN rest /\ rest[j - 1] = s[j])
  BY <1>1, <1>2
<1>4. ToSet(s) = {Head(s)} \cup ToSet(rest)
  BY <1>2, <1>3 DEF ToSet
<1>5. Ascends(rest)
  <2> SUFFICES ASSUME NEW i \in DOMAIN rest, NEW j \in DOMAIN rest, i < j
              PROVE  rest[i] < rest[j]
    BY DEF Ascends
  <2>1. i + 1 < j + 1
    BY <1>2
  <2> QED
    BY <1>3, <2>1 DEF Ascends
<1>6. \A w \in ToSet(rest) : Head(s) < w
  BY <1>2, <1>3 DEF ToSet, Ascends
<1> QED
  BY <1>1, <1>4, <1>5, <1>6 DEF rest

LEMMA QueueInitInv == QueueInit => QueueInv
<1> SUFFICES ASSUME QueueInit PROVE QueueInv
  OBVIOUS
<1>1. QueueTyped /\ Rests
  BY EmptySet DEF QueueInit, QueueTyped, Rests
<1>2. \A p \in Processor : InHand(p) = {}
  BY EmptySet DEF QueueInit, InHand
<1>3. ToSet(queue) = {} /\ Answered = {} /\ Held = {}
  BY <1>2, EmptySet DEF QueueInit, Answered, Held
<1>4. Numbered /\ InTurn /\ Apart
  BY <1>2, <1>3, EmptySet DEF QueueInit, Numbered, InTurn, Apart
<1>5. Undisturbed
  BY <1>3 DEF QueueInit, Undisturbed
<1> QED
  BY <1>1, <1>4, <1>5 DEF QueueInv

(* What a processor holds.                                                 *)
LEMMA HandFacts ==
  ASSUME QueueTyped, NEW p \in Processor
  PROVE  /\ ToSet(results[p]) \subseteq InHand(p)
         /\ stage[p] = "diagnosing" => InHand(p) = ToSet(results[p]) \cup {item[p]}
         /\ stage[p] # "diagnosing" => InHand(p) = ToSet(results[p])
         /\ results[p] \in Seq(Nat) /\ item[p] \in Nat
  BY DEF QueueTyped, InHand

LEMMA AcceptsKeeps == ASSUME QueueInv, Accepts PROVE QueueInv'
<1>1. /\ delivered \in Nat /\ delivered' = delivered + 1
      /\ queue \in Seq(Nat) /\ queue' = Append(queue, delivered')
      /\ UNCHANGED <<stage, item, results, answered, disturbed>>
  BY DEF QueueInv, QueueTyped, Accepts
<1>2. \A d \in ToSet(queue) \cup Answered \cup Held : d \in Nat /\ d <= delivered
  BY <1>1 DEF QueueInv, Numbered
<1>3. /\ queue' \in Seq(Nat) /\ queue' # <<>> /\ Ascends(queue')
      /\ ToSet(queue') = ToSet(queue) \cup {delivered'}
  <2> DEFINE n == delivered'
  <2>1. n \in Nat /\ queue' = Append(queue, n) /\ \A d \in ToSet(queue) : d < n
    BY <1>1, <1>2
  <2> HIDE DEF n
  <2>2. Ascends(queue)
    BY DEF QueueInv, InTurn
  <2>3. /\ queue' \in Seq(Nat) /\ queue' # <<>> /\ Ascends(queue')
        /\ ToSet(queue') = ToSet(queue) \cup {n}
    BY <1>1, <2>1, <2>2, AppendSet
  <2> QED
    BY <2>3 DEF n
<1>4. /\ \A p \in Processor : InHand(p)' = InHand(p)
      /\ Answered' = Answered /\ Held' = Held
  BY <1>1 DEF InHand, Answered, Held
<1>5. QueueTyped' /\ Rests'
  BY <1>1, <1>3 DEF QueueInv, QueueTyped, Rests
<1>6. Numbered'
  <2>1. /\ ToSet(queue) \cup Answered \cup Held \subseteq 1 .. delivered
        /\ 1 .. delivered \subseteq 1 .. delivered' /\ delivered' \in 1 .. delivered'
    BY <1>1 DEF QueueInv, Numbered
  <2> QED
    BY <1>3, <1>4, <2>1 DEF Numbered
<1>7. InTurn'
  <2>1. \A w \in ToSet(queue'), d \in Answered' \cup Held' : d < w
    BY <1>1, <1>2, <1>3, <1>4 DEF QueueInv, InTurn
  <2> QED
    BY <1>1, <1>3, <2>1 DEF QueueInv, InTurn
<1>8. Apart'
  BY <1>1, <1>4 DEF QueueInv, Apart
<1>9. Undisturbed'
  <2>1. 1 .. delivered' = (1 .. delivered) \cup {delivered'}
    BY <1>1
  <2> QED
    BY <1>1, <1>3, <1>4, <2>1 DEF QueueInv, Undisturbed
<1> QED
  BY <1>5, <1>6, <1>7, <1>8, <1>9 DEF QueueInv

LEMMA BeginsKeeps == ASSUME QueueInv, NEW p \in Processor, Begins(p) PROVE QueueInv'
<1>1. /\ QueueTyped /\ stage[p] = "idle" /\ results[p] = <<>>
      /\ stage' = [stage EXCEPT ![p] = "looking"]
      /\ results' = [results EXCEPT ![p] = <<>>]
      /\ UNCHANGED <<queue, delivered, item, answered>>
      /\ ~disturbed' => ~disturbed /\ \A o \in Processor : stage[o] = "idle"
  BY DEF QueueInv, Rests, Begins, MovesOn
<1>2. /\ stage'[p] = "looking" /\ results'[p] = results[p]
      /\ \A q \in Processor : q # p => stage'[q] = stage[q] /\ results'[q] = results[q]
  BY <1>1 DEF QueueTyped
<1>3. /\ \A q \in Processor : InHand(q)' = InHand(q)
      /\ Answered' = Answered /\ Held' = Held
  <2>1. \A q \in Processor : InHand(q)' = InHand(q)
    BY <1>1, <1>2 DEF InHand
  <2> QED
    BY <1>1, <2>1 DEF Answered, Held
<1>4. QueueTyped' /\ Rests'
  BY <1>1, <1>2, EmptySet DEF QueueInv, QueueTyped, Rests
<1>5. Numbered' /\ Apart'
  BY <1>1, <1>3 DEF QueueInv, Numbered, Apart
<1>6. InTurn'
  BY <1>1, <1>2, <1>3 DEF QueueInv, InTurn
<1>7. Undisturbed'
  BY <1>1, <1>2, <1>3 DEF QueueInv, Undisturbed
<1> QED
  BY <1>4, <1>5, <1>6, <1>7 DEF QueueInv

LEMMA LooksKeeps == ASSUME QueueInv, NEW p \in Processor, Looks(p) PROVE QueueInv'
<1>1. /\ QueueTyped /\ queue # <<>> /\ stage[p] = "looking"
      /\ stage' = [stage EXCEPT ![p] = "taking"]
      /\ UNCHANGED <<queue, delivered, item, results, answered, disturbed>>
  BY DEF QueueInv, Looks, MayTake, MovesOn
<1>2. /\ stage'[p] = "taking"
      /\ \A q \in Processor : q # p => stage'[q] = stage[q]
  BY <1>1 DEF QueueTyped
<1>3. /\ \A q \in Processor : InHand(q)' = InHand(q)
      /\ Answered' = Answered /\ Held' = Held
  <2>1. \A q \in Processor : InHand(q)' = InHand(q)
    BY <1>1, <1>2 DEF InHand
  <2> QED
    BY <1>1, <2>1 DEF Answered, Held
<1>4. QueueTyped' /\ Rests'
  BY <1>1, <1>2 DEF QueueInv, QueueTyped, Rests
<1>5. Numbered' /\ Apart'
  BY <1>1, <1>3 DEF QueueInv, Numbered, Apart
<1>6. InTurn'
  BY <1>1, <1>2, <1>3 DEF QueueInv, InTurn
<1>7. Undisturbed'
  BY <1>1, <1>2, <1>3 DEF QueueInv, Undisturbed
<1> QED
  BY <1>4, <1>5, <1>6, <1>7 DEF QueueInv

LEMMA TakesKeeps == ASSUME QueueInv, NEW p \in Processor, Takes(p) PROVE QueueInv'
<1> DEFINE d == Head(queue)
<1>1. /\ QueueTyped /\ queue # <<>> /\ Ascends(queue) /\ stage[p] = "taking"
      /\ stage' = [stage EXCEPT ![p] = "diagnosing"] /\ item' = [item EXCEPT ![p] = d]
      /\ queue' = Tail(queue)
      /\ UNCHANGED <<delivered, results, answered, disturbed>>
  BY DEF QueueInv, InTurn, Takes, Taken, MovesOn
<1>2. /\ d \in Nat /\ queue' \in Seq(Nat) /\ Ascends(queue')
      /\ ToSet(queue) = {d} \cup ToSet(queue')
      /\ \A w \in ToSet(queue') : d < w
  BY <1>1, HeadSet DEF QueueTyped
<1> HIDE DEF d
<1>3. /\ stage'[p] = "diagnosing" /\ item'[p] = d
      /\ \A q \in Processor : q # p => stage'[q] = stage[q] /\ item'[q] = item[q]
  BY <1>1 DEF QueueTyped
<1>4. /\ InHand(p)' = InHand(p) \cup {d}
      /\ \A q \in Processor : q # p => InHand(q)' = InHand(q)
      /\ Answered' = Answered /\ Held' = Held \cup {d}
  <2>1. InHand(p)' = InHand(p) \cup {d}
    BY <1>1, <1>3 DEF InHand
  <2>2. \A q \in Processor : q # p => InHand(q)' = InHand(q)
    BY <1>1, <1>3 DEF InHand
  <2> QED
    BY <1>1, <2>1, <2>2 DEF Answered, Held
<1>5. \A e \in Answered \cup Held : e < d
  BY <1>2 DEF QueueInv, InTurn
<1>6. d \notin Answered \cup Held
  <2>1. ~(d < d)
    BY <1>2
  <2> QED
    BY <1>5, <2>1
<1>7. QueueTyped' /\ Rests'
  BY <1>1, <1>2, <1>3 DEF QueueInv, QueueTyped, Rests
<1>8. Numbered'
  BY <1>1, <1>2, <1>4 DEF QueueInv, Numbered
<1>9. InTurn'
  <2>1. \A q \in Processor : /\ Ascends(results'[q])
                             /\ stage'[q] = "diagnosing" =>
                                  \A e \in ToSet(results'[q]) : e < item'[q]
    <3>1. ToSet(results[p]) \subseteq Held
      BY HandFacts DEF QueueInv, Held
    <3> QED
      BY <1>1, <1>3, <1>5, <3>1 DEF QueueInv, InTurn
  <2>2. \A w \in ToSet(queue'), e \in Answered' \cup Held' : e < w
    BY <1>2, <1>4 DEF QueueInv, InTurn
  <2> QED
    BY <1>1, <1>2, <2>1, <2>2 DEF QueueInv, InTurn
<1>10. Apart'
  <2>1. \A q \in Processor : d \notin InHand(q)
    BY <1>6 DEF Held
  <2>2. \A a \in answered : d \notin ToSet(a)
    BY <1>6 DEF Answered
  <2> QED
    BY <1>1, <1>4, <2>1, <2>2 DEF QueueInv, Apart
<1>11. Undisturbed'
  BY <1>1, <1>2, <1>3, <1>4 DEF QueueInv, Undisturbed
<1> QED
  BY <1>7, <1>8, <1>9, <1>10, <1>11 DEF QueueInv

(* A processor that finds nothing to take has been overtaken: the process  *)
(* is disturbed, and only what the processor held is gone.                 *)
LEMMA DropsKeeps ==
  ASSUME QueueInv, NEW p \in Processor,
         results' = [results EXCEPT ![p] = <<>>],
         stage' = [stage EXCEPT ![p] = "idle"],
         UNCHANGED <<queue, delivered, item, answered>>, disturbed'
  PROVE  QueueInv'
<1>1. /\ QueueTyped /\ stage'[p] = "idle" /\ results'[p] = <<>>
      /\ \A q \in Processor : q # p => stage'[q] = stage[q] /\ results'[q] = results[q]
  BY DEF QueueInv, QueueTyped
<1>2. /\ \A q \in Processor : InHand(q)' \subseteq InHand(q)
      /\ Answered' = Answered /\ Held' \subseteq Held
  <2>1. \A q \in Processor : q # p => InHand(q)' = InHand(q)
    BY <1>1 DEF InHand
  <2>2. InHand(p)' = {}
    BY <1>1, EmptySet DEF InHand
  <2> QED
    BY <2>1, <2>2 DEF Answered, Held
<1>3. QueueTyped' /\ Rests'
  BY <1>1, EmptySet DEF QueueInv, QueueTyped, Rests
<1>4. Numbered'
  BY <1>2 DEF QueueInv, Numbered
<1>5. Apart'
  BY <1>2 DEF QueueInv, Apart
<1>6. InTurn'
  BY <1>1, <1>2, EmptySet DEF QueueInv, InTurn
<1>7. Undisturbed'
  BY DEF Undisturbed
<1> QED
  BY <1>3, <1>4, <1>5, <1>6, <1>7 DEF QueueInv

LEMMA TakesNothingKeeps ==
  ASSUME QueueInv, NEW p \in Processor, TakesNothing(p) PROVE QueueInv'
<1>1. disturbed'
  BY DEF QueueInv, Undisturbed, TakesNothing, MovesOn
<1> QED
  BY <1>1, DropsKeeps DEF TakesNothing, MovesOn

LEMMA RaisesKeeps ==
  ASSUME QueueInv, NEW p \in Processor, Raises(p) PROVE QueueInv'
BY DropsKeeps DEF Raises, MovesOn

LEMMA DiagnosesKeeps ==
  ASSUME QueueInv, NEW p \in Processor, Diagnoses(p) PROVE QueueInv'
<1> DEFINE s == results[p]
           x == item[p]
<1>1. /\ QueueTyped /\ stage[p] = "diagnosing"
      /\ stage' = [stage EXCEPT ![p] = "looking"]
      /\ results' = [results EXCEPT ![p] = Append(s, x)]
      /\ UNCHANGED <<queue, delivered, item, answered, disturbed>>
  BY DEF QueueInv, Diagnoses, MovesOn
<1>2. /\ s \in Seq(Nat) /\ x \in Nat
      /\ Ascends(s) /\ \A d \in ToSet(s) : d < x
  BY <1>1 DEF QueueInv, QueueTyped, InTurn
<1>3. InHand(p) = ToSet(s) \cup {x}
  BY <1>1 DEF InHand
<1> HIDE DEF s, x
<1>4. /\ Append(s, x) \in Seq(Nat) /\ Ascends(Append(s, x))
      /\ ToSet(Append(s, x)) = InHand(p)
  BY <1>2, <1>3, AppendSet
<1>5. /\ stage'[p] = "looking" /\ results'[p] = Append(s, x)
      /\ \A q \in Processor : q # p => stage'[q] = stage[q] /\ results'[q] = results[q]
  BY <1>1 DEF QueueTyped
<1>6. /\ \A q \in Processor : InHand(q)' = InHand(q)
      /\ Answered' = Answered /\ Held' = Held
  <2>1. \A q \in Processor : q # p => InHand(q)' = InHand(q)
    BY <1>1, <1>5 DEF InHand
  <2>2. InHand(p)' = InHand(p)
    BY <1>4, <1>5 DEF InHand
  <2> QED
    BY <1>1, <2>1, <2>2 DEF Answered, Held
<1>7. QueueTyped' /\ Rests'
  BY <1>1, <1>4, <1>5 DEF QueueInv, QueueTyped, Rests
<1>8. Numbered' /\ Apart'
  BY <1>1, <1>6 DEF QueueInv, Numbered, Apart
<1>9. InTurn'
  BY <1>1, <1>4, <1>5, <1>6 DEF QueueInv, InTurn
<1>10. Undisturbed'
  BY <1>1, <1>5, <1>6 DEF QueueInv, Undisturbed
<1> QED
  BY <1>7, <1>8, <1>9, <1>10 DEF QueueInv

LEMMA AnswersAllKeeps ==
  ASSUME QueueInv, NEW p \in Processor, AnswersAll(p) PROVE QueueInv'
<1> DEFINE s == results[p]
<1>1. /\ QueueTyped /\ stage[p] = "looking"
      /\ stage' = [stage EXCEPT ![p] = "idle"]
      /\ results' = [results EXCEPT ![p] = <<>>]
      /\ answered' = answered \cup {s}
      /\ UNCHANGED <<queue, delivered, item, disturbed>>
  BY DEF QueueInv, AnswersAll, MovesOn
<1>2. s \in Seq(Nat) /\ Ascends(s) /\ InHand(p) = ToSet(s)
  BY <1>1 DEF QueueInv, QueueTyped, InTurn, InHand
<1>3. /\ stage'[p] = "idle" /\ results'[p] = <<>>
      /\ \A q \in Processor : q # p => stage'[q] = stage[q] /\ results'[q] = results[q]
  BY <1>1 DEF QueueTyped
<1> HIDE DEF s
<1>4. /\ InHand(p)' = {}
      /\ \A q \in Processor : q # p => InHand(q)' = InHand(q)
  BY <1>1, <1>3, EmptySet DEF InHand
<1>5. /\ Answered' = Answered \cup InHand(p)
      /\ Held = Held' \cup InHand(p)
  <2>1. Answered' = Answered \cup ToSet(s)
    BY <1>1 DEF Answered
  <2> QED
    BY <1>2, <1>4, <2>1 DEF Held
<1>6. QueueTyped' /\ Rests'
  BY <1>1, <1>2, <1>3, EmptySet DEF QueueInv, QueueTyped, Rests
<1>7. Numbered'
  BY <1>1, <1>5 DEF QueueInv, Numbered
<1>8. InTurn'
  BY <1>1, <1>2, <1>3, <1>5, EmptySet DEF QueueInv, InTurn
<1>9. Apart'
  <2>1. \A q \in Processor, a \in answered' : InHand(q)' \cap ToSet(a) = {}
    BY <1>1, <1>2, <1>4 DEF QueueInv, Apart
  <2>2. \A a, b \in answered' : a # b => ToSet(a) \cap ToSet(b) = {}
    BY <1>1, <1>2 DEF QueueInv, Apart
  <2> QED
    BY <1>4, <2>1, <2>2 DEF QueueInv, Apart
<1>10. Undisturbed'
  BY <1>1, <1>3, <1>5 DEF QueueInv, Undisturbed
<1> QED
  BY <1>6, <1>7, <1>8, <1>9, <1>10 DEF QueueInv

LEMMA QueueRestartKeeps == ASSUME QueueInv, QueueRestart PROVE QueueInv'
<1>1. /\ QueueTyped /\ queue' = <<>> /\ disturbed'
      /\ stage' = [q \in Processor |-> "idle"]
      /\ results' = [q \in Processor |-> <<>>]
      /\ UNCHANGED <<delivered, item, answered>>
  BY DEF QueueInv, QueueRestart
<1>2. \A q \in Processor : stage'[q] = "idle" /\ results'[q] = <<>> /\ InHand(q)' = {}
  BY <1>1, EmptySet DEF InHand
<1>3. Answered' = Answered /\ Held' = {}
  BY <1>1, <1>2 DEF Answered, Held
<1>4. QueueTyped' /\ Rests'
  BY <1>1, <1>2, EmptySet DEF QueueInv, QueueTyped, Rests
<1>5. Numbered' /\ Apart'
  BY <1>1, <1>2, <1>3, EmptySet DEF QueueInv, Numbered, Apart
<1>6. InTurn'
  BY <1>1, <1>2, <1>3, EmptySet DEF QueueInv, InTurn
<1>7. Undisturbed'
  BY <1>1 DEF Undisturbed
<1> QED
  BY <1>4, <1>5, <1>6, <1>7 DEF QueueInv

LEMMA QueueStepInv == QueueInv /\ [QueueNext]_queueVars => QueueInv'
<1> SUFFICES ASSUME QueueInv, [QueueNext]_queueVars PROVE QueueInv'
  OBVIOUS
<1>1. CASE UNCHANGED queueVars
  BY <1>1 DEF queueVars, QueueInv, QueueTyped, Numbered, InTurn, Apart, Rests,
              Undisturbed, Answered, Held, InHand
<1>2. CASE Accepts
  BY <1>2, AcceptsKeeps
<1>3. ASSUME NEW p \in Processor,
             \/ Begins(p) \/ Looks(p) \/ Takes(p) \/ TakesNothing(p)
             \/ Diagnoses(p) \/ Raises(p) \/ AnswersAll(p)
      PROVE  QueueInv'
  BY <1>3, BeginsKeeps, LooksKeeps, TakesKeeps, TakesNothingKeeps, DiagnosesKeeps,
     RaisesKeeps, AnswersAllKeeps
<1>4. CASE QueueRestart
  BY <1>4, QueueRestartKeeps
<1> QED
  BY <1>1, <1>2, <1>3, <1>4 DEF QueueNext

(* Whatever the number of processors and of deliveries: an accepted        *)
(* failure is waiting, in hand or answered until the process is disturbed, *)
(* none is ever answered twice, and answers keep the order of arrival      *)
(* (webhook.py:252-272).                                                   *)
THEOREM QueueLosesNone == QueueSpec => []NoneLostNorTwice
<1>1. QueueInv => NoneLostNorTwice
  BY DEF QueueInv, InTurn, Apart, Undisturbed, Held, NoneLostNorTwice
<1> QED
  BY <1>1, QueueInitInv, QueueStepInv, PTL DEF QueueSpec

-----------------------------------------------------------------------------
(***************************************************************************)
(* The rate limiter, for any clients, limit, window and size of the table. *)
(* Every request of the log fell in a window of its client, as the nth of  *)
(* it: the windows of a client do not overlap, and the table holds each    *)
(* one that is not over, with the number of requests it has had.           *)
(***************************************************************************)

Request == [client : Client, at : Nat, allowed : BOOLEAN, retry : Nat]

LimiterTyped ==
  /\ tick \in Nat /\ Limit \in Nat \ {0} /\ Window \in Nat \ {0}
  /\ \A k \in DOMAIN hits :
       /\ hits[k].start \in 0 .. tick /\ hits[k].count \in Nat \ {0}
       /\ hits[k] = [start |-> hits[k].start, count |-> hits[k].count]
  /\ log \in Seq(Request)

InTime ==
  /\ \A i \in DOMAIN log : log[i].at <= tick
  /\ \A i, j \in DOMAIN log : i < j => log[i].at <= log[j].at

SameClient(i, j) == log[i].client = log[j].client

(* The window each request fell in, by its start, and which it was there.  *)
Placed(start, nth) ==
  /\ start \in [DOMAIN log -> Nat] /\ nth \in [DOMAIN log -> Nat \ {0}]
  /\ \A i \in DOMAIN log :
       /\ start[i] <= log[i].at /\ log[i].at < start[i] + Window
       /\ log[i].allowed <=> nth[i] <= Limit
       /\ log[i].retry = (start[i] + Window - log[i].at) \div 2 + 1
  /\ \A i, j \in DOMAIN log : i < j /\ SameClient(i, j) =>
       \/ start[i] = start[j] /\ nth[i] < nth[j]
       \/ start[i] + Window <= start[j]
  /\ \A i \in DOMAIN log : \A q \in 1 .. nth[i] - 1 :
       \E j \in DOMAIN log : j < i /\ SameClient(i, j) /\ start[j] = start[i] /\ nth[j] = q

(* What the table knows of them.                                           *)
Tabled(start, nth) ==
  /\ \A i \in DOMAIN log :
       \/ start[i] + Window <= tick
       \/ /\ log[i].client \in DOMAIN hits
          /\ \/ /\ start[i] = hits[log[i].client].start
                /\ nth[i] <= hits[log[i].client].count
             \/ start[i] + Window <= hits[log[i].client].start
  /\ \A k \in DOMAIN hits : \A q \in 1 .. hits[k].count :
       \E j \in DOMAIN log :
         log[j].client = k /\ start[j] = hits[k].start /\ nth[j] = q

LimiterInv ==
  /\ LimiterTyped /\ InTime
  /\ \E start, nth : Placed(start, nth) /\ Tabled(start, nth)

LEMMA LogFacts ==
  ASSUME LimiterTyped
  PROVE  /\ Len(log) \in Nat /\ DOMAIN log = 1 .. Len(log)
         /\ \A i \in DOMAIN log :
              /\ log[i].client \in Client /\ log[i].at \in Nat
              /\ log[i].allowed \in BOOLEAN /\ log[i].retry \in Nat
<1>1. log \in Seq(Request)
  BY DEF LimiterTyped
<1>2. Len(log) \in Nat /\ DOMAIN log = 1 .. Len(log)
  BY <1>1, LenProperties
<1>3. \A i \in DOMAIN log : log[i] \in Request
  BY <1>1, <1>2, ElementOfSeq
<1> QED
  BY <1>2, <1>3 DEF Request

LEMMA LimiterInitInv == LimiterInit => LimiterInv
<1> SUFFICES ASSUME LimiterInit PROVE LimiterInv
  OBVIOUS
<1>1. DOMAIN log = {} /\ DOMAIN hits = {} /\ tick = 0
  BY DEF LimiterInit
<1>2. LimiterTyped /\ InTime
  BY <1>1, LimiterAssumption DEF LimiterInit, LimiterTyped, InTime
<1> DEFINE start == [i \in {} |-> 0]
           nth == [i \in {} |-> 1]
<1>3. start \in [{} -> Nat] /\ nth \in [{} -> Nat \ {0}]
  OBVIOUS
<1> HIDE DEF start, nth
<1>4. Placed(start, nth) /\ Tabled(start, nth)
  BY <1>1, <1>3 DEF Placed, Tabled
<1> QED
  BY <1>2, <1>4 DEF LimiterInv

LEMMA TickKeeps == ASSUME LimiterInv, Tick PROVE LimiterInv'
<1>1. tick \in Nat /\ tick' = tick + 1 /\ UNCHANGED <<hits, log>>
  BY DEF LimiterInv, LimiterTyped, Tick
<1>2. PICK start, nth : Placed(start, nth) /\ Tabled(start, nth)
  BY DEF LimiterInv
<1>3. LimiterTyped'
  BY <1>1 DEF LimiterInv, LimiterTyped
<1>4. InTime'
  <2>1. \A i \in DOMAIN log : log[i].at \in Nat
    BY LogFacts DEF LimiterInv
  <2> QED
    BY <1>1, <2>1 DEF LimiterInv, InTime
<1>5. Placed(start, nth)'
  BY <1>1, <1>2 DEF Placed, SameClient
<1>6. Tabled(start, nth)'
  <2>1. \A i \in DOMAIN log : start[i] + Window \in Nat
    BY <1>2 DEF LimiterInv, LimiterTyped, Placed
  <2> QED
    BY <1>1, <1>2, <2>1 DEF Tabled
<1> QED
  BY <1>3, <1>4, <1>5, <1>6 DEF LimiterInv

(* A sweep takes windows that are over, and the window a request counts in *)
(* is its client's running one or a new one.                               *)
LEMMA KeptFacts ==
  /\ DOMAIN Kept \subseteq DOMAIN hits
  /\ \A k \in DOMAIN Kept : Kept[k] = hits[k]
  /\ \A k \in DOMAIN hits \ DOMAIN Kept : Over(hits[k])
<1>1. CASE Kept = hits
  BY <1>1
<1>2. CASE Kept = Restrict(hits, {k \in DOMAIN hits : ~Over(hits[k])})
  <2> DEFINE D == {k \in DOMAIN hits : ~Over(hits[k])}
  <2>1. DOMAIN Kept = D /\ \A k \in D : Kept[k] = hits[k]
    BY <1>2 DEF Restrict
  <2> QED
    BY <2>1
<1> QED
  BY <1>1, <1>2 DEF Kept

LEMMA WindowFacts ==
  ASSUME LimiterTyped, NEW k
  PROVE  LET w == [WindowOf(k) EXCEPT !.count = @ + 1]
         IN  \/ /\ k \in DOMAIN hits /\ tick < hits[k].start + Window
                /\ w = [start |-> hits[k].start, count |-> hits[k].count + 1]
             \/ /\ k \notin DOMAIN hits \/ hits[k].start + Window <= tick
                /\ w = [start |-> tick, count |-> 1]
<1>1. CASE k \in DOMAIN Kept /\ ~Over(Kept[k])
  <2>1. k \in DOMAIN hits /\ WindowOf(k) = hits[k] /\ ~Over(hits[k])
    BY <1>1, KeptFacts DEF WindowOf
  <2>2. tick < hits[k].start + Window
    BY <2>1 DEF LimiterTyped, Over
  <2>3. hits[k] = [start |-> hits[k].start, count |-> hits[k].count]
    BY <2>1 DEF LimiterTyped
  <2> QED
    BY <2>1, <2>2, <2>3
<1>2. CASE ~(k \in DOMAIN Kept /\ ~Over(Kept[k]))
  <2>1. WindowOf(k) = [start |-> tick, count |-> 0]
    BY <1>2 DEF WindowOf, Fresh
  <2>2. k \in DOMAIN hits => Over(hits[k])
    BY <1>2, KeptFacts
  <2>3. k \notin DOMAIN hits \/ hits[k].start + Window <= tick
    BY <2>2 DEF LimiterTyped, Over
  <2> QED
    BY <2>1, <2>3
<1> QED
  BY <1>1, <1>2

LEMMA CheckKeeps ==
  ASSUME LimiterInv, NEW k \in Client, Check(k) PROVE LimiterInv'
<1> DEFINE w == [WindowOf(k) EXCEPT !.count = @ + 1]
           n == Len(log)
           kept == DOMAIN Kept
           request == [client |-> k, at |-> tick, allowed |-> w.count <= Limit,
                       retry |-> RetryAfter(w)]
<1>1. /\ LimiterTyped /\ InTime /\ tick \in Nat
      /\ Limit \in Nat \ {0} /\ Window \in Nat \ {0} /\ log \in Seq(Request)
      /\ \A c \in DOMAIN hits :
           hits[c].start \in Nat /\ hits[c].start <= tick /\ hits[c].count \in Nat \ {0}
  BY DEF LimiterInv, LimiterTyped
<1>2. /\ hits' = [c \in kept \cup {k} |-> IF c = k THEN w ELSE Kept[c]]
      /\ log' = Append(log, request) /\ tick' = tick
  BY DEF Check
<1>3. PICK start, nth : Placed(start, nth) /\ Tabled(start, nth)
  BY DEF LimiterInv
<1>4. n \in Nat /\ DOMAIN log = 1 .. n
      /\ \A i \in 1 .. n : log[i].client \in Client /\ log[i].at \in Nat /\ log[i].at <= tick
  BY <1>1, LogFacts DEF InTime
<1>5. \/ /\ k \in DOMAIN hits /\ tick < hits[k].start + Window
         /\ w = [start |-> hits[k].start, count |-> hits[k].count + 1]
      \/ /\ k \notin DOMAIN hits \/ hits[k].start + Window <= tick
         /\ w = [start |-> tick, count |-> 1]
  BY <1>1, WindowFacts
<1>6. /\ kept \subseteq DOMAIN hits
      /\ \A c \in kept : Kept[c] = hits[c]
      /\ \A c \in DOMAIN hits \ kept : hits[c].start + Window <= tick
  BY <1>1, KeptFacts DEF Over
<1>7. /\ request.client = k /\ request.at = tick /\ request.allowed = (w.count <= Limit)
      /\ request.retry = (w.start + Window - tick) \div 2 + 1
  BY DEF RetryAfter
<1> DEFINE first == w.start
           count == w.count
<1>8. /\ first \in Nat /\ count \in Nat \ {0} /\ first <= tick /\ tick < first + Window
      /\ w = [start |-> first, count |-> count]
  BY <1>1, <1>5
<1>9. request \in Request
  <2>1. (first + Window - tick) \div 2 + 1 \in Nat
    BY <1>1, <1>8
  <2> QED
    BY <1>1, <1>7, <1>8, <2>1 DEF Request
<1> HIDE DEF request, w, n, kept, first, count
(* The client's earlier windows end before this one starts, and the        *)
(* requests this one has had are those before this.                        *)
<1>10. \A i \in 1 .. n : log[i].client = k =>
         \/ start[i] = first /\ nth[i] < count
         \/ start[i] + Window <= first
  <2> SUFFICES ASSUME NEW i \in 1 .. n, log[i].client = k
              PROVE  \/ start[i] = first /\ nth[i] < count
                     \/ start[i] + Window <= first
    OBVIOUS
  <2>1. /\ start[i] \in Nat /\ nth[i] \in Nat
        /\ \/ start[i] + Window <= tick
           \/ /\ k \in DOMAIN hits
              /\ \/ start[i] = hits[k].start /\ nth[i] <= hits[k].count
                 \/ start[i] + Window <= hits[k].start
    BY <1>3, <1>4 DEF Placed, Tabled
  <2>2. CASE /\ k \in DOMAIN hits /\ tick < hits[k].start + Window
             /\ first = hits[k].start /\ count = hits[k].count + 1
    <3>1. start[i] + Window <= tick => start[i] <= hits[k].start
      BY <1>1, <2>1, <2>2
    <3>2. CASE start[i] + Window <= tick
      <4>1. i \in DOMAIN log /\ k \in DOMAIN hits
        BY <1>4, <2>2
      <4>2. PICK j \in DOMAIN log :
              log[j].client = k /\ start[j] = hits[k].start /\ nth[j] = hits[k].count
        <5>1. hits[k].count \in 1 .. hits[k].count
          BY <1>1, <4>1
        <5> QED
          BY <1>3, <4>1, <5>1 DEF Tabled
      <4>3. start[j] \in Nat /\ nth[j] \in Nat
        BY <1>3 DEF Placed
      <4>4. i # j
        BY <1>1, <2>1, <2>2, <3>2, <4>2
      <4>5. (i < j \/ j < i) /\ SameClient(i, j) /\ SameClient(j, i)
        BY <1>4, <2>2, <4>2, <4>4 DEF SameClient
      <4>6. start[j] + Window <= start[i] => FALSE
        BY <1>1, <2>1, <2>2, <3>2, <4>2
      <4> QED
        BY <1>1, <1>3, <2>1, <2>2, <4>1, <4>2, <4>3, <4>5, <4>6 DEF Placed
    <3> QED
      BY <1>1, <2>1, <2>2, <3>2
  <2>3. CASE /\ k \notin DOMAIN hits \/ hits[k].start + Window <= tick
             /\ first = tick
    BY <1>1, <2>1, <2>3
  <2>4. \/ /\ k \in DOMAIN hits /\ tick < hits[k].start + Window
           /\ first = hits[k].start /\ count = hits[k].count + 1
        \/ /\ k \notin DOMAIN hits \/ hits[k].start + Window <= tick
           /\ first = tick
    BY <1>5 DEF first, count
  <2> QED
    BY <2>2, <2>3, <2>4
<1>11. \A q \in 1 .. count - 1 : \E j \in 1 .. n :
         log[j].client = k /\ start[j] = first /\ nth[j] = q
  <2>1. \/ /\ k \in DOMAIN hits
           /\ first = hits[k].start /\ count = hits[k].count + 1
        \/ count = 1
    BY <1>5 DEF first, count
  <2>2. CASE k \in DOMAIN hits /\ first = hits[k].start /\ count = hits[k].count + 1
    <3>1. count - 1 = hits[k].count
      BY <1>1, <2>2
    <3> QED
      BY <1>3, <1>4, <2>2, <3>1 DEF Tabled
  <2>3. CASE count = 1
    BY <2>3
  <2> QED
    BY <2>1, <2>2, <2>3
<1>12. /\ log' \in Seq(Request) /\ DOMAIN log' = 1 .. n + 1
       /\ log'[n + 1] = request /\ \A i \in 1 .. n : log'[i] = log[i]
  <2>1. /\ log' \in Seq(Request) /\ Len(log') = n + 1
        /\ log'[n + 1] = request /\ \A i \in 1 .. n : log'[i] = log[i]
    BY <1>1, <1>2, <1>9, AppendProperties DEF n
  <2> QED
    BY <2>1, LenProperties
<1>13. /\ DOMAIN hits' = kept \cup {k} /\ hits'[k] = [start |-> first, count |-> count]
       /\ \A c \in kept : c # k => hits'[c] = hits[c]
  BY <1>2, <1>6, <1>8
<1>14. \A i \in 1 .. n + 1 : i = n + 1 \/ i \in 1 .. n
  BY <1>4
<1>15. \A i \in 1 .. n : i # n + 1 /\ i < n + 1 /\ i \in 1 .. n + 1
  BY <1>4
<1>16. LimiterTyped'
  <2>1. \A c \in DOMAIN hits' :
          /\ hits'[c].start \in 0 .. tick /\ hits'[c].count \in Nat \ {0}
          /\ hits'[c] = [start |-> hits'[c].start, count |-> hits'[c].count]
    <3> TAKE c \in DOMAIN hits'
    <3>1. CASE c = k
      BY <1>1, <1>8, <1>13, <3>1
    <3>2. CASE c # k
      BY <1>1, <1>6, <1>13, <3>2 DEF LimiterTyped
    <3> QED
      BY <3>1, <3>2
  <2> QED
    BY <1>1, <1>2, <1>12, <2>1 DEF LimiterTyped
<1>17. InTime'
  <2>1. \A i \in 1 .. n + 1 : log'[i].at <= tick
    BY <1>1, <1>4, <1>7, <1>12, <1>14
  <2>2. \A i, j \in 1 .. n + 1 : i < j => log'[i].at <= log'[j].at
    <3> SUFFICES ASSUME NEW i \in 1 .. n + 1, NEW j \in 1 .. n + 1, i < j
                PROVE  log'[i].at <= log'[j].at
      OBVIOUS
    <3>1. i \in 1 .. n
      BY <1>4
    <3> QED
      BY <1>1, <1>4, <1>7, <1>12, <1>14, <3>1 DEF InTime
  <2> QED
    BY <1>2, <1>12, <2>1, <2>2 DEF InTime
<1>18. PICK from \in [1 .. n + 1 -> Nat], which \in [1 .. n + 1 -> Nat \ {0}] :
         /\ from[n + 1] = first /\ \A i \in 1 .. n : from[i] = start[i]
         /\ which[n + 1] = count /\ \A i \in 1 .. n : which[i] = nth[i]
  <2>1. /\ start \in [1 .. n -> Nat] /\ nth \in [1 .. n -> Nat \ {0}]
        /\ n \in Nat /\ first \in Nat /\ count \in Nat \ {0}
    BY <1>3, <1>4, <1>8 DEF Placed
  <2>2. PICK f \in [1 .. n + 1 -> Nat] :
          f[n + 1] = first /\ \A i \in 1 .. n : f[i] = start[i]
    <3> DEFINE more == [i \in 1 .. n + 1 |-> IF i = n + 1 THEN first ELSE start[i]]
    <3>1. more[n + 1] = first /\ \A i \in 1 .. n : more[i] = start[i]
      BY <1>4, <1>15
    <3>2. more \in [1 .. n + 1 -> Nat]
      BY <1>14, <2>1
    <3> HIDE DEF more
    <3> QED
      BY <3>1, <3>2
  <2>3. PICK g \in [1 .. n + 1 -> Nat \ {0}] :
          g[n + 1] = count /\ \A i \in 1 .. n : g[i] = nth[i]
    <3> DEFINE more == [i \in 1 .. n + 1 |-> IF i = n + 1 THEN count ELSE nth[i]]
    <3>1. more[n + 1] = count /\ \A i \in 1 .. n : more[i] = nth[i]
      BY <1>4, <1>15
    <3>2. more \in [1 .. n + 1 -> Nat \ {0}]
      BY <1>14, <2>1
    <3> HIDE DEF more
    <3> QED
      BY <3>1, <3>2
  <2> QED
    BY <2>2, <2>3
<1>19. \A i \in 1 .. n :
         /\ log'[i].client = log[i].client /\ log'[i].at = log[i].at
         /\ log'[i].allowed = log[i].allowed /\ log'[i].retry = log[i].retry
  BY <1>12
<1>20. /\ log'[n + 1].client = k /\ log'[n + 1].at = tick
       /\ log'[n + 1].allowed = (count <= Limit)
       /\ log'[n + 1].retry = (first + Window - tick) \div 2 + 1
  BY <1>7, <1>12 DEF first, count
<1> HIDE DEF Request
<1>21. Placed(from, which)'
  <2>1. \A i \in DOMAIN log' :
          /\ from[i] <= log'[i].at /\ log'[i].at < from[i] + Window
          /\ log'[i].allowed <=> which[i] <= Limit
          /\ log'[i].retry = (from[i] + Window - log'[i].at) \div 2 + 1
    <3> TAKE i \in DOMAIN log'
    <3>1. CASE i = n + 1
      BY <1>8, <1>18, <1>20, <3>1
    <3>2. CASE i \in 1 .. n
      BY <1>3, <1>4, <1>18, <1>19, <3>2 DEF Placed
    <3> QED
      BY <1>12, <1>14, <3>1, <3>2
  <2>2. \A i, j \in DOMAIN log' : i < j /\ log'[i].client = log'[j].client =>
          \/ from[i] = from[j] /\ which[i] < which[j]
          \/ from[i] + Window <= from[j]
    <3> SUFFICES ASSUME NEW i \in DOMAIN log', NEW j \in DOMAIN log', i < j,
                       log'[i].client = log'[j].client
                PROVE  \/ from[i] = from[j] /\ which[i] < which[j]
                       \/ from[i] + Window <= from[j]
      OBVIOUS
    <3>1. i \in 1 .. n
      BY <1>4, <1>12
    <3>2. CASE j = n + 1
      BY <1>10, <1>18, <1>19, <1>20, <3>1, <3>2
    <3>3. CASE j \in 1 .. n
      BY <1>3, <1>4, <1>18, <1>19, <3>1, <3>3 DEF Placed, SameClient
    <3> QED
      BY <1>12, <1>14, <3>2, <3>3
  <2>3. \A i \in DOMAIN log' : \A q \in 1 .. which[i] - 1 : \E j \in DOMAIN log' :
          j < i /\ log'[i].client = log'[j].client /\ from[j] = from[i] /\ which[j] = q
    <3> TAKE i \in DOMAIN log'
    <3> TAKE q \in 1 .. which[i] - 1
    <3>1. CASE i = n + 1
      <4>1. PICK j \in 1 .. n : log[j].client = k /\ start[j] = first /\ nth[j] = q
        BY <1>11, <1>18, <3>1
      <4> QED
        BY <1>12, <1>15, <1>18, <1>19, <1>20, <3>1, <4>1
    <3>2. CASE i \in 1 .. n
      <4>1. i \in DOMAIN log /\ q \in 1 .. nth[i] - 1
        BY <1>4, <1>18, <3>2
      <4>2. PICK j \in DOMAIN log :
              j < i /\ SameClient(i, j) /\ start[j] = start[i] /\ nth[j] = q
        BY <1>3, <4>1 DEF Placed
      <4>3. j \in 1 .. n /\ j \in DOMAIN log'
        BY <1>4, <1>12, <1>15
      <4> QED
        BY <1>18, <1>19, <3>2, <4>2, <4>3 DEF SameClient
    <3> QED
      BY <1>12, <1>14, <3>1, <3>2
  <2> QED
    <3>1. from \in [DOMAIN log' -> Nat] /\ which \in [DOMAIN log' -> Nat \ {0}]
      BY <1>12, <1>18
    <3> QED
      BY <2>1, <2>2, <2>3, <3>1 DEF Placed, SameClient
<1>22. Tabled(from, which)'
  <2>1. \A i \in DOMAIN log' :
          \/ from[i] + Window <= tick
          \/ /\ log'[i].client \in DOMAIN hits'
             /\ \/ /\ from[i] = hits'[log'[i].client].start
                   /\ which[i] <= hits'[log'[i].client].count
                \/ from[i] + Window <= hits'[log'[i].client].start
    <3> TAKE i \in DOMAIN log'
    <3>1. CASE i = n + 1
      BY <1>8, <1>13, <1>18, <1>20, <3>1
    <3>2. CASE i \in 1 .. n /\ log[i].client = k
      <4>1. /\ log'[i].client = k /\ k \in DOMAIN hits'
            /\ hits'[k].start = first /\ hits'[k].count = count
        BY <1>13, <1>19, <3>2
      <4>2. which[i] = nth[i] /\ nth[i] \in Nat /\ from[i] = start[i]
        BY <1>18, <3>2, <1>3, <1>4 DEF Placed
      <4>3. (from[i] = first /\ which[i] < count) \/ from[i] + Window <= first
        BY <1>10, <3>2, <4>2
      <4> QED
        BY <1>8, <4>1, <4>2, <4>3
    <3>3. CASE i \in 1 .. n /\ log[i].client # k
      <4> DEFINE c == log[i].client
      <4>1. /\ start[i] \in Nat
            /\ \/ start[i] + Window <= tick
               \/ /\ c \in DOMAIN hits
                  /\ \/ start[i] = hits[c].start /\ nth[i] <= hits[c].count
                     \/ start[i] + Window <= hits[c].start
        BY <1>3, <1>4, <3>3 DEF Placed, Tabled
      <4>2. log'[i].client = c /\ c # k /\ from[i] = start[i] /\ which[i] = nth[i]
        BY <1>18, <1>19, <3>3
      <4> HIDE DEF c
      <4>3. CASE c \in kept
        BY <1>6, <1>13, <4>1, <4>2, <4>3
      <4>4. CASE c \notin kept
        <5>1. c \in DOMAIN hits =>
                /\ hits[c].start + Window <= tick
                /\ hits[c].start \in Nat
          BY <1>1, <1>6, <4>4
        <5> QED
          BY <1>1, <4>1, <4>2, <5>1
      <4> QED
        BY <4>3, <4>4
    <3> QED
      BY <1>12, <1>14, <3>1, <3>2, <3>3
  <2>2. \A c \in DOMAIN hits' : \A q \in 1 .. hits'[c].count :
          \E j \in DOMAIN log' :
            log'[j].client = c /\ from[j] = hits'[c].start /\ which[j] = q
    <3> TAKE c \in DOMAIN hits'
    <3> TAKE q \in 1 .. hits'[c].count
    <3>1. CASE c = k
      <4>1. q \in 1 .. count /\ hits'[c].start = first
        BY <1>13, <3>1
      <4>2. CASE q = count
        <5>1. n + 1 \in DOMAIN log'
          BY <1>4, <1>12
        <5> QED
          BY <1>18, <1>20, <3>1, <4>1, <4>2, <5>1
      <4>3. CASE q # count
        <5>1. q \in 1 .. count - 1
          BY <1>8, <4>1, <4>3
        <5>2. PICK j \in 1 .. n : log[j].client = k /\ start[j] = first /\ nth[j] = q
          BY <1>11, <5>1
        <5> QED
          BY <1>12, <1>15, <1>18, <1>19, <3>1, <4>1, <5>2
      <4> QED
        BY <4>2, <4>3
    <3>2. CASE c # k
      <4>1. c \in DOMAIN hits /\ hits'[c] = hits[c]
        BY <1>6, <1>13, <3>2
      <4>2. PICK j \in DOMAIN log :
              log[j].client = c /\ start[j] = hits[c].start /\ nth[j] = q
        <5>1. q \in 1 .. hits[c].count
          BY <4>1
        <5> QED
          BY <1>3, <4>1, <5>1 DEF Tabled
      <4> QED
        BY <1>4, <1>12, <1>15, <1>18, <1>19, <4>1, <4>2
    <3> QED
      BY <3>1, <3>2
  <2> QED
    BY <1>2, <2>1, <2>2 DEF Tabled
<1> QED
  BY <1>16, <1>17, <1>21, <1>22 DEF LimiterInv

LEMMA LimiterStepInv == LimiterInv /\ [LimiterNext]_limiterVars => LimiterInv'
<1> SUFFICES ASSUME LimiterInv, [LimiterNext]_limiterVars PROVE LimiterInv'
  OBVIOUS
<1>1. CASE UNCHANGED limiterVars
  <2>1. PICK start, nth : Placed(start, nth) /\ Tabled(start, nth)
    BY DEF LimiterInv
  <2>2. Placed(start, nth)' /\ Tabled(start, nth)' /\ LimiterTyped' /\ InTime'
    BY <1>1, <2>1 DEF limiterVars, LimiterInv, LimiterTyped, InTime, Placed, Tabled, SameClient
  <2> QED
    BY <2>2 DEF LimiterInv
<1> QED
  BY <1>1, TickKeeps, CheckKeeps DEF LimiterNext

(* No more than twice the limit pass in a stretch of a window's length:    *)
(* those of the window it begins in are told apart by where they came in   *)
(* it, those of the next one by that beyond the limit.                     *)
LEMMA AdmitsFew ==
  ASSUME LimiterInv, NEW k \in Client, NEW u \in Nat
  PROVE  Cardinality(Allowed(k, u, u + Window - 1)) <= 2 * Limit
<1> DEFINE S == Allowed(k, u, u + Window - 1)
           T == 1 .. 2 * Limit
<1>1. /\ LimiterTyped /\ Limit \in Nat \ {0} /\ Window \in Nat \ {0}
      /\ Len(log) \in Nat /\ DOMAIN log = 1 .. Len(log)
      /\ \A i \in DOMAIN log : log[i].at \in Nat
  BY LogFacts DEF LimiterInv, LimiterTyped
<1>2. PICK start, nth : Placed(start, nth)
  BY DEF LimiterInv
<1>3. \A i \in S :
        /\ i \in DOMAIN log /\ i \in Nat /\ log[i].client = k
        /\ start[i] \in Nat /\ nth[i] \in Nat \ {0}
        /\ nth[i] <= Limit /\ u <= log[i].at /\ log[i].at < u + Window
        /\ start[i] <= log[i].at /\ log[i].at < start[i] + Window
  BY <1>1, <1>2 DEF Allowed, Placed
<1> DEFINE g == [i \in S |-> IF start[i] <= u THEN nth[i] ELSE Limit + nth[i]]
<1>4. \A i, j \in S : i < j =>
        \/ start[i] = start[j] /\ nth[i] < nth[j]
        \/ start[i] + Window <= start[j]
  BY <1>2, <1>3 DEF Placed, SameClient
<1> HIDE DEF S
<1>5. g \in [S -> T]
  <2>1. \A i \in S : (IF start[i] <= u THEN nth[i] ELSE Limit + nth[i]) \in T
    BY <1>1, <1>3
  <2> HIDE DEF T
  <2> QED
    BY <2>1
<1>6. \A i, j \in S : i < j => g[i] # g[j]
  <2> SUFFICES ASSUME NEW i \in S, NEW j \in S, i < j PROVE g[i] # g[j]
    OBVIOUS
  <2>1. CASE start[i] = start[j] /\ nth[i] < nth[j]
    BY <1>1, <1>3, <2>1
  <2>2. CASE start[i] + Window <= start[j]
    <3>1. start[i] <= u /\ ~(start[j] <= u)
      BY <1>1, <1>3, <2>2
    <3> QED
      BY <1>1, <1>3, <3>1
  <2> QED
    BY <1>4, <2>1, <2>2
<1>7. g \in Injection(S, T)
  <2>1. \A i, j \in S : i = j \/ i < j \/ j < i
    BY <1>3
  <2>2. DOMAIN g = S
    OBVIOUS
  <2> HIDE DEF g, T
  <2>3. IsInjective(g)
    BY <1>6, <2>1, <2>2 DEF IsInjective
  <2> QED
    BY <1>5, <2>3 DEF Injection
<1>8. IsFiniteSet(T) /\ Cardinality(T) = 2 * Limit
  BY <1>1, FS_Interval
<1> HIDE DEF g, T
<1>9. Cardinality(S) <= Cardinality(T)
  BY <1>7, <1>8, FS_Injection
<1> QED
  BY <1>8, <1>9 DEF S

(* A refused request came after the first ones of its window, the limit's  *)
(* number of them.                                                         *)
LEMMA RefusesLate ==
  ASSUME LimiterInv, NEW i \in DOMAIN log, ~log[i].allowed
  PROVE  \E from \in 0 .. log[i].at :
           /\ log[i].at - from < Window
           /\ Cardinality({j \in Allowed(log[i].client, from, log[i].at) : j < i}) >= Limit
<1>1. /\ LimiterTyped /\ Limit \in Nat \ {0} /\ Window \in Nat \ {0}
      /\ Len(log) \in Nat /\ DOMAIN log = 1 .. Len(log)
      /\ \A j \in DOMAIN log : log[j].at \in Nat
  BY LogFacts DEF LimiterInv, LimiterTyped
<1>2. PICK start, nth : Placed(start, nth)
  BY DEF LimiterInv
<1> DEFINE from == start[i]
           T == {j \in Allowed(log[i].client, from, log[i].at) : j < i}
           S == 1 .. Limit
           g == [q \in S |-> CHOOSE j \in DOMAIN log :
                    j < i /\ SameClient(i, j) /\ start[j] = from /\ nth[j] = q]
<1>3. /\ from \in Nat /\ from <= log[i].at /\ log[i].at < from + Window
      /\ nth[i] \in Nat /\ ~(nth[i] <= Limit)
  BY <1>1, <1>2 DEF Placed
<1>4. \A q \in S : /\ g[q] \in DOMAIN log /\ g[q] < i /\ SameClient(i, g[q])
                   /\ start[g[q]] = from /\ nth[g[q]] = q
  <2> TAKE q \in S
  <2>1. q \in 1 .. nth[i] - 1
    BY <1>1, <1>3
  <2>2. \E j \in DOMAIN log : j < i /\ SameClient(i, j) /\ start[j] = from /\ nth[j] = q
    BY <1>2, <2>1 DEF Placed
  <2> QED
    BY <2>2
<1>5. DOMAIN g = S
  OBVIOUS
<1>6. \A q \in S : g[q] \in T
  <2> TAKE q \in S
  <2> DEFINE j == g[q]
  <2>1. j \in DOMAIN log /\ j < i /\ SameClient(i, j) /\ start[j] = from /\ nth[j] = q
    BY <1>4
  <2> HIDE DEF g, j, from
  <2>2. log[j].client = log[i].client /\ log[j].allowed
    BY <1>1, <1>2, <2>1 DEF Placed, SameClient
  <2>3. from <= log[j].at /\ log[j].at <= log[i].at /\ log[j].at \in Nat
    BY <1>1, <1>2, <2>1 DEF Placed, LimiterInv, InTime
  <2>4. j \in Allowed(log[i].client, from, log[i].at)
    BY <1>1, <1>3, <2>1, <2>2, <2>3 DEF Allowed
  <2> QED
    BY <2>1, <2>4 DEF j
<1>7. IsFiniteSet(T)
  <2> DEFINE last == Len(log)
             D == 1 .. last
  <2>1. IsFiniteSet(D)
    <3>1. last \in Int /\ 1 \in Int
      BY <1>1
    <3> HIDE DEF last
    <3> QED
      BY <3>1, FS_Interval
  <2>2. T \in SUBSET D
    BY <1>1 DEF Allowed
  <2> HIDE DEF D, T
  <2> QED
    BY <2>1, <2>2, FS_Subset
<1>8. Cardinality(S) = Limit
  BY <1>1, FS_Interval
<1>9. g \in Injection(S, T)
  <2>1. g = [q \in S |-> g[q]]
    OBVIOUS
  <2> HIDE DEF g, T, S
  <2>2. g \in [S -> T]
    BY <1>6, <2>1
  <2>3. IsInjective(g)
    BY <1>4, <1>5 DEF IsInjective
  <2> QED
    BY <2>2, <2>3 DEF Injection
<1> HIDE DEF g, S
<1>10. Cardinality(T) >= Limit
  <2> HIDE DEF T
  <2>1. Cardinality(S) <= Cardinality(T) /\ Cardinality(T) \in Nat
    BY <1>7, <1>9, FS_Injection, FS_CardinalityType
  <2> QED
    BY <1>1, <1>8, <2>1
<1>11. from \in 0 .. log[i].at /\ log[i].at - from < Window
  BY <1>1, <1>3
<1> QED
  BY <1>10, <1>11

(* The seconds a refusal names end just after its window: the next request *)
(* falls in the same one before they do, and first in another after.       *)
LEMMA RefusesAsLongAsTold ==
  ASSUME LimiterInv, NEW i \in DOMAIN log, NEW j \in DOMAIN log, i < j,
         SameClient(i, j), ~log[i].allowed,
         \A m \in i + 1 .. j - 1 : ~SameClient(i, m)
  PROVE  /\ log[j].at >= log[i].at + 2 * log[i].retry => log[j].allowed
         /\ log[j].at < log[i].at + 2 * (log[i].retry - 1) => ~log[j].allowed
<1>1. /\ LimiterTyped /\ Limit \in Nat \ {0} /\ Window \in Nat \ {0}
      /\ Len(log) \in Nat /\ DOMAIN log = 1 .. Len(log)
      /\ \A m \in DOMAIN log : log[m].at \in Nat
  BY LogFacts DEF LimiterInv, LimiterTyped
<1>2. PICK start, nth : Placed(start, nth)
  BY DEF LimiterInv
<1>3. \A m \in DOMAIN log :
        /\ start[m] \in Nat /\ nth[m] \in Nat \ {0}
        /\ start[m] <= log[m].at /\ log[m].at < start[m] + Window
        /\ log[m].allowed <=> nth[m] <= Limit
  BY <1>2 DEF Placed
<1>4. \/ start[i] = start[j] /\ nth[i] < nth[j]
      \/ start[i] + Window <= start[j]
  BY <1>2 DEF Placed
<1> DEFINE rest == start[i] + Window - log[i].at
<1>5. log[i].retry = rest \div 2 + 1
  BY <1>2 DEF Placed
<1>6. rest \in Nat /\ log[i].at + rest = start[i] + Window
  BY <1>1, <1>3
<1> HIDE DEF rest
<1> DEFINE half == rest \div 2
<1>7. 2 * half <= rest /\ rest < 2 * (half + 1) /\ half \in Nat
  BY <1>6
<1>8. /\ log[i].at + rest = start[i] + Window /\ rest \in Nat
      /\ 2 * half <= rest /\ rest < 2 * (half + 1) /\ half \in Nat
      /\ log[i].retry = half + 1
  BY <1>5, <1>6, <1>7
<1> HIDE DEF half
<1>9. ASSUME log[j].at >= log[i].at + 2 * log[i].retry PROVE log[j].allowed
  <2>1. ~(log[j].at < start[i] + Window)
    BY <1>1, <1>3, <1>8, <1>9
  <2>2. start[i] + Window <= start[j]
    BY <1>1, <1>3, <1>4, <2>1
  <2>3. nth[j] = 1
    <3> SUFFICES ASSUME nth[j] # 1 PROVE FALSE
      OBVIOUS
    <3>1. 1 \in 1 .. nth[j] - 1
      BY <1>3
    <3>2. PICK m \in DOMAIN log : m < j /\ SameClient(j, m) /\ start[m] = start[j]
      BY <1>2, <3>1 DEF Placed
    <3>3. m \notin i + 1 .. j - 1
      BY <3>2 DEF SameClient
    <3>4. m <= i
      BY <1>1, <3>2, <3>3
    <3>5. log[m].at <= log[i].at
      BY <1>1, <3>4 DEF LimiterInv, InTime
    <3> QED
      BY <1>1, <1>3, <2>2, <3>2, <3>5
  <2> QED
    BY <1>1, <1>3, <2>3
<1>10. ASSUME log[j].at < log[i].at + 2 * (log[i].retry - 1) PROVE ~log[j].allowed
  <2>1. log[j].at < start[i] + Window
    BY <1>1, <1>3, <1>8, <1>10
  <2>2. nth[i] < nth[j]
    BY <1>1, <1>3, <1>4, <2>1
  <2> QED
    BY <1>1, <1>3, <2>2
<1> QED
  BY <1>9, <1>10

(* Whatever the limit, the window, the clients and the size at which the   *)
(* table is swept: no stretch of a window's length passes more than twice  *)
(* the limit, none is refused before the limit has passed, and the wait a  *)
(* refusal names is the one to wait (ratelimit.py:31-50).                  *)
THEOREM LimiterAdmits == LimiterSpec => []AdmitsByTheWindow
<1>1. LimiterInv => AdmitsByTheWindow
  <2> SUFFICES ASSUME LimiterInv PROVE AdmitsByTheWindow
    OBVIOUS
  <2>1. \A k \in Client, u \in 0 .. tick :
          Cardinality(Allowed(k, u, u + Window - 1)) <= 2 * Limit
    BY AdmitsFew
  <2> QED
    BY <2>1, RefusesLate, RefusesAsLongAsTold DEF AdmitsByTheWindow, SameClient
<1> QED
  BY <1>1, LimiterInitInv, LimiterStepInv, PTL DEF LimiterSpec

-----------------------------------------------------------------------------
(***************************************************************************)
(* The monitor of a payment method: what it keeps is the end of what it    *)
(* was told, so the status is about a whole window of the latest outcomes. *)
(***************************************************************************)

LengthKept(n) == IF n < WindowSize THEN n ELSE WindowSize

NetworkInv ==
  /\ outcomes \in Seq(BOOLEAN)
  /\ methodEvents = Latest(outcomes, LengthKept(Len(outcomes)))

LEMMA LatestFacts ==
  ASSUME NEW S, NEW s \in Seq(S), NEW n \in 0 .. Len(s)
  PROVE  /\ Latest(s, n) \in Seq(S) /\ Len(Latest(s, n)) = n
         /\ \A i \in 1 .. n : Latest(s, n)[i] = s[Len(s) - n + i]
<1> DEFINE last == Len(s)
           from == last - n + 1
           end == SubSeq(s, from, last)
<1>1. last \in Nat /\ n \in Nat /\ n <= last /\ from \in Int /\ last \in Int
  BY LenProperties
<1>2. \A i \in from .. last : s[i] \in S
  <2> TAKE i \in from .. last
  <2>1. i \in 1 .. last
    BY <1>1
  <2> QED
    BY <2>1, ElementOfSeq
<1>3. (IF from <= last THEN last - from + 1 ELSE 0) = n /\ last - from + 1 = n
  BY <1>1
<1>4. \A i \in 1 .. n : from + i - 1 = last - n + i
  BY <1>1
<1>5. end = Latest(s, n)
  BY DEF Latest
<1> HIDE DEF from, last
<1>6. /\ end \in Seq(S) /\ Len(end) = IF from <= last THEN last - from + 1 ELSE 0
      /\ \A i \in 1 .. last - from + 1 : end[i] = s[from + i - 1]
  BY <1>1, <1>2, SubSeqProperties
<1> HIDE DEF end
<1>7. end \in Seq(S) /\ Len(end) = n /\ \A i \in 1 .. n : end[i] = s[last - n + i]
  BY <1>3, <1>4, <1>6
<1> QED
  BY <1>5, <1>7 DEF last

(* The latest few of the latest are the latest few.                        *)
LEMMA LatestOfLatest ==
  ASSUME NEW S, NEW s \in Seq(S), NEW m \in 0 .. Len(s), NEW n \in 0 .. m
  PROVE  Latest(Latest(s, m), n) = Latest(s, n)
<1> DEFINE last == Len(s)
           t == Latest(s, m)
           u == Latest(t, n)
           v == Latest(s, n)
<1>1. last \in Nat /\ m \in Nat /\ n \in Nat /\ n \in 0 .. last
  BY LenProperties
<1>2. t \in Seq(S) /\ Len(t) = m /\ \A i \in 1 .. m : t[i] = s[last - m + i]
  BY LatestFacts
<1>3. v \in Seq(S) /\ Len(v) = n /\ \A i \in 1 .. n : v[i] = s[last - n + i]
  BY <1>1, LatestFacts
<1> HIDE DEF t, v
<1>4. u \in Seq(S) /\ Len(u) = n /\ \A i \in 1 .. n : u[i] = t[m - n + i]
  BY <1>1, <1>2, LatestFacts
<1> HIDE DEF u, last
<1>5. \A i \in 1 .. n : u[i] = v[i]
  <2> TAKE i \in 1 .. n
  <2>1. m - n + i \in 1 .. m /\ last - m + (m - n + i) = last - n + i
    BY <1>1
  <2> QED
    BY <1>2, <1>3, <1>4, <2>1
<1>6. u = v
  BY <1>3, <1>4, <1>5, SeqEqual
<1> QED
  BY <1>6 DEF u, v, t

LEMMA SuccessesFacts ==
  ASSUME NEW s \in Seq(BOOLEAN)
  PROVE  Successes(s) \in Nat /\ Successes(s) <= Len(s)
<1> DEFINE last == Len(s)
           good == {i \in DOMAIN s : s[i]}
<1>1. last \in Nat /\ DOMAIN s = 1 .. last
  BY LenProperties
<1>2. good \in SUBSET (1 .. last)
  BY <1>1
<1> HIDE DEF good, last
<1>3. IsFiniteSet(1 .. last) /\ Cardinality(1 .. last) = last
  <2>1. 1 \in Int /\ last \in Int /\ (IF 1 > last THEN 0 ELSE last - 1 + 1) = last
    BY <1>1
  <2> QED
    BY <2>1, FS_Interval
<1>4. IsFiniteSet(good) /\ Cardinality(good) <= last /\ Cardinality(good) \in Nat
  BY <1>2, <1>3, FS_Subset, FS_CardinalityType
<1> QED
  BY <1>4 DEF Successes, good, last

LEMMA NetworkStep == NetworkInv /\ [NetworkNext]_networkVars => NetworkInv'
<1> SUFFICES ASSUME NetworkInv, [NetworkNext]_networkVars PROVE NetworkInv'
  OBVIOUS
<1>1. CASE UNCHANGED networkVars
  BY <1>1 DEF networkVars, NetworkInv
<1>2. ASSUME NEW success \in BOOLEAN, RecordEvent(success) PROVE NetworkInv'
  <2> DEFINE s == outcomes
             n == Len(s)
             k == LengthKept(n)
             more == Append(s, success)
             w == Append(Latest(s, k), success)
             next == LengthKept(n + 1)
             v == Latest(more, next)
  <2>1. /\ s \in Seq(BOOLEAN) /\ n \in Nat /\ WindowSize \in Nat /\ WindowSize # 0
        /\ methodEvents' = Windowed(w) /\ outcomes' = more
    BY <1>2, LenProperties, NetworkAssumption DEF NetworkInv, RecordEvent
  <2>2. /\ k \in 0 .. n /\ k \in Nat /\ next \in 0 .. n + 1 /\ next \in Nat
        /\ k + 1 > WindowSize => next = k /\ k > 0
        /\ ~(k + 1 > WindowSize) => next = k + 1
    BY <2>1 DEF LengthKept
  <2> HIDE DEF k, next
  <2>3. /\ more \in Seq(BOOLEAN) /\ Len(more) = n + 1
        /\ more[n + 1] = success /\ \A i \in 1 .. n : more[i] = s[i]
    BY <2>1, AppendProperties
  <2>4. /\ w \in Seq(BOOLEAN) /\ Len(w) = k + 1
        /\ w[k + 1] = success /\ \A i \in 1 .. k : w[i] = s[n - k + i]
    <3> DEFINE t == Latest(s, k)
    <3>1. t \in Seq(BOOLEAN) /\ Len(t) = k /\ \A i \in 1 .. k : t[i] = s[n - k + i]
      BY <2>1, <2>2, LatestFacts
    <3> HIDE DEF t
    <3>2. /\ Append(t, success) \in Seq(BOOLEAN) /\ Len(Append(t, success)) = k + 1
          /\ Append(t, success)[k + 1] = success
          /\ \A i \in 1 .. k : Append(t, success)[i] = t[i]
      BY <3>1, AppendProperties
    <3> QED
      BY <3>1, <3>2 DEF t
  <2> HIDE DEF more, w
  <2>5. v \in Seq(BOOLEAN) /\ Len(v) = next /\ \A i \in 1 .. next : v[i] = more[n + 1 - next + i]
    <3>1. more \in Seq(BOOLEAN) /\ next \in 0 .. Len(more)
      BY <2>2, <2>3
    <3>2. /\ Latest(more, next) \in Seq(BOOLEAN) /\ Len(Latest(more, next)) = next
          /\ \A i \in 1 .. next : Latest(more, next)[i] = more[Len(more) - next + i]
      BY <3>1, LatestFacts
    <3> QED
      BY <2>3, <3>2
  <2> HIDE DEF v
  <2>6. \A i \in 1 .. k + 1 : w[i] = more[n - k + i]
    <3> TAKE i \in 1 .. k + 1
    <3>1. CASE i = k + 1
      <4>1. n - k + i = n + 1
        BY <2>1, <2>2, <3>1
      <4> QED
        BY <2>3, <2>4, <3>1, <4>1
    <3>2. CASE i # k + 1
      <4>1. i \in 1 .. k /\ n - k + i \in 1 .. n
        BY <2>1, <2>2, <3>2
      <4> QED
        BY <2>3, <2>4, <4>1
    <3> QED
      BY <3>1, <3>2
  <2>7. CASE k + 1 > WindowSize
    <3> DEFINE t == Tail(w)
    <3>1. Windowed(w) = t /\ next = k /\ k > 0 /\ w # <<>>
      BY <2>2, <2>4, <2>7 DEF Windowed
    <3>2. t \in Seq(BOOLEAN) /\ Len(t) = k /\ \A i \in 1 .. k : t[i] = w[i + 1]
      <4>1. t \in Seq(BOOLEAN) /\ Len(t) = Len(w) - 1 /\ \A i \in 1 .. Len(t) : t[i] = w[i + 1]
        BY <2>4, <3>1, HeadTailProperties
      <4> QED
        BY <2>2, <2>4, <4>1
    <3> HIDE DEF t
    <3>3. \A i \in 1 .. k : t[i] = v[i]
      <4> TAKE i \in 1 .. k
      <4>1. i + 1 \in 1 .. k + 1 /\ n - k + (i + 1) = n + 1 - next + i /\ i \in 1 .. next
        BY <2>1, <2>2, <3>1
      <4> QED
        BY <2>5, <2>6, <3>2, <4>1
    <3>4. t = v
      BY <2>5, <3>1, <3>2, <3>3, SeqEqual
    <3> QED
      BY <2>1, <2>3, <3>1, <3>4 DEF NetworkInv, v, next
  <2>8. CASE ~(k + 1 > WindowSize)
    <3>1. Windowed(w) = w /\ next = k + 1
      BY <2>2, <2>4, <2>8 DEF Windowed
    <3>2. \A i \in 1 .. k + 1 : w[i] = v[i]
      <4> TAKE i \in 1 .. k + 1
      <4>1. n - k + i = n + 1 - next + i /\ i \in 1 .. next
        BY <2>1, <2>2, <3>1
      <4> QED
        BY <2>5, <2>6, <4>1
    <3>3. w = v
      BY <2>4, <2>5, <3>1, <3>2, SeqEqual
    <3> QED
      BY <2>1, <2>3, <3>1, <3>3 DEF NetworkInv, v, next
  <2> QED
    BY <2>7, <2>8
<1> QED
  BY <1>1, <1>2 DEF NetworkNext

(* For any window and any number of latest outcomes it is judged by: an    *)
(* outage is reported from the first window's worth of failures until it   *)
(* fills the window, and a recovery at once (network_health.py:52-67).     *)
THEOREM NetworkSeesOutage == NetworkSpec => []OutageSeenWhileItBegins
<1>1. NetworkInit => NetworkInv
  <2> SUFFICES ASSUME NetworkInit PROVE NetworkInv
    OBVIOUS
  <2> DEFINE none == <<>>
             v == Latest(none, 0)
  <2>1. none \in Seq(BOOLEAN) /\ Len(none) = 0 /\ methodEvents = none /\ outcomes = none
    BY DEF NetworkInit
  <2>2. LengthKept(Len(outcomes)) = 0
    BY <2>1, NetworkAssumption DEF LengthKept
  <2> HIDE DEF none
  <2>3. v \in Seq(BOOLEAN) /\ Len(v) = 0 /\ 0 \in 0 .. Len(none)
    <3>1. 0 \in 0 .. Len(none)
      BY <2>1
    <3> QED
      BY <2>1, <3>1, LatestFacts
  <2> HIDE DEF v
  <2>4. v = none
    <3>1. \A i \in 1 .. Len(v) : v[i] = none[i]
      BY <2>3
    <3> QED
      BY <2>1, <2>3, <3>1, SeqEqual
  <2> QED
    BY <2>1, <2>2, <2>4 DEF NetworkInv, v
<1>2. NetworkInv => OutageSeenWhileItBegins
  <2> SUFFICES ASSUME NetworkInv, Len(outcomes) >= Recent
              PROVE  LET past == Latest(outcomes, LengthKept(Len(outcomes)))
                     IN  /\ Successes(Latest(outcomes, Recent)) = 0 =>
                              Status = IF Successes(past) = 0 THEN "HEALTHY" ELSE "CRITICAL"
                         /\ Successes(Latest(outcomes, Recent)) = Recent => Status = "HEALTHY"
    BY DEF OutageSeenWhileItBegins, LengthKept
  <2> DEFINE n == Len(outcomes)
             k == LengthKept(n)
             good == Successes(methodEvents)
             new == Successes(Latest(outcomes, Recent))
  <2>1. /\ outcomes \in Seq(BOOLEAN) /\ n \in Nat /\ Recent \in Nat \ {0} /\ WindowSize \in Nat
        /\ Recent <= WindowSize /\ methodEvents = Latest(outcomes, k)
    BY LenProperties, NetworkAssumption DEF NetworkInv
  <2>2. k \in 0 .. n /\ k \in Nat /\ Recent <= k /\ Recent \in 0 .. n /\ Recent \in 0 .. k
    BY <2>1 DEF LengthKept
  <2> HIDE DEF k
  <2>3. methodEvents \in Seq(BOOLEAN) /\ Len(methodEvents) = k
    BY <2>1, <2>2, LatestFacts
  <2>4. Latest(methodEvents, Recent) = Latest(outcomes, Recent)
    BY <2>1, <2>2, LatestOfLatest
  <2>5. good \in Nat /\ good <= k
    BY <2>3, SuccessesFacts
  <2>6. new \in Nat
    BY <2>1, <2>2, LatestFacts, SuccessesFacts
  <2>7. \A percent : Dropped(percent) <=>
          good * Recent > 0 /\ 100 * (good * Recent) >= 100 * (new * k) + percent * (good * Recent)
    BY <2>3, <2>4 DEF Dropped
  <2>8. Status = IF Dropped(15) THEN "CRITICAL" ELSE IF Dropped(7) THEN "MODERATE" ELSE "HEALTHY"
    BY <2>1, <2>2, <2>3 DEF Status
  <2> DEFINE a == good * Recent
             b == new * k
  <2>9. a \in Nat /\ b \in Nat
    BY <2>1, <2>2, <2>5, <2>6
  <2>10. good > 0 => a > 0
    BY <2>1, <2>5
  <2>11. good = 0 => a = 0
    BY <2>1
  <2>12. new = 0 => b = 0
    BY <2>2
  <2>13. new = Recent => a <= b
    <3> SUFFICES ASSUME new = Recent PROVE good * Recent <= Recent * k
      OBVIOUS
    <3>1. \A x, y, z \in Nat : x <= y => x * z <= z * y
      OBVIOUS
    <3> QED
      BY <2>1, <2>2, <2>5, <3>1
  <2>14. \A percent : Dropped(percent) <=> a > 0 /\ 100 * a >= 100 * b + percent * a
    BY <2>7
  <2> HIDE DEF a, b, good, new
  <2>15. ASSUME new = 0 PROVE Status = IF good = 0 THEN "HEALTHY" ELSE "CRITICAL"
    <3>1. good # 0 => Dropped(15)
      BY <2>5, <2>9, <2>10, <2>12, <2>14, <2>15
    <3>2. good = 0 => ~Dropped(15) /\ ~Dropped(7)
      BY <2>9, <2>11, <2>14
    <3> QED
      BY <2>8, <3>1, <3>2
  <2>16. ASSUME new = Recent PROVE Status = "HEALTHY"
    <3>1. ~Dropped(15) /\ ~Dropped(7)
      BY <2>9, <2>13, <2>14, <2>16
    <3> QED
      BY <2>8, <3>1
  <2> QED
    BY <2>1, <2>15, <2>16 DEF good, new, k
<1> QED
  BY <1>1, <1>2, NetworkStep, PTL DEF NetworkSpec
=============================================================================
