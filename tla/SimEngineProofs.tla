--------------------------- MODULE SimEngineProofs ---------------------------
(***************************************************************************)
(* Theorems about the replay, for any batch of payments, any groups, any   *)
(* horizon and any policy numbers.                                         *)
(***************************************************************************)
EXTENDS SimEngine, GateProofs, SequenceTheorems

(***************************************************************************)
(* The invariant, in parts, each a relation between the things a step      *)
(* changes: the heap h, the instant t, the actions table, the rows and     *)
(* the pledges.                                                            *)
(***************************************************************************)
Kind == {"case_ingest", "organic", "action_due", "promise_paid", "sweep"}
EventRow == [at : Nat, kind : Kind, subject : Case \cup Nat]
ActionRow ==
  [case : Case, type : ActionType, visits : Nat,
   status : {"scheduled", "superseded", "executed", "blocked", "deferred"}]

Typed(h, t, table, rows, pl) ==
  /\ h \in Seq(EventRow) /\ t \in Nat /\ table \in Seq(ActionRow)
  /\ rows \in [Case -> CaseFields] /\ pl \in [Case -> SUBSET Pledges]

(* An event is about an action of the table, or about a case.              *)
Subjects(h, table) ==
  \A i \in DOMAIN h :
    /\ h[i].kind = "action_due" => h[i].subject \in DOMAIN table
    /\ h[i].kind \in {"case_ingest", "organic", "promise_paid"} => h[i].subject \in Case

(* The heap is in order, and nothing in it is past.                        *)
InOrder(h) == \A i, j \in DOMAIN h : i < j => h[i].at <= h[j].at
Ahead(h, t) == \A i \in DOMAIN h : t <= h[i].at

(* A payment comes once, before anything is known of its case.             *)
ComesOnce(h, rows) ==
  /\ \A i \in DOMAIN h :
       h[i].kind = "case_ingest" => rows[h[i].subject].status = "absent"
  /\ \A i, j \in DOMAIN h :
       /\ h[i].kind = "case_ingest" /\ h[j].kind = "case_ingest"
       /\ h[i].subject = h[j].subject
       => i = j
NoneComes(h, c) == \A i \in DOMAIN h : h[i].kind = "case_ingest" => h[i].subject # c
Known(table, rows) == \A a \in DOMAIN table : rows[table[a].case].status # "absent"
Blank(rows) == \A c \in Case : rows[c].status = "absent" => rows[c] = Document(c, "absent", 0)

(* Attempts were made, at an instant that has been.                        *)
Past(t, rows) == \A c \in Case : \A u \in rows[c].attempts : u <= t

(* The action a case awaits: one at most, scheduled while the case is      *)
(* active.                                                                 *)
Awaits(e, table, c) == e.kind = "action_due" /\ table[e.subject].case = c
NoneWaits(h, table, c) == \A i \in DOMAIN h : ~Awaits(h[i], table, c)
OneWaits(h, table) ==
  \A c \in Case : \A i, j \in DOMAIN h :
    Awaits(h[i], table, c) /\ Awaits(h[j], table, c) => i = j
WaitsScheduled(h, table, rows) ==
  \A c \in Case : \A i \in DOMAIN h :
    Awaits(h[i], table, c) /\ rows[c].status \in Active
      => table[h[i].subject].status = "scheduled"

(* The check of a promise that will be kept has the payment before it.     *)
PaysBefore(h, c, t) ==
  \E j \in DOMAIN h : h[j].kind = "promise_paid" /\ h[j].subject = c /\ h[j].at < t
Keeps(pl, c) == \E p \in pl[c] : p.keeps
KeepersPay(h, table, rows, pl) ==
  \A c \in Case : \A i \in DOMAIN h :
    /\ Awaits(h[i], table, c) /\ table[h[i].subject].type = "check_promise"
    /\ rows[c].status \in Active /\ Keeps(pl, c)
    => PaysBefore(h, c, h[i].at)

Kernel(h, t, table, rows, pl) ==
  /\ Typed(h, t, table, rows, pl) /\ Subjects(h, table)
  /\ InOrder(h) /\ Ahead(h, t)
  /\ ComesOnce(h, rows) /\ Known(table, rows) /\ Blank(rows) /\ Past(t, rows)
  /\ OneWaits(h, table) /\ WaitsScheduled(h, table, rows)
  /\ KeepersPay(h, table, rows, pl)

(* While the world's answer is due the case is active and awaits nothing;  *)
(* only open cases are looked at.                                          *)
Answering ==
  sent # 0 =>
    /\ sent \in DOMAIN acts /\ review = {} /\ stage = "replay"
    /\ row[acts[sent].case].status \in Active
    /\ NoneWaits(heap, acts, acts[sent].case)

EngineInv ==
  /\ Kernel(heap, now, acts, row, pledge)
  /\ sent \in Nat /\ stage \in {"replay", "finalize"}
  /\ Answering /\ review \subseteq OpenCases

-----------------------------------------------------------------------------
(* The heap                                                                *)

(* A push keeps what waits and its order, and puts the new event behind    *)
(* what is due no later and before the rest.                               *)
Inserted(g, h, e, p) ==
  /\ Len(g) = Len(h) + 1 /\ DOMAIN g = 1 .. Len(h) + 1
  /\ p \in DOMAIN g /\ g[p] = e
  /\ \A i \in DOMAIN h :
       /\ i < p => g[i] = h[i] /\ h[i].at <= e.at
       /\ i >= p => g[i + 1] = h[i] /\ h[i].at > e.at
  /\ \A i \in DOMAIN g :
       /\ i < p => i \in DOMAIN h /\ g[i] = h[i]
       /\ i > p => i - 1 \in DOMAIN h /\ g[i] = h[i - 1]

LEMMA InsertAtFacts ==
  ASSUME NEW S, NEW h \in Seq(S), NEW e \in S, NEW p \in 1 .. Len(h) + 1
  PROVE  /\ InsertAt(h, p, e) \in Seq(S)
         /\ Len(InsertAt(h, p, e)) = Len(h) + 1
         /\ \A i \in 1 .. Len(h) + 1 :
              InsertAt(h, p, e)[i] = IF i < p THEN h[i] ELSE IF i = p THEN e ELSE h[i - 1]
<1> DEFINE front == SubSeq(h, 1, p - 1)
           back == SubSeq(h, p, Len(h))
<1>0. Len(h) \in Nat /\ \A i \in 1 .. Len(h) : h[i] \in S
  BY LenProperties, ElementOfSeq
<1>1. /\ front \in Seq(S) /\ Len(front) = p - 1
      /\ \A i \in 1 .. p - 1 : front[i] = h[i]
  <2>1. \A i \in 1 .. p - 1 : h[i] \in S
    BY <1>0
  <2>2. 1 \in Int /\ p - 1 \in Int
    BY <1>0
  <2> QED
    BY <2>1, <2>2, SubSeqProperties
<1>2. /\ back \in Seq(S) /\ Len(back) = Len(h) - p + 1
      /\ \A i \in 1 .. Len(h) - p + 1 : back[i] = h[p + i - 1]
  <2>1. \A i \in p .. Len(h) : h[i] \in S
    BY <1>0
  <2>2. p \in Int /\ Len(h) \in Int
    BY <1>0
  <2> QED
    BY <2>1, <2>2, SubSeqProperties
<1>3. <<e>> \in Seq(S) /\ Len(<<e>>) = 1 /\ <<e>>[1] = e
  OBVIOUS
<1> HIDE DEF front, back
<1>4. /\ front \o <<e>> \in Seq(S) /\ Len(front \o <<e>>) = p
      /\ \A i \in 1 .. p : (front \o <<e>>)[i] = IF i < p THEN h[i] ELSE e
  BY <1>0, <1>1, <1>3, ConcatProperties
<1> DEFINE most == front \o <<e>>
<1> HIDE DEF most
<1>5. /\ most \o back \in Seq(S) /\ Len(most \o back) = Len(h) + 1
      /\ \A i \in 1 .. Len(h) + 1 :
           (most \o back)[i] = IF i <= p THEN most[i] ELSE back[i - p]
  BY <1>0, <1>2, <1>4, ConcatProperties DEF most
<1>6. InsertAt(h, p, e) = most \o back
  BY DEF InsertAt, most, front, back
<1>7. \A i \in 1 .. Len(h) + 1 :
        InsertAt(h, p, e)[i] = IF i < p THEN h[i] ELSE IF i = p THEN e ELSE h[i - 1]
  <2> TAKE i \in 1 .. Len(h) + 1
  <2>1. CASE i <= p
    BY <1>0, <1>4, <1>5, <1>6, <2>1 DEF most
  <2>2. CASE i > p
    <3>1. i - p \in 1 .. Len(h) - p + 1
      BY <1>0, <2>2
    <3>2. back[i - p] = h[i - 1]
      BY <1>0, <1>2, <3>1
    <3> QED
      BY <1>0, <1>5, <1>6, <2>2, <3>2
  <2> QED
    BY <1>0, <2>1, <2>2
<1> QED
  BY <1>5, <1>6, <1>7

LEMMA EventFacts ==
  ASSUME NEW h \in Seq(EventRow)
  PROVE  /\ Len(h) \in Nat /\ DOMAIN h = 1 .. Len(h)
         /\ \A i \in 1 .. Len(h) :
              h[i] \in EventRow /\ h[i].at \in Nat /\ h[i].kind \in Kind
<1>1. Len(h) \in Nat /\ DOMAIN h = 1 .. Len(h) /\ h \in [1 .. Len(h) -> EventRow]
  BY LenProperties
<1>2. \A e \in EventRow : e.at \in Nat /\ e.kind \in Kind
  BY DEF EventRow
<1> QED
  BY <1>1, <1>2

LEMMA PushInserts ==
  ASSUME NEW h \in Seq(EventRow), NEW e \in EventRow, InOrder(h)
  PROVE  Push(h, e) \in Seq(EventRow) /\ \E p : Inserted(Push(h, e), h, e, p)
<1> DEFINE places == Later(h, e) \cup {Len(h) + 1}
           p == Min(places)
<1>0. /\ Len(h) \in Nat /\ DOMAIN h = 1 .. Len(h)
      /\ \A i \in 1 .. Len(h) : h[i] \in EventRow /\ h[i].at \in Nat
      /\ e.at \in Nat
  <2>1. e.at \in Nat
    BY DEF EventRow
  <2> QED
    BY <2>1, EventFacts
<1>1. places \subseteq 1 .. Len(h) + 1 /\ places # {}
  BY <1>0 DEF Later
<1>2. PICK m \in places : \A n \in places : m <= n
  <2>1. places \subseteq Nat
    BY <1>0, <1>1
  <2> HIDE DEF places
  <2> QED
    BY <1>1, <2>1, LeastNatural
<1>3. p \in places /\ \A n \in places : p <= n
  BY <1>2 DEF Min
<1> HIDE DEF p
<1>4. p \in 1 .. Len(h) + 1
  BY <1>1, <1>3
<1>5. Push(h, e) = InsertAt(h, p, e)
  BY DEF Push, p
<1>6. \A i \in DOMAIN h : (i < p => h[i].at <= e.at) /\ (i >= p => h[i].at > e.at)
  <2> TAKE i \in DOMAIN h
  <2>1. i < p => h[i].at <= e.at
    BY <1>0, <1>3, <1>4 DEF Later
  <2>2. ASSUME i >= p PROVE h[i].at > e.at
    <3>1. p \in Later(h, e)
      BY <1>0, <1>3, <2>2
    <3>2. h[p].at > e.at /\ h[p].at <= h[i].at
      BY <1>0, <1>4, <2>2, <3>1 DEF Later, InOrder
    <3> QED
      BY <1>0, <1>4, <2>2, <3>2
  <2> QED
    BY <2>1, <2>2
<1> HIDE DEF places
<1> DEFINE g == Push(h, e)
<1>7. /\ g \in Seq(EventRow) /\ Len(g) = Len(h) + 1
      /\ \A i \in 1 .. Len(h) + 1 :
           g[i] = IF i < p THEN h[i] ELSE IF i = p THEN e ELSE h[i - 1]
  <2> HIDE DEF EventRow
  <2>1. InsertAt(h, p, e) \in Seq(EventRow)
    BY <1>4, InsertAtFacts
  <2>2. /\ Len(InsertAt(h, p, e)) = Len(h) + 1
        /\ \A i \in 1 .. Len(h) + 1 :
             InsertAt(h, p, e)[i] = IF i < p THEN h[i] ELSE IF i = p THEN e ELSE h[i - 1]
    BY <1>4, InsertAtFacts
  <2> QED
    BY <1>5, <2>1, <2>2
<1> HIDE DEF g
<1>8. DOMAIN g = 1 .. Len(h) + 1
  BY <1>7, LenProperties
<1>9. Inserted(g, h, e, p)
  <2>1. p \in DOMAIN g /\ g[p] = e
    BY <1>0, <1>4, <1>7, <1>8
  <2>2. \A i \in DOMAIN h :
       /\ i < p => g[i] = h[i] /\ h[i].at <= e.at
       /\ i >= p => g[i + 1] = h[i] /\ h[i].at > e.at
    BY <1>0, <1>4, <1>6, <1>7
  <2>3. \A i \in DOMAIN g :
       /\ i < p => i \in DOMAIN h /\ g[i] = h[i]
       /\ i > p => i - 1 \in DOMAIN h /\ g[i] = h[i - 1]
    BY <1>0, <1>4, <1>7, <1>8
  <2> QED
    BY <1>7, <1>8, <2>1, <2>2, <2>3 DEF Inserted
<1> QED
  BY <1>7, <1>9 DEF g

(* What the invariants need of a push: each event of the new heap is the   *)
(* new one or one of the old, at places of their own, and none is lost.    *)
LEMMA PushFacts ==
  ASSUME NEW h \in Seq(EventRow), NEW e \in EventRow, InOrder(h)
  PROVE  /\ Push(h, e) \in Seq(EventRow) /\ InOrder(Push(h, e))
         /\ \E p \in DOMAIN Push(h, e), old \in [DOMAIN Push(h, e) -> Int] :
              /\ Push(h, e)[p] = e
              /\ \A i \in DOMAIN Push(h, e) : i # p =>
                   old[i] \in DOMAIN h /\ Push(h, e)[i] = h[old[i]]
              /\ \A i, j \in DOMAIN Push(h, e) :
                   i # p /\ j # p /\ old[i] = old[j] => i = j
         /\ \A j \in DOMAIN h : \E i \in DOMAIN Push(h, e) : Push(h, e)[i] = h[j]
<1> DEFINE g == Push(h, e)
<1>1. g \in Seq(EventRow)
  BY PushInserts
<1>2. PICK p : Inserted(g, h, e, p)
  BY PushInserts
<1> HIDE DEF g
<1>3. /\ DOMAIN h = 1 .. Len(h) /\ Len(h) \in Nat
      /\ \A i \in 1 .. Len(h) : h[i].at \in Nat
      /\ e.at \in Nat
  <2>1. e.at \in Nat
    BY DEF EventRow
  <2> QED
    BY <2>1, EventFacts
<1>4. InOrder(g)
  <2> SUFFICES ASSUME NEW i \in DOMAIN g, NEW j \in DOMAIN g, i < j
              PROVE  g[i].at <= g[j].at
    BY DEF InOrder
  <2>1. CASE j < p
    BY <1>2, <1>3, <2>1 DEF Inserted, InOrder
  <2>2. CASE j = p
    BY <1>2, <1>3, <2>2 DEF Inserted, InOrder
  <2>3. CASE i = p
    <3>1. j - 1 \in DOMAIN h /\ g[j] = h[j - 1] /\ j - 1 >= p
      BY <1>2, <1>3, <2>3 DEF Inserted
    <3> QED
      BY <1>2, <1>3, <2>3, <3>1 DEF Inserted
  <2>4. CASE i < p /\ j > p
    <3>1. j - 1 \in DOMAIN h /\ g[j] = h[j - 1] /\ j - 1 >= p /\ i \in DOMAIN h /\ g[i] = h[i]
      BY <1>2, <1>3, <2>4 DEF Inserted
    <3>2. h[i].at <= e.at /\ h[j - 1].at > e.at
      BY <1>2, <2>4, <3>1 DEF Inserted
    <3> QED
      BY <1>3, <3>1, <3>2
  <2>5. CASE i > p
    <3>1. /\ i - 1 \in DOMAIN h /\ j - 1 \in DOMAIN h /\ i - 1 < j - 1
          /\ g[i] = h[i - 1] /\ g[j] = h[j - 1]
      BY <1>2, <1>3, <2>5 DEF Inserted
    <3> QED
      BY <3>1 DEF InOrder
  <2> QED
    BY <1>2, <1>3, <2>1, <2>2, <2>3, <2>4, <2>5 DEF Inserted
<1> DEFINE old == [i \in DOMAIN g |-> IF i < p THEN i ELSE i - 1]
<1>5. /\ p \in DOMAIN g /\ old \in [DOMAIN g -> Int] /\ g[p] = e
      /\ \A i \in DOMAIN g : i # p => old[i] \in DOMAIN h /\ g[i] = h[old[i]]
      /\ \A i, j \in DOMAIN g : i # p /\ j # p /\ old[i] = old[j] => i = j
  BY <1>2, <1>3 DEF Inserted
<1>6. \A j \in DOMAIN h : \E i \in DOMAIN g : g[i] = h[j]
  <2> TAKE j \in DOMAIN h
  <2>1. CASE j < p
    BY <1>2, <1>3, <2>1 DEF Inserted
  <2>2. CASE j >= p
    <3>1. j + 1 \in DOMAIN g /\ g[j + 1] = h[j]
      BY <1>2, <1>3, <2>2 DEF Inserted
    <3> QED
      BY <3>1
  <2> QED
    BY <1>2, <1>3, <2>1, <2>2 DEF Inserted
<1> QED
  BY <1>1, <1>4, <1>5, <1>6 DEF g

LEMMA TailFacts ==
  ASSUME NEW h \in Seq(EventRow), h # <<>>
  PROVE  /\ 1 \in DOMAIN h /\ Head(h) = h[1] /\ Head(h) \in EventRow
         /\ Tail(h) \in Seq(EventRow)
         /\ \A i \in DOMAIN Tail(h) :
              i \in Nat /\ i + 1 \in DOMAIN h /\ i + 1 # 1 /\ Tail(h)[i] = h[i + 1]
         /\ \A j \in DOMAIN h : j # 1 => \E i \in DOMAIN Tail(h) : Tail(h)[i] = h[j]
<1>1. Len(h) \in Nat /\ DOMAIN h = 1 .. Len(h)
  BY EventFacts
<1>2. Len(h) > 0
  BY <1>1, EmptySeq
<1>3. /\ Head(h) \in EventRow /\ Tail(h) \in Seq(EventRow)
      /\ Len(Tail(h)) = Len(h) - 1
      /\ \A i \in 1 .. Len(Tail(h)) : Tail(h)[i] = h[i + 1]
  <2> HIDE DEF EventRow
  <2> QED
    BY HeadTailProperties
<1>4. DOMAIN Tail(h) = 1 .. Len(h) - 1
  BY <1>3, EventFacts
<1>5. \A j \in DOMAIN h : j # 1 => \E i \in DOMAIN Tail(h) : Tail(h)[i] = h[j]
  <2> SUFFICES ASSUME NEW j \in DOMAIN h, j # 1
              PROVE  \E i \in DOMAIN Tail(h) : Tail(h)[i] = h[j]
    OBVIOUS
  <2>1. j - 1 \in DOMAIN Tail(h) /\ Tail(h)[j - 1] = h[j]
    BY <1>1, <1>3, <1>4
  <2> QED
    BY <2>1
<1>6. Head(h) = h[1]
  BY DEF Head
<1> QED
  BY <1>1, <1>2, <1>3, <1>4, <1>5, <1>6

-----------------------------------------------------------------------------
(* What each change of a step does to the invariant                        *)

(* An event is popped: the clock moves to it, and if it was an action of a *)
(* case, the case awaits nothing now.  A promised payment leaves only a    *)
(* case that is closed.                                                    *)
LEMMA PopKeeps ==
  ASSUME NEW h, NEW t, NEW table, NEW rows, NEW pl,
         Kernel(h, t, table, rows, pl), h # <<>>,
         Head(h).kind = "promise_paid" => rows[Head(h).subject].status \notin Active
  PROVE  /\ Kernel(Tail(h), Head(h).at, table, rows, pl)
         /\ Head(h).at \in Nat /\ t <= Head(h).at
         /\ Head(h).kind = "action_due" =>
              /\ Head(h).subject \in DOMAIN table
              /\ NoneWaits(Tail(h), table, table[Head(h).subject].case)
         /\ Head(h).kind = "case_ingest" =>
              /\ rows[Head(h).subject].status = "absent"
              /\ NoneComes(Tail(h), Head(h).subject)
         /\ Head(h).kind \in {"case_ingest", "organic", "promise_paid"} => Head(h).subject \in Case
<1> DEFINE g == Tail(h)
           u == Head(h).at
<1>1. h \in Seq(EventRow) /\ t \in Nat /\ table \in Seq(ActionRow)
  BY DEF Kernel, Typed
<1>2. /\ 1 \in DOMAIN h /\ Head(h) = h[1] /\ Head(h) \in EventRow
      /\ g \in Seq(EventRow)
      /\ \A i \in DOMAIN g : i \in Nat /\ i + 1 \in DOMAIN h /\ i + 1 # 1 /\ g[i] = h[i + 1]
      /\ \A j \in DOMAIN h : j # 1 => \E i \in DOMAIN g : g[i] = h[j]
  BY <1>1, TailFacts
<1>3. u \in Nat /\ t <= u
  BY <1>2 DEF Kernel, Ahead, EventRow
<1>4. \A a \in DOMAIN table : table[a] \in ActionRow /\ table[a].case \in Case
  <2>1. \A a \in ActionRow : a.case \in Case
    BY DEF ActionRow
  <2>2. table \in [1 .. Len(table) -> ActionRow]
    BY <1>1, LenProperties
  <2> QED
    BY <2>1, <2>2
<1> HIDE DEF g, u
<1>5. Typed(g, u, table, rows, pl)
  BY <1>2, <1>3 DEF Kernel, Typed
<1>6. Subjects(g, table)
  BY <1>2 DEF Kernel, Subjects
<1>7. InOrder(g)
  <2> SUFFICES ASSUME NEW i \in DOMAIN g, NEW j \in DOMAIN g, i < j
              PROVE  g[i].at <= g[j].at
    BY DEF InOrder
  <2>1. i + 1 < j + 1
    BY <1>2
  <2> QED
    BY <1>2, <2>1 DEF Kernel, InOrder
<1>8. Ahead(g, u)
  <2> SUFFICES ASSUME NEW i \in DOMAIN g PROVE u <= g[i].at
    BY DEF Ahead
  <2>1. 1 < i + 1
    BY <1>2
  <2> QED
    BY <1>2, <2>1 DEF Kernel, InOrder, u
<1>9. ComesOnce(g, rows) /\ Known(table, rows) /\ Blank(rows)
  <2>1. \A i \in DOMAIN g : g[i].kind = "case_ingest" => rows[g[i].subject].status = "absent"
    BY <1>2 DEF Kernel, ComesOnce
  <2>2. \A i, j \in DOMAIN g :
       /\ g[i].kind = "case_ingest" /\ g[j].kind = "case_ingest"
       /\ g[i].subject = g[j].subject
       => i = j
    <3> SUFFICES ASSUME NEW i \in DOMAIN g, NEW j \in DOMAIN g,
                       g[i].kind = "case_ingest", g[j].kind = "case_ingest",
                       g[i].subject = g[j].subject
                PROVE  i = j
      OBVIOUS
    <3> DEFINE k == i + 1
               l == j + 1
    <3>1. /\ k \in DOMAIN h /\ l \in DOMAIN h
          /\ g[i] = h[k] /\ g[j] = h[l]
      BY <1>2
    <3> HIDE DEF k, l
    <3>2. k = l
      BY <3>1 DEF Kernel, ComesOnce
    <3> QED
      BY <1>2, <3>2 DEF k, l
  <2> QED
    BY <2>1, <2>2 DEF Kernel, ComesOnce
<1>10. Past(u, rows)
  <2> SUFFICES ASSUME NEW c \in Case, NEW v \in rows[c].attempts PROVE v <= u
    BY DEF Past
  <2>1. v \in Nat
    BY DEF Kernel, Typed, CaseFields
  <2>2. v <= t
    BY DEF Kernel, Past
  <2> QED
    BY <1>1, <1>3, <2>1, <2>2
<1>11. OneWaits(g, table)
  <2> SUFFICES ASSUME NEW c \in Case, NEW i \in DOMAIN g, NEW j \in DOMAIN g,
                     Awaits(g[i], table, c), Awaits(g[j], table, c)
              PROVE  i = j
    BY DEF OneWaits
  <2>1. i + 1 = j + 1
    BY <1>2 DEF Kernel, OneWaits
  <2> QED
    BY <1>2, <2>1
<1>12. WaitsScheduled(g, table, rows)
  BY <1>2 DEF Kernel, WaitsScheduled
<1>13. KeepersPay(g, table, rows, pl)
  <2> SUFFICES ASSUME NEW c \in Case, NEW i \in DOMAIN g,
                     Awaits(g[i], table, c), table[g[i].subject].type = "check_promise",
                     rows[c].status \in Active, Keeps(pl, c)
              PROVE  PaysBefore(g, c, g[i].at)
    BY DEF KeepersPay
  <2>1. PICK j \in DOMAIN h :
          h[j].kind = "promise_paid" /\ h[j].subject = c /\ h[j].at < g[i].at
    BY <1>2 DEF Kernel, KeepersPay, PaysBefore
  <2>2. j # 1
    BY <1>2, <2>1
  <2> QED
    BY <1>2, <2>1, <2>2 DEF PaysBefore
<1>14. Kernel(g, u, table, rows, pl)
  BY <1>5, <1>6, <1>7, <1>8, <1>9, <1>10, <1>11, <1>12, <1>13 DEF Kernel
<1>15. ASSUME h[1].kind = "action_due"
       PROVE  h[1].subject \in DOMAIN table /\ NoneWaits(g, table, table[h[1].subject].case)
  <2>1. h[1].subject \in DOMAIN table
    BY <1>2, <1>15 DEF Kernel, Subjects
  <2> DEFINE c == table[h[1].subject].case
  <2>2. c \in Case /\ Awaits(h[1], table, c)
    BY <1>4, <1>15, <2>1 DEF Awaits
  <2> HIDE DEF c
  <2>3. \A j \in DOMAIN h : Awaits(h[j], table, c) => j = 1
    BY <1>2, <2>2 DEF Kernel, OneWaits
  <2>4. NoneWaits(g, table, c)
    BY <1>2, <2>3 DEF NoneWaits
  <2> QED
    BY <2>1, <2>4 DEF c
<1>16. ASSUME h[1].kind = "case_ingest"
       PROVE  rows[h[1].subject].status = "absent" /\ NoneComes(g, h[1].subject)
  BY <1>2, <1>16 DEF Kernel, ComesOnce, NoneComes
<1>17. h[1].kind \in {"case_ingest", "organic", "promise_paid"} => h[1].subject \in Case
  BY <1>2 DEF Kernel, Subjects
<1> QED
  BY <1>2, <1>3, <1>14, <1>15, <1>16, <1>17 DEF g, u

(* The documents change: none becomes absent again, none is stored while   *)
(* its payment is still to come, and a case that becomes active awaits     *)
(* nothing.                                                                *)
LEMMA RowsKeep ==
  ASSUME NEW h, NEW t, NEW table, NEW rows, NEW pl, NEW rows2,
         Kernel(h, t, table, rows, pl), rows2 \in [Case -> CaseFields],
         Past(t, rows2), Blank(rows2),
         \A c \in Case :
           /\ rows2[c].status = "absent" => rows[c].status = "absent"
           /\ rows2[c].status = "absent" \/ rows[c].status # "absent" \/ NoneComes(h, c)
           /\ rows2[c].status \in Active => rows[c].status \in Active \/ NoneWaits(h, table, c)
  PROVE  Kernel(h, t, table, rows2, pl)
<1>1. Typed(h, t, table, rows2, pl)
  BY DEF Kernel, Typed
<1>2. ComesOnce(h, rows2)
  <2>1. \A i \in DOMAIN h : h[i].kind = "case_ingest" => rows2[h[i].subject].status = "absent"
    BY DEF Kernel, ComesOnce, NoneComes, Subjects
  <2> QED
    BY <2>1 DEF Kernel, ComesOnce
<1>3. Known(table, rows2)
  <2>1. \A a \in ActionRow : a.case \in Case
    BY DEF ActionRow
  <2>2. table \in [1 .. Len(table) -> ActionRow]
    BY LenProperties DEF Kernel, Typed
  <2> QED
    BY <2>1, <2>2 DEF Kernel, Known
<1>4. WaitsScheduled(h, table, rows2)
  BY DEF Kernel, WaitsScheduled, NoneWaits
<1>5. KeepersPay(h, table, rows2, pl)
  BY DEF Kernel, KeepersPay, NoneWaits
<1> QED
  BY <1>1, <1>2, <1>3, <1>4, <1>5 DEF Kernel

(* The actions table changes, but what an action is about stays, and the   *)
(* ones that active cases await stay scheduled.                            *)
LEMMA TableKeeps ==
  ASSUME NEW h, NEW t, NEW table, NEW rows, NEW pl, NEW table2,
         Kernel(h, t, table, rows, pl), table2 \in Seq(ActionRow),
         DOMAIN table2 = DOMAIN table,
         \A a \in DOMAIN table :
           table2[a].case = table[a].case /\ table2[a].type = table[a].type,
         \A i \in DOMAIN h :
           h[i].kind = "action_due" /\ rows[table[h[i].subject].case].status \in Active
             => table2[h[i].subject].status = table[h[i].subject].status
  PROVE  /\ Kernel(h, t, table2, rows, pl)
         /\ \A c \in Case : NoneWaits(h, table, c) => NoneWaits(h, table2, c)
<1>1. \A c \in Case, i \in DOMAIN h : Awaits(h[i], table2, c) <=> Awaits(h[i], table, c)
  BY DEF Kernel, Subjects, Awaits
<1>2. Typed(h, t, table2, rows, pl) /\ Subjects(h, table2) /\ Known(table2, rows)
  BY DEF Kernel, Typed, Subjects, Known
<1>3. OneWaits(h, table2)
  BY <1>1 DEF Kernel, OneWaits
<1>4. WaitsScheduled(h, table2, rows)
  <2> SUFFICES ASSUME NEW c \in Case, NEW i \in DOMAIN h,
                     Awaits(h[i], table2, c), rows[c].status \in Active
              PROVE  table2[h[i].subject].status = "scheduled"
    BY DEF WaitsScheduled
  <2>1. Awaits(h[i], table, c) /\ table[h[i].subject].status = "scheduled"
    BY <1>1 DEF Kernel, WaitsScheduled
  <2>2. h[i].kind = "action_due" /\ table[h[i].subject].case = c
    BY <2>1 DEF Awaits
  <2> QED
    BY <2>1, <2>2
<1>5. KeepersPay(h, table2, rows, pl)
  <2> SUFFICES ASSUME NEW c \in Case, NEW i \in DOMAIN h,
                     Awaits(h[i], table2, c), table2[h[i].subject].type = "check_promise",
                     rows[c].status \in Active, Keeps(pl, c)
              PROVE  PaysBefore(h, c, h[i].at)
    BY DEF KeepersPay
  <2>1. Awaits(h[i], table, c) /\ h[i].subject \in DOMAIN table
    BY <1>1 DEF Kernel, Subjects, Awaits
  <2>2. table[h[i].subject].type = "check_promise"
    BY <2>1
  <2> QED
    BY <2>1, <2>2 DEF Kernel, KeepersPay
<1>6. \A c \in Case : NoneWaits(h, table, c) => NoneWaits(h, table2, c)
  BY <1>1 DEF NoneWaits
<1> QED
  BY <1>2, <1>3, <1>4, <1>5, <1>6 DEF Kernel

(* An action is saved for a case that is known, and nothing yet waits for  *)
(* it.                                                                     *)
LEMMA SavingKeeps ==
  ASSUME NEW h, NEW t, NEW table, NEW rows, NEW pl, NEW c \in Case, NEW type \in ActionType,
         Kernel(h, t, table, rows, pl), rows[c].status # "absent"
  PROVE  LET more == Append(table, Saved(c, type))
         IN  /\ Kernel(h, t, more, rows, pl)
             /\ Len(table) + 1 \in DOMAIN more
             /\ more[Len(table) + 1] = Saved(c, type)
             /\ \A d \in Case : NoneWaits(h, table, d) => NoneWaits(h, more, d)
             /\ \A a \in DOMAIN table : a \in DOMAIN more /\ more[a] = table[a]
<1> DEFINE more == Append(table, Saved(c, type))
<1>1. table \in Seq(ActionRow)
  BY DEF Kernel, Typed
<1>2. Saved(c, type) \in ActionRow
  BY DEF Saved, ActionRow
<1>3. /\ more \in Seq(ActionRow) /\ Len(table) \in Nat /\ Len(more) = Len(table) + 1
      /\ DOMAIN table = 1 .. Len(table) /\ DOMAIN more = 1 .. Len(table) + 1
      /\ \A a \in 1 .. Len(table) : more[a] = table[a]
      /\ more[Len(table) + 1] = Saved(c, type)
  <2> HIDE DEF ActionRow
  <2>1. /\ more \in Seq(ActionRow) /\ Len(more) = Len(table) + 1
        /\ \A a \in 1 .. Len(table) : more[a] = table[a]
        /\ more[Len(table) + 1] = Saved(c, type)
    BY <1>1, <1>2, AppendProperties
  <2> QED
    BY <1>1, <2>1, LenProperties
<1> HIDE DEF more
<1>4. \A a \in DOMAIN table : a \in DOMAIN more /\ more[a] = table[a]
  BY <1>3
<1>5. \A d \in Case, i \in DOMAIN h : Awaits(h[i], more, d) <=> Awaits(h[i], table, d)
  BY <1>4 DEF Kernel, Subjects, Awaits
<1>6. Typed(h, t, more, rows, pl) /\ Subjects(h, more)
  BY <1>3, <1>4 DEF Kernel, Typed, Subjects
<1>7. Known(more, rows)
  <2> SUFFICES ASSUME NEW a \in DOMAIN more PROVE rows[more[a].case].status # "absent"
    BY DEF Known
  <2>1. CASE a \in DOMAIN table
    BY <1>4, <2>1 DEF Kernel, Known
  <2>2. CASE a = Len(table) + 1
    BY <1>3, <2>2 DEF Saved
  <2> QED
    BY <1>3, <2>1, <2>2
<1>8. OneWaits(h, more)
  BY <1>5 DEF Kernel, OneWaits
<1>9. \A i \in DOMAIN h : h[i].kind = "action_due" => more[h[i].subject] = table[h[i].subject]
  BY <1>4 DEF Kernel, Subjects
<1>10. WaitsScheduled(h, more, rows)
  <2> SUFFICES ASSUME NEW d \in Case, NEW i \in DOMAIN h,
                     Awaits(h[i], more, d), rows[d].status \in Active
              PROVE  more[h[i].subject].status = "scheduled"
    BY DEF WaitsScheduled
  <2>1. Awaits(h[i], table, d) /\ more[h[i].subject] = table[h[i].subject]
    BY <1>5, <1>9 DEF Awaits
  <2> QED
    BY <2>1 DEF Kernel, WaitsScheduled
<1>11. KeepersPay(h, more, rows, pl)
  <2> SUFFICES ASSUME NEW d \in Case, NEW i \in DOMAIN h,
                     Awaits(h[i], more, d), more[h[i].subject].type = "check_promise",
                     rows[d].status \in Active, Keeps(pl, d)
              PROVE  PaysBefore(h, d, h[i].at)
    BY DEF KeepersPay
  <2>1. Awaits(h[i], table, d) /\ more[h[i].subject] = table[h[i].subject]
    BY <1>5, <1>9 DEF Awaits
  <2> QED
    BY <2>1 DEF Kernel, KeepersPay
<1>12. \A d \in Case : NoneWaits(h, table, d) => NoneWaits(h, more, d)
  BY <1>5 DEF NoneWaits
<1>13. Kernel(h, t, more, rows, pl)
  BY <1>6, <1>7, <1>8, <1>10, <1>11 DEF Kernel
<1> QED
  BY <1>3, <1>4, <1>12, <1>13 DEF more

(* An event is pushed: a sweep, a payment, one of a case nothing is known  *)
(* of, or an action its case may await.                                    *)
LEMMA PushKeeps ==
  ASSUME NEW h, NEW t, NEW table, NEW rows, NEW pl, NEW e \in EventRow,
         Kernel(h, t, table, rows, pl), t <= e.at,
         \/ e.kind = "sweep"
         \/ e.kind \in {"organic", "promise_paid"} /\ e.subject \in Case
         \/ /\ e.kind = "case_ingest" /\ e.subject \in Case
            /\ rows[e.subject].status = "absent" /\ NoneComes(h, e.subject)
         \/ /\ e.kind = "action_due" /\ e.subject \in DOMAIN table
            /\ NoneWaits(h, table, table[e.subject].case)
            /\ table[e.subject].status = "scheduled"
            /\ table[e.subject].type = "check_promise"
                 => ~Keeps(pl, table[e.subject].case)
  PROVE  /\ Kernel(Push(h, e), t, table, rows, pl)
         /\ \A c \in Case : NoneWaits(h, table, c) /\ ~Awaits(e, table, c)
              => NoneWaits(Push(h, e), table, c)
         /\ \E i \in DOMAIN Push(h, e) : Push(h, e)[i] = e
         /\ \A i \in DOMAIN Push(h, e) :
              Push(h, e)[i] = e \/ \E j \in DOMAIN h : Push(h, e)[i] = h[j]
<1> DEFINE g == Push(h, e)
<1>1. h \in Seq(EventRow) /\ InOrder(h)
  BY DEF Kernel, Typed
<1>2. g \in Seq(EventRow) /\ InOrder(g)
  BY <1>1, PushFacts
<1>3. PICK p \in DOMAIN g, old \in [DOMAIN g -> Int] :
        /\ g[p] = e
        /\ \A i \in DOMAIN g : i # p => old[i] \in DOMAIN h /\ g[i] = h[old[i]]
        /\ \A i, j \in DOMAIN g : i # p /\ j # p /\ old[i] = old[j] => i = j
  BY <1>1, PushFacts
<1>4. \A j \in DOMAIN h : \E i \in DOMAIN g : g[i] = h[j]
  BY <1>1, PushFacts
<1> HIDE DEF g
<1>5. Typed(g, t, table, rows, pl)
  BY <1>2 DEF Kernel, Typed
<1>6. Subjects(g, table)
  <2> SUFFICES ASSUME NEW i \in DOMAIN g
              PROVE  /\ g[i].kind = "action_due" => g[i].subject \in DOMAIN table
                     /\ g[i].kind \in {"case_ingest", "organic", "promise_paid"}
                          => g[i].subject \in Case
    BY DEF Subjects
  <2>1. CASE i = p
    BY <1>3, <2>1
  <2>2. CASE i # p
    BY <1>3, <2>2 DEF Kernel, Subjects
  <2> QED
    BY <2>1, <2>2
<1>7. Ahead(g, t)
  BY <1>3 DEF Kernel, Ahead
<1>8. ComesOnce(g, rows)
  <2>1. ASSUME NEW i \in DOMAIN g, g[i].kind = "case_ingest"
        PROVE  rows[g[i].subject].status = "absent"
    BY <1>3, <2>1 DEF Kernel, ComesOnce
  <2>2. ASSUME NEW i \in DOMAIN g, i # p, g[i].kind = "case_ingest", e.kind = "case_ingest"
        PROVE  g[i].subject # e.subject
    BY <1>3, <2>2 DEF NoneComes
  <2>3. ASSUME NEW i \in DOMAIN g, NEW j \in DOMAIN g,
               g[i].kind = "case_ingest", g[j].kind = "case_ingest",
               g[i].subject = g[j].subject
        PROVE  i = j
    <3>1. CASE i = p \/ j = p
      BY <1>3, <2>2, <2>3, <3>1
    <3>2. CASE i # p /\ j # p
      <4>1. old[i] = old[j]
        BY <1>3, <2>3, <3>2 DEF Kernel, ComesOnce
      <4> QED
        BY <1>3, <3>2, <4>1
    <3> QED
      BY <3>1, <3>2
  <2> QED
    BY <2>1, <2>3 DEF ComesOnce
<1>9. ASSUME NEW c \in Case, NEW i \in DOMAIN g, Awaits(g[i], table, c), i # p
      PROVE  old[i] \in DOMAIN h /\ g[i] = h[old[i]] /\ Awaits(h[old[i]], table, c)
  BY <1>3, <1>9
<1>10. \A c \in Case, i \in DOMAIN g :
         Awaits(e, table, c) /\ Awaits(g[i], table, c) => i = p
  <2> SUFFICES ASSUME NEW c \in Case, NEW i \in DOMAIN g,
                     Awaits(e, table, c), Awaits(g[i], table, c), i # p
              PROVE  FALSE
    OBVIOUS
  <2>1. NoneWaits(h, table, c)
    BY DEF Awaits
  <2> QED
    BY <1>9, <2>1 DEF NoneWaits
<1>11. OneWaits(g, table)
  <2> SUFFICES ASSUME NEW c \in Case, NEW i \in DOMAIN g, NEW j \in DOMAIN g,
                     Awaits(g[i], table, c), Awaits(g[j], table, c)
              PROVE  i = j
    BY DEF OneWaits
  <2>1. CASE i = p \/ j = p
    BY <1>3, <1>10, <2>1
  <2>2. CASE i # p /\ j # p
    <3>1. old[i] = old[j]
      BY <1>9, <2>2 DEF Kernel, OneWaits
    <3> QED
      BY <1>3, <2>2, <3>1
  <2> QED
    BY <2>1, <2>2
<1>12. WaitsScheduled(g, table, rows)
  <2> SUFFICES ASSUME NEW c \in Case, NEW i \in DOMAIN g,
                     Awaits(g[i], table, c), rows[c].status \in Active
              PROVE  table[g[i].subject].status = "scheduled"
    BY DEF WaitsScheduled
  <2>1. CASE i = p
    BY <1>3, <2>1 DEF Awaits
  <2>2. CASE i # p
    BY <1>9, <2>2 DEF Kernel, WaitsScheduled
  <2> QED
    BY <2>1, <2>2
<1>13. KeepersPay(g, table, rows, pl)
  <2> SUFFICES ASSUME NEW c \in Case, NEW i \in DOMAIN g,
                     Awaits(g[i], table, c), table[g[i].subject].type = "check_promise",
                     rows[c].status \in Active, Keeps(pl, c)
              PROVE  PaysBefore(g, c, g[i].at)
    BY DEF KeepersPay
  <2>1. i # p
    BY <1>3 DEF Awaits
  <2>2. PaysBefore(h, c, g[i].at)
    BY <1>9, <2>1 DEF Kernel, KeepersPay
  <2> QED
    BY <1>4, <2>2 DEF PaysBefore
<1>14. Kernel(g, t, table, rows, pl)
  BY <1>2, <1>5, <1>6, <1>7, <1>8, <1>11, <1>12, <1>13 DEF Kernel
<1>15. \A c \in Case : NoneWaits(h, table, c) /\ ~Awaits(e, table, c) => NoneWaits(g, table, c)
  BY <1>3, <1>9 DEF NoneWaits
<1> QED
  BY <1>3, <1>14, <1>15 DEF g

(* What is known of a customer's way with promises may change, as long as  *)
(* the check of a promise to be kept has its payment before it.            *)
LEMMA PledgeKeeps ==
  ASSUME NEW h, NEW t, NEW table, NEW rows, NEW pl, NEW pl2,
         Kernel(h, t, table, rows, pl), pl2 \in [Case -> SUBSET Pledges],
         \A c \in Case : \A i \in DOMAIN h :
           /\ Keeps(pl2, c) /\ Awaits(h[i], table, c)
           /\ table[h[i].subject].type = "check_promise"
           => Keeps(pl, c) \/ PaysBefore(h, c, h[i].at)
  PROVE  Kernel(h, t, table, rows, pl2)
<1>1. KeepersPay(h, table, rows, pl2)
  BY DEF Kernel, KeepersPay
<1> QED
  BY <1>1 DEF Kernel, Typed

LEMMA TableFacts ==
  ASSUME NEW table \in Seq(ActionRow)
  PROVE  /\ Len(table) \in Nat /\ DOMAIN table = 1 .. Len(table)
         /\ table \in [1 .. Len(table) -> ActionRow]
         /\ \A a \in DOMAIN table :
              table[a] \in ActionRow /\ table[a].case \in Case /\ table[a].type \in ActionType
<1>1. Len(table) \in Nat /\ DOMAIN table = 1 .. Len(table) /\ table \in [1 .. Len(table) -> ActionRow]
  BY LenProperties
<1>2. \A a \in ActionRow : a.case \in Case /\ a.type \in ActionType
  BY DEF ActionRow
<1> QED
  BY <1>1, <1>2

(* A table of the same length is one again.                                *)
LEMMA SameLength ==
  ASSUME NEW table \in Seq(ActionRow), NEW table2 \in [DOMAIN table -> ActionRow]
  PROVE  table2 \in Seq(ActionRow) /\ DOMAIN table2 = DOMAIN table
<1>1. Len(table) \in Nat /\ DOMAIN table = 1 .. Len(table)
  BY TableFacts
<1>2. table2 \in UNION {[1 .. n -> ActionRow] : n \in Nat}
  BY <1>1
<1> QED
  BY <1>2, SeqDef

(* One action is marked; its case awaits nothing, or its status stays.     *)
LEMMA MarkKeeps ==
  ASSUME NEW h, NEW t, NEW table, NEW rows, NEW pl, NEW a \in DOMAIN table,
         NEW new \in ActionRow, new.case = table[a].case, new.type = table[a].type,
         Kernel(h, t, table, rows, pl),
         NoneWaits(h, table, table[a].case) \/ new.status = table[a].status
  PROVE  LET marked == [table EXCEPT ![a] = new]
         IN  /\ Kernel(h, t, marked, rows, pl)
             /\ DOMAIN marked = DOMAIN table /\ marked[a] = new
             /\ \A c \in Case : NoneWaits(h, table, c) => NoneWaits(h, marked, c)
<1> DEFINE marked == [table EXCEPT ![a] = new]
<1>1. table \in Seq(ActionRow)
  BY DEF Kernel, Typed
<1>2. /\ table \in [DOMAIN table -> ActionRow]
      /\ \A b \in DOMAIN table : table[b] \in ActionRow /\ table[b].case \in Case
  BY <1>1, TableFacts
<1>4. marked \in [DOMAIN table -> ActionRow]
  BY <1>2
<1>5. marked \in Seq(ActionRow) /\ DOMAIN marked = DOMAIN table
  BY <1>1, <1>4, SameLength
<1>6. \A b \in DOMAIN table :
        /\ marked[b].case = table[b].case /\ marked[b].type = table[b].type
        /\ b # a => marked[b] = table[b]
  OBVIOUS
<1>7. marked[a] = new
  OBVIOUS
<1> HIDE DEF marked
<1>8. ASSUME NEW i \in DOMAIN h, h[i].kind = "action_due"
      PROVE  marked[h[i].subject].status = table[h[i].subject].status
  <2>1. h[i].subject \in DOMAIN table
    BY <1>8 DEF Kernel, Subjects
  <2>2. CASE h[i].subject = a
    BY <1>7, <1>8, <2>2 DEF NoneWaits, Awaits
  <2> QED
    BY <1>6, <2>1, <2>2
<1>9. /\ Kernel(h, t, marked, rows, pl)
      /\ \A c \in Case : NoneWaits(h, table, c) => NoneWaits(h, marked, c)
  BY <1>5, <1>6, <1>8, TableKeeps
<1> QED
  BY <1>5, <1>7, <1>9 DEF marked

(* The scheduled actions of a case are superseded when it is closed, or    *)
(* when it awaits none.                                                    *)
LEMMA SupersedingKeeps ==
  ASSUME NEW h, NEW t, NEW table, NEW rows, NEW pl, NEW c \in Case,
         Kernel(h, t, table, rows, pl),
         rows[c].status \notin Active \/ NoneWaits(h, table, c)
  PROVE  /\ Kernel(h, t, Superseded(table, c), rows, pl)
         /\ Len(Superseded(table, c)) = Len(table)
         /\ \A d \in Case : NoneWaits(h, table, d) => NoneWaits(h, Superseded(table, c), d)
<1> DEFINE table2 == Superseded(table, c)
<1>1. table \in Seq(ActionRow)
  BY DEF Kernel, Typed
<1>2. \A b \in DOMAIN table : table[b] \in ActionRow
  BY <1>1, TableFacts
<1>3. /\ table2 \in [DOMAIN table -> ActionRow]
      /\ \A b \in DOMAIN table :
           /\ table2[b].case = table[b].case /\ table2[b].type = table[b].type
           /\ table[b].case # c => table2[b] = table[b]
  BY <1>2 DEF Superseded, ActionRow
<1>4. table2 \in Seq(ActionRow) /\ DOMAIN table2 = DOMAIN table
  BY <1>1, <1>3, SameLength
<1>5. Len(table2) = Len(table)
  BY <1>1, <1>4, TableFacts
<1> HIDE DEF table2
<1>6. ASSUME NEW i \in DOMAIN h, h[i].kind = "action_due",
             rows[table[h[i].subject].case].status \in Active
      PROVE  table2[h[i].subject].status = table[h[i].subject].status
  <2>1. h[i].subject \in DOMAIN table
    BY <1>6 DEF Kernel, Subjects
  <2>2. table[h[i].subject].case # c
    BY <1>6 DEF NoneWaits, Awaits
  <2> QED
    BY <1>3, <2>1, <2>2
<1>7. /\ Kernel(h, t, table2, rows, pl)
      /\ \A d \in Case : NoneWaits(h, table, d) => NoneWaits(h, table2, d)
  <2>1. \A a \in DOMAIN table :
          table2[a].case = table[a].case /\ table2[a].type = table[a].type
    BY <1>3
  <2>2. \A i \in DOMAIN h :
          h[i].kind = "action_due" /\ rows[table[h[i].subject].case].status \in Active
            => table2[h[i].subject].status = table[h[i].subject].status
    BY <1>6
  <2> QED
    BY <1>4, <2>1, <2>2, TableKeeps
<1> QED
  BY <1>5, <1>7 DEF table2

(* The attempts made so far are finitely many.                             *)
LEMMA PastIsFinite ==
  ASSUME NEW h, NEW t, NEW table, NEW rows, NEW pl, NEW c \in Case,
         Kernel(h, t, table, rows, pl)
  PROVE  IsFiniteSet(rows[c].attempts)
<1>1. t \in Nat /\ rows[c] \in CaseFields
  BY DEF Kernel, Typed
<1>2. rows[c].attempts \subseteq 0 .. t
  <2>1. rows[c].attempts \subseteq Nat
    BY <1>1 DEF CaseFields
  <2>2. \A u \in rows[c].attempts : u <= t
    BY DEF Kernel, Past
  <2> QED
    BY <1>1, <2>1, <2>2
<1>3. IsFiniteSet(0 .. t)
  BY <1>1, FS_Interval
<1> QED
  BY <1>2, <1>3, FS_Subset

LEMMA AbsentWaitsNone ==
  ASSUME NEW h, NEW t, NEW table, NEW rows, NEW pl, NEW c \in Case,
         Kernel(h, t, table, rows, pl), rows[c].status = "absent"
  PROVE  NoneWaits(h, table, c)
  BY DEF Kernel, Known, Subjects, NoneWaits, Awaits

LEMMA EventType ==
  ASSUME NEW at \in Nat, NEW kind \in Kind, NEW subject \in Case \cup Nat
  PROVE  /\ Event(at, kind, subject) \in EventRow
         /\ Event(at, kind, subject).at = at /\ Event(at, kind, subject).kind = kind
         /\ Event(at, kind, subject).subject = subject
  BY DEF Event, EventRow

(* A plan is made for a case that awaits nothing.                          *)
LEMMA PlanKeeps ==
  ASSUME NEW c \in Case, NEW r \in CaseFields, NEW t, NEW table, NEW h,
         NEW rows, NEW pl,
         IsFiniteSet(r.attempts), Kernel(h, t, table, rows, pl),
         rows[c].status # "absent", NoneWaits(h, table, c),
         PlanAndPush(c, r, t, table, h)
  PROVE  Kernel(heap', t, acts', rows, pl)
<1>1. CASE acts' = table /\ heap' = h
  BY <1>1
<1>2. ASSUME NEW worth \in BOOLEAN, NEW s \in NextSteps(r, DebitOf[c], worth, t),
             acts' = Append(table, Saved(c, s.type)),
             heap' = PushInHorizon(h, Event(t + s.delay, "action_due", Len(table) + 1))
      PROVE  Kernel(heap', t, acts', rows, pl)
  <2> DEFINE e == Event(t + s.delay, "action_due", Len(table) + 1)
             a == Len(table) + 1
  <2>1. t \in Nat /\ table \in Seq(ActionRow) /\ Len(table) \in Nat
    <3>1. t \in Nat /\ table \in Seq(ActionRow)
      BY DEF Kernel, Typed
    <3> QED
      BY <3>1, TableFacts
  <2>2. s.type \in ActionType /\ s.type # "check_promise" /\ s.delay \in Nat
    BY <2>1, NextStepsType DEF IsStep, Planned
  <2>3. /\ Kernel(h, t, acts', rows, pl)
        /\ a \in DOMAIN acts' /\ acts'[a] = Saved(c, s.type)
        /\ NoneWaits(h, acts', c)
    <3> DEFINE type == s.type
               more == Append(table, Saved(c, type))
    <3>1. type \in ActionType
      BY <2>2
    <3> HIDE DEF type
    <3>2. /\ Kernel(h, t, more, rows, pl)
          /\ Len(table) + 1 \in DOMAIN more /\ more[Len(table) + 1] = Saved(c, type)
          /\ \A d \in Case : NoneWaits(h, table, d) => NoneWaits(h, more, d)
      BY <3>1, SavingKeeps
    <3>3. acts' = more
      BY <1>2 DEF type
    <3> HIDE DEF more
    <3> QED
      BY <3>2, <3>3 DEF type
  <2>4. /\ e \in EventRow /\ e.at = t + s.delay /\ e.kind = "action_due" /\ e.subject = a
    <3>1. t + s.delay \in Nat /\ a \in Case \cup Nat /\ "action_due" \in Kind
      BY <2>1, <2>2 DEF Kind
    <3> HIDE DEF a
    <3> QED
      BY <3>1, EventType DEF a
  <2>5. /\ acts'[a].case = c /\ acts'[a].status = "scheduled"
        /\ acts'[a].type # "check_promise"
    BY <2>2, <2>3 DEF Saved
  <2>6. t <= e.at
    BY <2>1, <2>2, <2>4
  <2> HIDE DEF e, a
  <2>7. Kernel(Push(h, e), t, acts', rows, pl)
    BY <2>3, <2>4, <2>5, <2>6, PushKeeps
  <2>8. heap' = Push(h, e) \/ heap' = h
    BY <1>2 DEF PushInHorizon, e
  <2> QED
    BY <2>3, <2>7, <2>8
<1> QED
  BY <1>1, <1>2 DEF PlanAndPush

(* One stored document changes; it stays stored, and becomes active only   *)
(* if it was.                                                              *)
LEMMA RowKeeps ==
  ASSUME NEW h, NEW t, NEW table, NEW rows, NEW pl, NEW c \in Case, NEW r \in CaseFields,
         Kernel(h, t, table, rows, pl),
         rows[c].status # "absent", r.status # "absent",
         r.status \in Active => rows[c].status \in Active,
         \A u \in r.attempts : u <= t
  PROVE  /\ Kernel(h, t, table, [rows EXCEPT ![c] = r], pl)
         /\ [rows EXCEPT ![c] = r][c] = r
<1> DEFINE rows2 == [rows EXCEPT ![c] = r]
<1>1. rows \in [Case -> CaseFields]
  BY DEF Kernel, Typed
<1>2. /\ rows2 \in [Case -> CaseFields] /\ rows2[c] = r
      /\ \A d \in Case : d # c => rows2[d] = rows[d]
  BY <1>1
<1> HIDE DEF rows2
<1>3. Past(t, rows2)
  BY <1>2 DEF Kernel, Past
<1>4. Blank(rows2)
  BY <1>2 DEF Kernel, Blank
<1>5. \A d \in Case :
        /\ rows2[d].status = "absent" => rows[d].status = "absent"
        /\ rows2[d].status = "absent" \/ rows[d].status # "absent" \/ NoneComes(h, d)
        /\ rows2[d].status \in Active => rows[d].status \in Active \/ NoneWaits(h, table, d)
  BY <1>2
<1>6. Kernel(h, t, table, rows2, pl)
  BY <1>2, <1>3, <1>4, <1>5, RowsKeep
<1> QED
  BY <1>2, <1>6 DEF rows2

LEMMA NoSooner == \A t, d \in Nat : t + d \in Nat /\ t <= t + d
  OBVIOUS

LEMMA Parameters ==
  /\ OrganicDelays \subseteq Nat /\ PromiseDays \subseteq 1 .. 7
  /\ FailedAt \in [Case -> Nat] /\ HorizonDays \in Nat
  BY EngineAssumption

LEMMA DocumentType ==
  ASSUME NEW c \in Case, NEW status \in {"absent", "open"}, NEW created \in Nat
  PROVE  /\ Document(c, status, created) \in CaseFields
         /\ Document(c, status, created).status = status
         /\ Document(c, status, created).attempts = {}
         /\ Document(c, status, created).created = created
         /\ Document(c, status, created).optedOut = (c \in OptedOut)
<1>1. ClassOf[c] \in FailureClass /\ AmountOf[c] \in Nat
  BY EngineAssumption DEF AnsweredClass, FailureClass
<1> QED
  BY <1>1 DEF Document, CaseFields, Active, Closed, NoTime

-----------------------------------------------------------------------------
(* The documents                                                           *)

(* How a step changes a document, as the contract and the sums see it.     *)
SameView(old, new) ==
  /\ old.status \notin Closed
  /\ PhaseOf(new) = PhaseOf(old) /\ new.attempts = old.attempts
  /\ new.created = old.created /\ new.optedOut = old.optedOut
Ends(old, new) ==
  /\ old.status \in Active /\ new.status \in Closed
  /\ new.attempts = old.attempts
  /\ new.created = old.created /\ new.optedOut = old.optedOut
Opens(c, old, new, t) == old.status = "absent" /\ new = Document(c, "open", t)
Counts(old, new, t) ==
  /\ old.status \in Active /\ new.status \in Active
  /\ ~old.optedOut /\ ~new.optedOut /\ new.created = old.created
  /\ ~CoolingDown(old, t) /\ ~(AttemptsInWindow(old, t) >= MaxAttempts)
  /\ ~(t >= old.created + CaseExpiry)
  /\ new.attempts = old.attempts \cup {t}

RowStep ==
  \/ row' = row
  \/ \E c \in Case, r \in CaseFields :
       /\ row' = [row EXCEPT ![c] = r]
       /\ \/ SameView(row[c], r)
          \/ Ends(row[c], r)
          \/ Opens(c, row[c], r, now')
          \/ Counts(row[c], r, now')

LEMMA RowFacts ==
  ASSUME EngineInv, NEW c \in Case
  PROVE  /\ row[c] \in CaseFields /\ now \in Nat
         /\ row \in [Case -> CaseFields]
         /\ row[c].status \in {"open", "scheduled", "recovered", "written_off", "absent"}
         /\ \A u \in row[c].attempts : u \in Nat /\ u <= now
         /\ IsFiniteSet(row[c].attempts)
<1>1. Kernel(heap, now, acts, row, pledge)
  BY DEF EngineInv
<1>2. row \in [Case -> CaseFields] /\ now \in Nat /\ row[c] \in CaseFields
  BY <1>1 DEF Kernel, Typed
<1>3. \A r \in CaseFields :
        /\ r.status \in {"open", "scheduled", "recovered", "written_off", "absent"}
        /\ r.attempts \subseteq Nat
  BY DEF CaseFields, Active, Closed
<1>4. \A u \in row[c].attempts : u <= now
  BY <1>1 DEF Kernel, Past
<1>5. IsFiniteSet(row[c].attempts)
  BY <1>1, PastIsFinite
<1> QED
  BY <1>2, <1>3, <1>4, <1>5

(* A case ends, by money or by a write-off.                                *)
LEMMA EndingKeeps ==
  ASSUME NEW h, NEW t, NEW table, NEW rows, NEW pl, NEW c \in Case, NEW new,
         new = Recovered(rows[c]) \/ new = WrittenOff(rows[c]),
         Kernel(h, t, table, rows, pl), rows[c].status \in Active
  PROVE  /\ new \in CaseFields /\ Ends(rows[c], new)
         /\ Kernel(h, t, Superseded(table, c), [rows EXCEPT ![c] = new], pl)
         /\ Len(Superseded(table, c)) = Len(table)
<1>1. rows[c] \in CaseFields
  BY DEF Kernel, Typed
<1>2. /\ new \in CaseFields /\ new.status \in Closed /\ new.attempts = rows[c].attempts
      /\ new.created = rows[c].created /\ new.optedOut = rows[c].optedOut
  BY <1>1 DEF Recovered, WrittenOff, CaseFields, Closed
<1> HIDE DEF Recovered, WrittenOff
<1>3. \A u \in new.attempts : u <= t
  BY <1>2 DEF Kernel, Past
<1>4. /\ Kernel(h, t, table, [rows EXCEPT ![c] = new], pl)
      /\ [rows EXCEPT ![c] = new][c].status \notin Active
  <2>1. /\ rows[c].status # "absent" /\ new.status # "absent"
        /\ new.status \notin Active
    BY <1>2 DEF Active, Closed
  <2>2. /\ Kernel(h, t, table, [rows EXCEPT ![c] = new], pl)
        /\ [rows EXCEPT ![c] = new][c] = new
    <3>1. new \in CaseFields /\ (new.status \in Active => rows[c].status \in Active)
      BY <1>2
    <3> HIDE DEF Active, CaseFields
    <3> QED
      BY <1>3, <2>1, <3>1, RowKeeps
  <2> QED
    BY <2>1, <2>2
<1>5. /\ Kernel(h, t, Superseded(table, c), [rows EXCEPT ![c] = new], pl)
      /\ Len(Superseded(table, c)) = Len(table)
  BY <1>4, SupersedingKeeps
<1> QED
  BY <1>2, <1>5 DEF Ends

-----------------------------------------------------------------------------
(* The steps                                                               *)

LEMMA MoneyArrivesKeeps == ASSUME EngineInv, MoneyArrives PROVE EngineInv' /\ RowStep
<1> DEFINE c == Head(heap).subject
<1>1. /\ Kernel(heap, now, acts, row, pledge) /\ heap # <<>>
      /\ Head(heap).kind \in {"organic", "promise_paid"} /\ now' = Head(heap).at
      /\ sent = 0 /\ review = {} /\ stage = "replay"
  BY DEF EngineInv, MoneyArrives, Pops, Idle
<1>2. c \in Case
  <2>1. 1 \in DOMAIN heap /\ Head(heap) = heap[1]
    BY <1>1, TailFacts DEF Kernel, Typed
  <2> QED
    BY <1>1, <2>1 DEF Kernel, Subjects
<1>3. /\ heap' = Tail(heap) /\ UNCHANGED <<pledge, sent, review, stage>>
      /\ row' = IF StillOwed(c) THEN [row EXCEPT ![c] = Recovered(row[c])] ELSE row
      /\ acts' = IF StillOwed(c) THEN Superseded(acts, c) ELSE acts
  BY <1>1 DEF MoneyArrives
<1> HIDE DEF c
<1>4. /\ Kernel(heap, now, acts', row', pledge)
      /\ row'[c].status \notin Active
      /\ RowStep
  <2>1. CASE StillOwed(c)
    <3>1. row[c].status \in Active
      BY <2>1 DEF StillOwed
    <3>2. /\ Recovered(row[c]) \in CaseFields /\ Ends(row[c], Recovered(row[c]))
          /\ Kernel(heap, now, Superseded(acts, c), [row EXCEPT ![c] = Recovered(row[c])], pledge)
      BY <1>1, <1>2, <3>1, EndingKeeps
    <3>3. row' = [row EXCEPT ![c] = Recovered(row[c])] /\ row'[c] = Recovered(row[c])
      BY <1>2, <1>3, <2>1, RowFacts
    <3>4. row'[c].status \notin Active
      BY <3>2, <3>3 DEF Ends, Active, Closed
    <3> QED
      BY <1>2, <1>3, <2>1, <3>2, <3>3, <3>4 DEF RowStep
  <2>2. CASE ~StillOwed(c)
    BY <1>1, <1>3, <2>2 DEF StillOwed, RowStep
  <2> QED
    BY <2>1, <2>2
<1>5. Kernel(heap', now', acts', row', pledge')
  BY <1>1, <1>3, <1>4, PopKeeps DEF c
<1> QED
  BY <1>1, <1>3, <1>4, <1>5 DEF EngineInv, Answering

LEMMA SweepKeeps == ASSUME EngineInv, Sweep PROVE EngineInv' /\ RowStep
<1>1. /\ Kernel(heap, now, acts, row, pledge) /\ heap # <<>>
      /\ Head(heap).kind = "sweep" /\ now' = Head(heap).at
      /\ sent = 0 /\ stage = "replay" /\ heap' = Tail(heap)
      /\ UNCHANGED <<row, acts, pledge, sent, stage>>
      /\ review' = OpenCases
  BY DEF EngineInv, Sweep, Pops, Idle
<1>2. Kernel(heap', now', acts', row', pledge')
  BY <1>1, PopKeeps
<1> QED
  BY <1>1, <1>2 DEF EngineInv, Answering, OpenCases, RowStep

LEMMA ReviewKeeps ==
  ASSUME EngineInv, NEW c \in Case, Review(c) PROVE EngineInv' /\ RowStep
<1>1. /\ Kernel(heap, now, acts, row, pledge) /\ review \subseteq OpenCases
      /\ c \in review /\ review' = review \ {c}
      /\ UNCHANGED <<heap, now, pledge, sent, stage>>
      /\ stage \in {"replay", "finalize"}
  BY DEF EngineInv, Review
<1>2. row[c].status \in Active
  BY <1>1 DEF OpenCases
<1>3. sent = 0
  BY <1>1 DEF EngineInv, Answering
<1>4. CASE UNCHANGED <<row, acts>>
  BY <1>1, <1>3, <1>4 DEF EngineInv, Answering, OpenCases, RowStep
<1>5. CASE row' = [row EXCEPT ![c] = WrittenOff(row[c])] /\ acts' = Superseded(acts, c)
  <2>1. /\ WrittenOff(row[c]) \in CaseFields /\ Ends(row[c], WrittenOff(row[c]))
        /\ Kernel(heap', now', acts', row', pledge')
    BY <1>1, <1>2, <1>5, EndingKeeps
  <2>2. review' \subseteq OpenCases'
    <3>1. \A d \in Case : d # c => row'[d] = row[d]
      BY <1>5, RowFacts
    <3> QED
      BY <1>1, <3>1 DEF OpenCases
  <2> QED
    BY <1>1, <1>3, <1>5, <2>1, <2>2 DEF EngineInv, Answering, RowStep
<1> QED
  BY <1>4, <1>5 DEF Review

LEMMA FinalizeKeeps == ASSUME EngineInv, Finalize PROVE EngineInv' /\ RowStep
  BY DEF EngineInv, Answering, Finalize, Idle, OpenCases, RowStep

LEMMA IngestKeeps == ASSUME EngineInv, Ingest PROVE EngineInv' /\ RowStep
<1> DEFINE c == Head(heap).subject
           r == Document(c, "open", now')
           rest == Tail(heap)
<1>1. /\ Kernel(heap, now, acts, row, pledge) /\ heap # <<>>
      /\ Head(heap).kind = "case_ingest" /\ now' = Head(heap).at
      /\ sent = 0 /\ review = {} /\ stage = "replay"
      /\ row' = [row EXCEPT ![c] = r]
      /\ UNCHANGED <<pledge, sent, review, stage>>
  BY DEF EngineInv, Ingest, Pops, Idle
<1>2. /\ Kernel(rest, now', acts, row, pledge) /\ now' \in Nat
      /\ c \in Case /\ row[c].status = "absent" /\ NoneComes(rest, c)
  BY <1>1, PopKeeps
<1>3. PICK h \in {rest} \cup {PushInHorizon(rest, Event(now' + d, "organic", c)) :
                                d \in OrganicDelays} :
        PlanAndPush(c, r, now', acts, h)
  BY DEF Ingest
<1> HIDE DEF c
<1>4. /\ r \in CaseFields /\ r.status = "open" /\ r.attempts = {}
  BY <1>2, DocumentType
<1> HIDE DEF r
<1>5. NoneWaits(rest, acts, c)
  BY <1>2, AbsentWaitsNone
<1>6. /\ row' \in [Case -> CaseFields] /\ row'[c] = r
      /\ \A d \in Case : d # c => row'[d] = row[d]
  BY <1>1, <1>2, <1>4, RowFacts
<1> HIDE DEF rest
<1>7. Kernel(rest, now', acts, row', pledge)
  <2>1. Past(now', row')
    BY <1>2, <1>4, <1>6 DEF Kernel, Past
  <2>2. Blank(row')
    BY <1>2, <1>4, <1>6 DEF Kernel, Blank
  <2>3. \A d \in Case :
          /\ row'[d].status = "absent" => row[d].status = "absent"
          /\ row'[d].status = "absent" \/ row[d].status # "absent" \/ NoneComes(rest, d)
          /\ row'[d].status \in Active => row[d].status \in Active \/ NoneWaits(rest, acts, d)
    BY <1>2, <1>4, <1>5, <1>6
  <2> QED
    BY <1>2, <1>6, <2>1, <2>2, <2>3, RowsKeep
<1>8. Kernel(h, now', acts, row', pledge) /\ NoneWaits(h, acts, c)
  <2>1. CASE h = rest
    BY <1>5, <1>7, <2>1
  <2>2. ASSUME NEW d \in OrganicDelays, h = PushInHorizon(rest, Event(now' + d, "organic", c))
        PROVE  Kernel(h, now', acts, row', pledge) /\ NoneWaits(h, acts, c)
    <3> DEFINE e == Event(now' + d, "organic", c)
    <3>1. /\ now' + d \in Nat /\ now' <= now' + d
          /\ "organic" \in Kind /\ c \in Case \cup Nat
      <4>1. d \in Nat
        BY <2>2, Parameters
      <4>2. now' + d \in Nat /\ now' <= now' + d
        BY <1>2, <4>1, NoSooner
      <4> QED
        BY <1>2, <4>2 DEF Kind
    <3>2. /\ e \in EventRow /\ e.at = now' + d /\ e.kind = "organic" /\ e.subject = c
      BY <3>1, EventType
    <3> HIDE DEF e
    <3>3. ~Awaits(e, acts, c)
      BY <3>2 DEF Awaits
    <3>4. /\ Kernel(Push(rest, e), now', acts, row', pledge)
          /\ NoneWaits(Push(rest, e), acts, c)
      BY <1>2, <1>5, <1>7, <3>1, <3>2, <3>3, PushKeeps
    <3>5. h = rest \/ h = Push(rest, e)
      BY <2>2 DEF PushInHorizon, e
    <3> QED
      BY <1>5, <1>7, <3>4, <3>5
  <2> QED
    BY <2>1, <2>2
<1>9. Kernel(heap', now', acts', row', pledge)
  BY <1>2, <1>3, <1>4, <1>6, <1>8, FS_EmptySet, PlanKeeps
<1>10. RowStep
  BY <1>1, <1>2, <1>4 DEF RowStep, Opens, r
<1> QED
  BY <1>1, <1>9, <1>10 DEF EngineInv, Answering

(* The action popped, and its case.                                        *)
LEMMA DueFacts ==
  ASSUME EngineInv, Pops("action_due")
  PROVE  /\ Kernel(Tail(heap), now', Visited, row, pledge)
         /\ now' \in Nat /\ now <= now' /\ now' = Head(heap).at
         /\ Due \in DOMAIN acts /\ DueCase \in Case /\ DueType \in ActionType
         /\ Due \in DOMAIN Visited /\ Visited[Due].case = DueCase
         /\ Visited[Due].type = DueType
         /\ row[DueCase].status \in Active => Visited[Due].status = "scheduled"
         /\ NoneWaits(Tail(heap), Visited, DueCase)
         /\ sent = 0 /\ review = {} /\ stage = "replay"
         /\ row[DueCase].status # "absent"
<1>1. /\ Kernel(heap, now, acts, row, pledge) /\ heap # <<>>
      /\ Head(heap).kind = "action_due" /\ now' = Head(heap).at
      /\ sent = 0 /\ review = {} /\ stage = "replay"
  BY DEF EngineInv, Pops, Idle
<1>2. /\ Kernel(Tail(heap), now', acts, row, pledge) /\ now' \in Nat /\ now <= now'
      /\ Due \in DOMAIN acts /\ NoneWaits(Tail(heap), acts, DueCase)
  BY <1>1, PopKeeps DEF Due, DueCase
<1>3. /\ acts[Due] \in ActionRow /\ DueCase \in Case /\ DueType \in ActionType
  BY <1>1, <1>2, TableFacts DEF DueCase, DueType, Kernel, Typed
<1>4. row[DueCase].status \in Active => acts[Due].status = "scheduled"
  <2>1. 1 \in DOMAIN heap /\ Head(heap) = heap[1]
    BY <1>1, TailFacts DEF Kernel, Typed
  <2>2. Awaits(heap[1], acts, DueCase)
    BY <1>1, <2>1 DEF Awaits, DueCase, Due
  <2> QED
    BY <1>1, <1>3, <2>1, <2>2 DEF Kernel, WaitsScheduled, Due
<1>5. row[DueCase].status # "absent"
  BY <1>1, <1>2 DEF Kernel, Known, DueCase
<1> DEFINE new == [acts[Due] EXCEPT !.visits = acts[Due].visits + 1]
<1>6. /\ new \in ActionRow /\ new.case = acts[Due].case /\ new.type = acts[Due].type
      /\ new.status = acts[Due].status
  BY <1>3 DEF ActionRow
<1>7. Visited = [acts EXCEPT ![Due] = new]
  BY DEF Visited
<1> HIDE DEF new
<1>8. /\ Kernel(Tail(heap), now', Visited, row, pledge)
      /\ DOMAIN Visited = DOMAIN acts /\ Visited[Due] = new
      /\ NoneWaits(Tail(heap), Visited, DueCase)
  BY <1>2, <1>3, <1>6, <1>7, MarkKeeps
<1> QED
  BY <1>1, <1>2, <1>3, <1>4, <1>5, <1>6, <1>8 DEF DueCase, DueType

LEMMA DueMarked ==
  ASSUME EngineInv, Pops("action_due"), NEW status \in {"executed", "blocked", "deferred"}
  PROVE  /\ Kernel(Tail(heap), now', SetStatus(Visited, Due, status), row, pledge)
         /\ NoneWaits(Tail(heap), SetStatus(Visited, Due, status), DueCase)
         /\ Due \in DOMAIN SetStatus(Visited, Due, status)
         /\ SetStatus(Visited, Due, status)[Due].case = DueCase
         /\ SetStatus(Visited, Due, status)[Due].type = DueType
<1>1. /\ Kernel(Tail(heap), now', Visited, row, pledge)
      /\ Due \in DOMAIN Visited /\ Visited[Due].case = DueCase /\ DueCase \in Case
      /\ Visited[Due].type = DueType
      /\ NoneWaits(Tail(heap), Visited, DueCase)
  BY DueFacts
<1>2. Visited[Due] \in ActionRow
  BY <1>1, TableFacts DEF Kernel, Typed
<1> DEFINE new == [Visited[Due] EXCEPT !.status = status]
<1>3. new \in ActionRow /\ new.case = Visited[Due].case /\ new.type = Visited[Due].type
  BY <1>2 DEF ActionRow
<1>4. SetStatus(Visited, Due, status) = [Visited EXCEPT ![Due] = new]
  BY DEF SetStatus
<1> DEFINE old == Visited
           g == Tail(heap)
           t == now'
           marked == [old EXCEPT ![Due] = new]
<1> HIDE DEF new, old, g, t
<1>5. /\ Kernel(g, t, marked, row, pledge) /\ DOMAIN marked = DOMAIN old
      /\ marked[Due] = new
      /\ \A c \in Case : NoneWaits(g, old, c) => NoneWaits(g, marked, c)
  <2>1. /\ Kernel(g, t, old, row, pledge) /\ Due \in DOMAIN old
        /\ NoneWaits(g, old, old[Due].case)
        /\ new \in ActionRow /\ new.case = old[Due].case /\ new.type = old[Due].type
    BY <1>1, <1>3 DEF old, g, t
  <2> QED
    BY <2>1, MarkKeeps
<1> QED
  BY <1>1, <1>3, <1>4, <1>5 DEF old, g, t

LEMMA DropsKeeps == ASSUME EngineInv, Drops PROVE EngineInv' /\ RowStep
<1>1. Kernel(heap', now', acts', row', pledge')
  BY DueFacts DEF Drops
<1> QED
  BY <1>1, DueFacts DEF Drops, EngineInv, Answering, RowStep

LEMMA BlocksKeeps == ASSUME EngineInv, Blocks PROVE EngineInv' /\ RowStep
<1>1. Pops("action_due")
  BY DEF Blocks, AtGate
<1>2. Kernel(heap', now', acts', row', pledge')
  BY <1>1, DueMarked DEF Blocks
<1> QED
  BY <1>1, <1>2, DueFacts DEF Blocks, AtGate, EngineInv, Answering, RowStep

LEMMA ChecksPromiseKeeps == ASSUME EngineInv, ChecksPromise PROVE EngineInv' /\ RowStep
<1> DEFINE table == SetStatus(Visited, Due, "executed")
<1>1. Pops("action_due") /\ PlanAndPush(DueCase, row[DueCase], now', table, Tail(heap))
  BY DEF ChecksPromise
<1>2. DueCase \in Case /\ row[DueCase].status # "absent" /\ sent = 0 /\ review = {} /\ stage = "replay"
  BY <1>1, DueFacts
<1>3. row[DueCase] \in CaseFields /\ IsFiniteSet(row[DueCase].attempts)
  BY <1>2, RowFacts
<1>4. Kernel(Tail(heap), now', table, row, pledge) /\ NoneWaits(Tail(heap), table, DueCase)
  BY <1>1, DueMarked
<1> HIDE DEF table
<1>5. Kernel(heap', now', acts', row, pledge)
  BY <1>1, <1>2, <1>3, <1>4, PlanKeeps
<1> QED
  BY <1>2, <1>5 DEF ChecksPromise, EngineInv, Answering, RowStep

(* The instant a deferral names is ahead.                                  *)
LEMMA QuietOpensLater ==
  ASSUME NEW t \in Nat
  PROVE  NextQuietHoursOpen(t) \in Nat /\ t <= NextQuietHoursOpen(t)
<1>1. MinuteOfDay(t) \in 0 .. 1439
  BY DEF MinuteOfDay, IstOffset, Day, Hour
<1> DEFINE m == MinuteOfDay(t)
           opens == t - m + QuietEnd * Hour
<1>2. opens \in Int /\ opens + Day > t
  <2>1. QuietEnd \in 0 .. 24
    BY PolicyAssumption
  <2> DEFINE q == QuietEnd * Hour
  <2>2. q \in Nat
    BY <2>1 DEF Hour
  <2>3. m \in 0 .. 1439
    BY <1>1
  <2>4. opens = t - m + q
    OBVIOUS
  <2>5. Day = 1440
    BY DEF Day, Hour
  <2> HIDE DEF m, q, opens
  <2> QED
    BY <2>2, <2>3, <2>4, <2>5
<1>3. \/ NextQuietHoursOpen(t) = t
      \/ t < opens /\ NextQuietHoursOpen(t) = opens
      \/ NextQuietHoursOpen(t) = opens + Day
  BY DEF NextQuietHoursOpen
<1> HIDE DEF opens
<1> QED
  BY <1>2, <1>3 DEF Day, Hour

LEMMA DeferralAhead ==
  ASSUME NEW r \in CaseFields, NEW t \in Nat, NEW contact, NEW money,
         \A u \in r.attempts : u <= t,
         Evaluate(r, t, contact, money).at # NoTime
  PROVE  Evaluate(r, t, contact, money).at \in Nat /\ t <= Evaluate(r, t, contact, money).at
<1> DEFINE at == Evaluate(r, t, contact, money).at
<1>1. \/ at = t + NoticeDelay
      \/ CoolingDown(r, t) /\ at = LastAttempt(r) + Cooldown
      \/ at = NextQuietHoursOpen(t)
  BY DEF Evaluate, Block, Defer, Execute
<1>2. CASE at = t + NoticeDelay
  BY <1>2 DEF NoticeDelay, Hour
<1>3. CASE CoolingDown(r, t) /\ at = LastAttempt(r) + Cooldown
  <2>1. r.attempts \subseteq Nat /\ Cooldown \in Nat
    BY PolicyAssumption DEF CaseFields
  <2>2. PICK u \in r.attempts : t < u + Cooldown
    BY <1>3 DEF CoolingDown
  <2>3. \E l \in r.attempts : \A v \in r.attempts : v <= l
    BY <2>1, <2>2, GreatestNatural
  <2>7. LastAttempt(r) \in r.attempts /\ \A v \in r.attempts : v <= LastAttempt(r)
    BY <2>3 DEF LastAttempt
  <2>8. LastAttempt(r) \in Nat /\ u \in Nat /\ u <= LastAttempt(r)
    BY <2>1, <2>7
  <2> QED
    BY <1>3, <2>1, <2>2, <2>8
<1>4. CASE at = NextQuietHoursOpen(t)
  BY <1>4, QuietOpensLater
<1> QED
  BY <1>1, <1>2, <1>3, <1>4

LEMMA DefersKeeps == ASSUME EngineInv, Defers PROVE EngineInv' /\ RowStep
<1> DEFINE new == [row[DueCase] EXCEPT !.notice = row[DueCase].notice \/ Gate.reason = "rbi_notice"]
<1>1. /\ Pops("action_due") /\ row[DueCase].status \in Active
      /\ DueType # "check_promise" /\ row' = [row EXCEPT ![DueCase] = new]
      /\ UNCHANGED <<pledge, sent, review, stage>>
  BY DEF Defers, AtGate, Handled
<1>2. /\ Kernel(Tail(heap), now', Visited, row, pledge)
      /\ now' \in Nat /\ now <= now' /\ now' = Head(heap).at
      /\ DueCase \in Case /\ Due \in DOMAIN acts
      /\ Due \in DOMAIN Visited /\ Visited[Due].case = DueCase
      /\ Visited[Due].type = DueType /\ Visited[Due].status = "scheduled"
      /\ NoneWaits(Tail(heap), Visited, DueCase)
      /\ sent = 0 /\ review = {} /\ stage = "replay"
  BY <1>1, DueFacts
<1>3. /\ row[DueCase] \in CaseFields
      /\ \A u \in row[DueCase].attempts : u \in Nat /\ u <= now
      /\ now \in Nat
  BY <1>2, RowFacts
<1>4. \A u \in row[DueCase].attempts : u <= now'
  BY <1>2, <1>3
<1>5. /\ new \in CaseFields /\ new.status = row[DueCase].status
      /\ new.attempts = row[DueCase].attempts
      /\ new.created = row[DueCase].created /\ new.optedOut = row[DueCase].optedOut
  BY <1>3 DEF CaseFields
<1> HIDE DEF new
<1>6. RowStep
  <2>1. SameView(row[DueCase], new)
    BY <1>1, <1>5 DEF SameView, PhaseOf, Active, Closed
  <2> QED
    BY <1>1, <1>2, <1>5, <2>1 DEF RowStep
<1>7. \A h, table : Kernel(h, now', table, row, pledge) => Kernel(h, now', table, row', pledge)
  <2> TAKE h, table
  <2>1. row[DueCase].status # "absent"
    BY <1>1 DEF Active
  <2> QED
    BY <1>1, <1>2, <1>4, <1>5, <2>1, RowKeeps
<1>8. Kernel(heap', now', acts', row, pledge)
  <2>1. CASE Gate.at = NoTime
    <3>1. heap' = Tail(heap) /\ acts' = SetStatus(Visited, Due, "deferred")
      BY <2>1 DEF Defers
    <3> QED
      BY <1>1, <3>1, DueMarked
  <2>2. CASE Gate.at # NoTime
    <3> DEFINE e == Event(Gate.at, "action_due", Due)
    <3>1. heap' = Push(Tail(heap), e) /\ acts' = Visited
      BY <2>2 DEF Defers
    <3>2. Gate.at \in Nat /\ now' <= Gate.at
      BY <1>2, <1>3, <1>4, <2>2, DeferralAhead DEF Gate
    <3>3. Due \in Case \cup Nat /\ "action_due" \in Kind
      <4>1. acts \in Seq(ActionRow)
        BY DEF EngineInv, Kernel, Typed
      <4>2. Due \in Nat
        BY <1>2, <4>1, TableFacts
      <4> QED
        BY <4>2 DEF Kind
    <3>4. e \in EventRow /\ e.at = Gate.at /\ e.kind = "action_due" /\ e.subject = Due
      BY <3>2, <3>3, EventType
    <3> HIDE DEF e
    <3> QED
      BY <1>1, <1>2, <3>1, <3>2, <3>4, PushKeeps
  <2> QED
    BY <2>1, <2>2
<1>9. Kernel(heap', now', acts', row', pledge')
  BY <1>1, <1>7, <1>8
<1> QED
  BY <1>1, <1>2, <1>6, <1>9 DEF EngineInv, Answering

LEMMA ExecutesKeeps == ASSUME EngineInv, Executes PROVE EngineInv' /\ RowStep
<1> DEFINE r == row[DueCase]
           new == Attempted(r, DueType, now')
<1>1. /\ Pops("action_due") /\ r.status \in Active /\ DueType # "check_promise"
      /\ Gate.decision = "execute"
      /\ row' = [row EXCEPT ![DueCase] = new]
      /\ acts' = SetStatus(Visited, Due, "executed") /\ heap' = Tail(heap)
      /\ sent' = Due /\ UNCHANGED <<pledge, review, stage>>
  BY DEF Executes, AtGate, Handled
<1>2. /\ now' \in Nat /\ now <= now' /\ now' = Head(heap).at
      /\ DueCase \in Case /\ Due \in DOMAIN acts /\ DueType \in ActionType
      /\ sent = 0 /\ review = {} /\ stage = "replay"
  BY <1>1, DueFacts
<1>3. /\ Kernel(heap', now', acts', row, pledge)
      /\ NoneWaits(heap', acts', DueCase)
      /\ Due \in DOMAIN acts' /\ acts'[Due].case = DueCase
  BY <1>1, DueMarked
<1>4. /\ r \in CaseFields /\ now \in Nat
      /\ \A u \in r.attempts : u \in Nat /\ u <= now
  BY <1>2, RowFacts
<1>5. /\ new \in CaseFields /\ new.status = "scheduled"
      /\ new.created = r.created /\ new.optedOut = r.optedOut
      /\ \/ CountsAsAttempt(DueType) /\ new.attempts = r.attempts \cup {now'}
         \/ new.attempts = r.attempts
  BY <1>2, <1>4 DEF Attempted, CaseFields, Active
<1>6. Evaluate(r, now', IsContact(DueType), IsMoney(DueType)).decision = "execute"
  BY <1>1, <1>2 DEF Gate
<1>7. /\ ~r.optedOut /\ ~(AttemptsInWindow(r, now') >= MaxAttempts)
      /\ ~CoolingDown(r, now') /\ ~(now' >= r.created + CaseExpiry)
  BY <1>6, GateExecutes
<1> HIDE DEF r, new
<1>8. RowStep
  <2>1. SameView(r, new) \/ Counts(r, new, now')
    BY <1>1, <1>5, <1>7 DEF SameView, Counts, PhaseOf, Active, Closed
  <2> QED
    BY <1>1, <1>2, <1>5, <2>1 DEF RowStep, r
<1>9. Kernel(heap', now', acts', row', pledge') /\ row'[DueCase].status \in Active
  <2>1. \A u \in new.attempts : u <= now'
    BY <1>2, <1>4, <1>5
  <2>2. row[DueCase].status # "absent" /\ row[DueCase].status \in Active
        /\ new.status # "absent" /\ new.status \in Active
    BY <1>1, <1>5 DEF Active, r
  <2>3. /\ Kernel(heap', now', acts', [row EXCEPT ![DueCase] = new], pledge)
        /\ [row EXCEPT ![DueCase] = new][DueCase] = new
    <3> DEFINE g == heap'
               t == now'
               table == acts'
    <3>1. Kernel(g, t, table, row, pledge) /\ \A u \in new.attempts : u <= t
      BY <1>3, <2>1
    <3> HIDE DEF g, t, table
    <3>2. /\ Kernel(g, t, table, [row EXCEPT ![DueCase] = new], pledge)
          /\ [row EXCEPT ![DueCase] = new][DueCase] = new
      BY <1>2, <1>5, <2>2, <3>1, RowKeeps
    <3> QED
      BY <3>2 DEF g, t, table
  <2> QED
    BY <1>1, <2>2, <2>3
<1>10. Due \in Nat
  <2>1. acts \in Seq(ActionRow)
    BY DEF EngineInv, Kernel, Typed
  <2> QED
    BY <1>2, <2>1, TableFacts
<1>11. Answering'
  BY <1>1, <1>2, <1>3, <1>9 DEF Answering
<1> QED
  BY <1>1, <1>2, <1>8, <1>9, <1>10, <1>11 DEF EngineInv

(* The world answers for an active case that awaits nothing.               *)
LEMMA SentFacts ==
  ASSUME EngineInv, sent # 0
  PROVE  /\ Kernel(heap, now, acts, row, pledge) /\ now \in Nat
         /\ sent \in DOMAIN acts /\ SentCase \in Case
         /\ row[SentCase].status \in Active /\ row[SentCase] \in CaseFields
         /\ NoneWaits(heap, acts, SentCase)
         /\ review = {} /\ stage = "replay"
         /\ IsFiniteSet(row[SentCase].attempts)
         /\ \A u \in row[SentCase].attempts : u <= now
<1>1. /\ Kernel(heap, now, acts, row, pledge) /\ sent \in DOMAIN acts
      /\ row[SentCase].status \in Active /\ NoneWaits(heap, acts, SentCase)
      /\ review = {} /\ stage = "replay"
  BY DEF EngineInv, Answering, SentCase
<1>2. SentCase \in Case
  BY <1>1, TableFacts DEF Kernel, Typed, SentCase
<1> QED
  BY <1>1, <1>2, RowFacts

LEMMA EndingAnswers ==
  ASSUME EngineInv, sent # 0, sent' = 0,
         NEW new, new = Recovered(row[SentCase]) \/ new = WrittenOff(row[SentCase]),
         row' = [row EXCEPT ![SentCase] = new], acts' = Superseded(acts, SentCase),
         UNCHANGED <<heap, now, pledge, review, stage>>
  PROVE  EngineInv' /\ RowStep
<1>1. /\ SentCase \in Case /\ review = {} /\ stage = "replay"
      /\ Kernel(heap, now, acts, row, pledge) /\ row[SentCase].status \in Active
  BY SentFacts
<1> DEFINE c == SentCase
<1>2. /\ new \in CaseFields /\ Ends(row[c], new)
      /\ Kernel(heap, now, Superseded(acts, c), [row EXCEPT ![c] = new], pledge)
  <2>1. /\ c \in Case /\ Kernel(heap, now, acts, row, pledge)
        /\ row[c].status \in Active
        /\ new = Recovered(row[c]) \/ new = WrittenOff(row[c])
    BY <1>1
  <2> HIDE DEF c
  <2>2. new \in CaseFields /\ Ends(row[c], new)
    BY <2>1, EndingKeeps
  <2>3. Kernel(heap, now, Superseded(acts, c), [row EXCEPT ![c] = new], pledge)
    BY <2>1, EndingKeeps
  <2> QED
    BY <2>2, <2>3
<1>3. Kernel(heap', now', acts', row', pledge')
  BY <1>2
<1> QED
  BY <1>1, <1>2, <1>3 DEF EngineInv, Answering, RowStep

LEMMA ClosesKeeps == ASSUME EngineInv, Closes PROVE EngineInv' /\ RowStep
  BY EndingAnswers DEF Closes, Answers

LEMMA PaysKeeps == ASSUME EngineInv, Pays PROVE EngineInv' /\ RowStep
  BY EndingAnswers DEF Pays, Answers

LEMMA IgnoresKeeps == ASSUME EngineInv, Ignores PROVE EngineInv' /\ RowStep
<1>1. /\ sent # 0 /\ sent' = 0 /\ row' = [row EXCEPT ![SentCase] = row[SentCase]]
      /\ PlanAndPush(SentCase, row[SentCase], now, acts, heap)
      /\ UNCHANGED <<now, review, stage, pledge>>
  BY DEF Ignores, Answers
<1>2. /\ SentCase \in Case /\ review = {} /\ stage = "replay"
      /\ Kernel(heap, now, acts, row, pledge) /\ NoneWaits(heap, acts, SentCase)
      /\ row[SentCase] \in CaseFields /\ row[SentCase].status # "absent"
      /\ IsFiniteSet(row[SentCase].attempts)
  BY <1>1, SentFacts DEF Active
<1>3. row' = row
  BY <1>1, <1>2, RowFacts
<1>4. Kernel(heap', now, acts', row, pledge)
  BY <1>1, <1>2, PlanKeeps
<1> QED
  BY <1>1, <1>2, <1>3, <1>4 DEF EngineInv, Answering, RowStep

-----------------------------------------------------------------------------
(* The instants                                                            *)

(* Finitely many naturals are bounded: a least prefix that is not would    *)
(* have a bound for all but its last.                                      *)
LEMMA FinitelyManyBounded ==
  ASSUME NEW n \in Nat, NEW f, \A i \in 1 .. n : f[i] \in Nat
  PROVE  \E b \in Nat : \A i \in 1 .. n : f[i] <= b
<1> DEFINE Bounded(m) == \E b \in Nat : \A i \in 1 .. m : f[i] <= b
           bad == {m \in 0 .. n : ~Bounded(m)}
<1>1. Bounded(0)
  BY 0 \in Nat
<1>2. ASSUME NEW m \in 1 .. n, Bounded(m - 1) PROVE Bounded(m)
  <2>1. PICK b \in Nat : \A i \in 1 .. m - 1 : f[i] <= b
    BY <1>2
  <2>2. f[m] \in Nat
    OBVIOUS
  <2>3. PICK more \in Nat : b <= more /\ f[m] <= more
    BY <2>2
  <2>4. \A i \in 1 .. m : f[i] <= more
    <3> TAKE i \in 1 .. m
    <3>1. f[i] \in Nat /\ (i \in 1 .. m - 1 \/ i = m)
      OBVIOUS
    <3> QED
      BY <2>1, <2>2, <2>3, <3>1
  <2> QED
    BY <2>4
<1> HIDE DEF Bounded
<1>3. bad = {}
  <2> SUFFICES ASSUME bad # {} PROVE FALSE
    OBVIOUS
  <2>1. PICK m \in bad : \A k \in bad : m <= k
    <3>1. bad \subseteq Nat
      OBVIOUS
    <3> HIDE DEF bad
    <3> QED
      BY <3>1, LeastNatural
  <2>2. m \in 1 .. n /\ m - 1 \in 0 .. n /\ ~Bounded(m)
    BY <1>1, <2>1
  <2>3. Bounded(m - 1)
    BY <2>1, <2>2
  <2> QED
    BY <1>2, <2>2, <2>3
<1>4. Bounded(n)
  BY <1>3
<1> QED
  BY <1>4 DEF Bounded

LEMMA FailureTimes ==
  /\ Start \in Nat /\ HorizonEnd \in Int
  /\ \A c \in Case : Start <= FailedAt[c]
<1> DEFINE times == {FailedAt[c] : c \in Case}
           n == Len(Batch)
<1>1. /\ n \in Nat /\ n > 0 /\ Case = {Batch[i] : i \in 1 .. n}
      /\ \A i \in 1 .. n : Batch[i] \in Case
  <2>1. Batch \in Seq(Case) /\ Batch # <<>>
    BY EngineAssumption
  <2>2. n \in Nat /\ DOMAIN Batch = 1 .. n /\ \A i \in 1 .. n : Batch[i] \in Case
    BY <2>1, LenProperties, ElementOfSeq
  <2>3. n > 0
    BY <2>1, <2>2, EmptySeq
  <2> QED
    BY <2>2, <2>3 DEF Case, ToSet
<1>2. times \subseteq Nat /\ times # {}
  <2>1. Batch[1] \in Case
    BY <1>1
  <2>2. \A c \in Case : FailedAt[c] \in Nat
    BY Parameters
  <2> QED
    BY <2>1, <2>2
<1>3. \E b \in Nat : \A i \in 1 .. n : FailedAt[Batch[i]] <= b
  <2> DEFINE f == [i \in 1 .. n |-> FailedAt[Batch[i]]]
  <2>1. \A i \in 1 .. n : f[i] \in Nat
    BY <1>1, Parameters
  <2>2. \A i \in 1 .. n : f[i] = FailedAt[Batch[i]]
    OBVIOUS
  <2> HIDE DEF f
  <2>3. \E b \in Nat : \A i \in 1 .. n : f[i] <= b
    BY <1>1, <2>1, FinitelyManyBounded
  <2> QED
    BY <2>2, <2>3
<1>4. PICK b \in Nat : \A u \in times : u <= b
  <2>1. PICK b \in Nat : \A i \in 1 .. n : FailedAt[Batch[i]] <= b
    BY <1>3
  <2>2. \A u \in times : u <= b
    BY <1>1, <2>1
  <2> QED
    BY <2>2
<1> HIDE DEF times
<1>5. \E t \in times : \A u \in times : t <= u
  BY <1>2, LeastNatural
<1>6. \E t \in times : \A u \in times : u <= t
  BY <1>2, <1>4, GreatestNatural
<1>7. Start \in times /\ \A c \in Case : Start <= FailedAt[c]
  BY <1>5 DEF Start, times
<1>8. Latest \in times
  <2>1. \E t \in times : \A u \in times : t >= u
    BY <1>2, <1>6
  <2> QED
    BY <2>1 DEF Latest, times
<1>9. HorizonEnd \in Int
  BY <1>2, <1>8, Parameters DEF HorizonEnd, Day, Hour
<1> QED
  BY <1>2, <1>7, <1>9

(* A promise kept is paid before it is checked.                            *)
LEMMA PromiseTimes ==
  ASSUME NEW t \in Nat, NEW days \in PromiseDays
  PROVE  LET due == PromiseDue(t, days)
         IN  /\ due \in Nat /\ due + PromiseGrace \in Nat /\ t <= due + PromiseGrace
             /\ PayAt(t, due) \in Nat /\ t <= PayAt(t, due)
             /\ PayAt(t, due) < due + PromiseGrace
<1> DEFINE due == PromiseDue(t, days)
           m == MinuteOfDay(t)
<1>1. m \in 0 .. 1439
  BY DEF MinuteOfDay, IstOffset, Day, Hour
<1>2. days \in 1 .. 7
  BY Parameters
<1>3. due = t - m + days * 1440 + 1080
  BY DEF PromiseDue, Day, Hour
<1> HIDE DEF m, due
<1>4. due \in Nat /\ due > t + 30
  BY <1>1, <1>2, <1>3
<1>5. PromiseGrace = 360
  BY DEF PromiseGrace, Hour
<1>6. PayAt(t, due) = IF t + 30 > due - 120 THEN t + 30 ELSE due - 120
  BY DEF PayAt, Hour
<1>7. /\ due \in Nat /\ due + PromiseGrace \in Nat /\ t <= due + PromiseGrace
      /\ PayAt(t, due) \in Nat /\ t <= PayAt(t, due)
      /\ PayAt(t, due) < due + PromiseGrace
  BY <1>4, <1>5, <1>6
<1> QED
  BY <1>7 DEF due

(* A promise is given, by the rows known so far: the actions of its case   *)
(* are superseded, its check is scheduled, and the payment of a customer   *)
(* who keeps it before that.  The pledge is forgotten first and put in     *)
(* place last.                                                             *)
LEMMA GivenKeeps ==
  ASSUME NEW h, NEW t, NEW table, NEW rows, NEW pl, NEW c \in Case, NEW p \in Pledges,
         NEW payAt \in Nat, NEW checkAt \in Nat,
         Kernel(h, t, table, rows, pl), rows[c].status # "absent", NoneWaits(h, table, c),
         t <= payAt, t <= checkAt, payAt < checkAt
  PROVE  LET more == Append(Superseded(table, c), Saved(c, "check_promise"))
             checked == PushInHorizon(h, Event(checkAt, "action_due", Len(more)))
             paid == PushInHorizon(checked, Event(payAt, "promise_paid", c))
         IN  Kernel(IF p.keeps THEN paid ELSE checked, t, more, rows, [pl EXCEPT ![c] = {p}])
<1> DEFINE table2 == Superseded(table, c)
           more == Append(table2, Saved(c, "check_promise"))
           a == Len(more)
           check == Event(checkAt, "action_due", a)
           pay == Event(payAt, "promise_paid", c)
           checked == PushInHorizon(h, check)
           paid == PushInHorizon(checked, pay)
           pl0 == [pl EXCEPT ![c] = {}]
           pl2 == [pl EXCEPT ![c] = {p}]
<1>1. /\ pl \in [Case -> SUBSET Pledges] /\ table \in Seq(ActionRow)
      /\ pl0 \in [Case -> SUBSET Pledges] /\ pl2 \in [Case -> SUBSET Pledges]
      /\ \A d \in Case : Keeps(pl0, d) => d # c /\ Keeps(pl, d)
      /\ \A d \in Case : Keeps(pl2, d) => IF d = c THEN p.keeps ELSE Keeps(pl0, d)
  <2>1. pl \in [Case -> SUBSET Pledges] /\ table \in Seq(ActionRow)
    BY DEF Kernel, Typed
  <2> HIDE DEF Pledges
  <2> QED
    BY <2>1 DEF Keeps
<1> HIDE DEF pl0, pl2
<1>2. Kernel(h, t, table, rows, pl0)
  BY <1>1, PledgeKeeps
<1>3. Kernel(h, t, table2, rows, pl0) /\ NoneWaits(h, table2, c)
  BY <1>2, SupersedingKeeps
<1> HIDE DEF table2
<1>4. /\ Kernel(h, t, more, rows, pl0) /\ NoneWaits(h, more, c)
      /\ Len(table2) + 1 \in DOMAIN more /\ more[Len(table2) + 1] = Saved(c, "check_promise")
  <2> DEFINE type == "check_promise"
             saved == Append(table2, Saved(c, type))
  <2>1. type \in ActionType
    BY DEF ActionType
  <2> HIDE DEF type
  <2>2. /\ Kernel(h, t, saved, rows, pl0)
        /\ Len(table2) + 1 \in DOMAIN saved /\ saved[Len(table2) + 1] = Saved(c, type)
        /\ NoneWaits(h, saved, c)
    <3>1. Kernel(h, t, table2, rows, pl0) /\ rows[c].status # "absent"
      BY <1>3
    <3>2. Kernel(h, t, saved, rows, pl0)
      BY <2>1, <3>1, SavingKeeps
    <3>3. Len(table2) + 1 \in DOMAIN saved /\ saved[Len(table2) + 1] = Saved(c, type)
      BY <2>1, <3>1, SavingKeeps
    <3>4. \A d \in Case : NoneWaits(h, table2, d) => NoneWaits(h, saved, d)
      BY <2>1, <3>1, SavingKeeps
    <3> QED
      BY <1>3, <3>2, <3>3, <3>4
  <2>3. saved = more
    BY DEF type
  <2> HIDE DEF saved, more
  <2> QED
    BY <2>2, <2>3 DEF type
<1>5. a = Len(table2) + 1 /\ a \in Nat
  <2>1. table2 \in Seq(ActionRow)
    BY <1>3 DEF Kernel, Typed
  <2>2. Len(table2) \in Nat /\ Len(more) = Len(table2) + 1
    BY <2>1, LenProperties
  <2> QED
    BY <2>2
<1>6. /\ a \in DOMAIN more /\ more[a].case = c
      /\ more[a].status = "scheduled" /\ more[a].type = "check_promise"
  BY <1>4, <1>5 DEF Saved
<1>7. /\ check \in EventRow /\ check.at = checkAt /\ check.kind = "action_due"
      /\ check.subject = a
      /\ pay \in EventRow /\ pay.at = payAt /\ pay.kind = "promise_paid" /\ pay.subject = c
  <2>1. a \in Case \cup Nat /\ c \in Case \cup Nat /\ "action_due" \in Kind /\ "promise_paid" \in Kind
    BY <1>5 DEF Kind
  <2> HIDE DEF a
  <2> QED
    BY <2>1, EventType
<1> HIDE DEF more, a, check, pay
<1>8. /\ Kernel(Push(h, check), t, more, rows, pl0)
      /\ \A i \in DOMAIN Push(h, check) :
           Push(h, check)[i] = check \/ \E j \in DOMAIN h : Push(h, check)[i] = h[j]
  <2>1. ~Keeps(pl0, c)
    BY <1>1
  <2>2. /\ check.kind = "action_due" /\ check.subject \in DOMAIN more
        /\ NoneWaits(h, more, more[check.subject].case)
        /\ more[check.subject].status = "scheduled"
        /\ more[check.subject].type = "check_promise" => ~Keeps(pl0, more[check.subject].case)
    BY <1>4, <1>6, <1>7, <2>1
  <2>3. Kernel(h, t, more, rows, pl0) /\ check \in EventRow /\ t <= check.at
    BY <1>4, <1>7
  <2>4. Kernel(Push(h, check), t, more, rows, pl0)
    BY <2>2, <2>3, PushKeeps
  <2>5. \A i \in DOMAIN Push(h, check) :
          Push(h, check)[i] = check \/ \E j \in DOMAIN h : Push(h, check)[i] = h[j]
    BY <2>2, <2>3, PushKeeps
  <2> QED
    BY <2>4, <2>5
<1>9. /\ Kernel(checked, t, more, rows, pl0)
      /\ \A i \in DOMAIN checked :
           Awaits(checked[i], more, c) => checked[i] = check /\ checkAt <= HorizonEnd
  <2>1. CASE checkAt <= HorizonEnd
    <3>1. checked = Push(h, check)
      BY <1>7, <2>1 DEF PushInHorizon
    <3> HIDE DEF checked
    <3> QED
      BY <1>4, <1>8, <2>1, <3>1 DEF NoneWaits
  <2>2. CASE ~(checkAt <= HorizonEnd)
    BY <1>4, <1>7, <2>2 DEF PushInHorizon, NoneWaits
  <2> QED
    BY <2>1, <2>2
<1> HIDE DEF checked
<1>10. CASE ~p.keeps
  <2>1. \A d \in Case : Keeps(pl2, d) => Keeps(pl0, d)
    BY <1>1, <1>10
  <2>2. Kernel(checked, t, more, rows, pl2)
    BY <1>1, <1>9, <2>1, PledgeKeeps
  <2> QED
    BY <1>10, <2>2 DEF checked, check, a, more, table2, pl2
<1>11. CASE p.keeps
  <2>1. Kernel(paid, t, more, rows, pl0)
    BY <1>7, <1>9, PushKeeps DEF PushInHorizon
  <2>2. ASSUME NEW i \in DOMAIN paid, Awaits(paid[i], more, c)
        PROVE  PaysBefore(paid, c, paid[i].at)
    <3>1. ASSUME payAt <= HorizonEnd PROVE PaysBefore(paid, c, paid[i].at)
      <4>1. paid = Push(checked, pay)
        BY <1>7, <3>1 DEF PushInHorizon
      <4>2. /\ \E j \in DOMAIN paid : paid[j] = pay
            /\ paid[i] = pay \/ \E j \in DOMAIN checked : paid[i] = checked[j]
        BY <1>7, <1>9, <2>2, <4>1, PushKeeps
      <4> HIDE DEF paid
      <4>3. paid[i] = check
        BY <1>7, <1>9, <2>2, <4>2 DEF Awaits
      <4> QED
        BY <1>7, <4>2, <4>3 DEF PaysBefore
    <3>2. ASSUME ~(payAt <= HorizonEnd) PROVE FALSE
      <4>1. paid = checked
        BY <1>7, <3>2 DEF PushInHorizon
      <4>2. checkAt <= HorizonEnd
        BY <1>9, <2>2, <4>1
      <4> QED
        BY <3>2, <4>2, FailureTimes
    <3> QED
      BY <3>1, <3>2
  <2> HIDE DEF paid
  <2>3. \A d \in Case : \A i \in DOMAIN paid :
          Keeps(pl2, d) /\ Awaits(paid[i], more, d)
            => Keeps(pl0, d) \/ PaysBefore(paid, d, paid[i].at)
    BY <1>1, <2>2
  <2>4. Kernel(paid, t, more, rows, pl2)
    BY <1>1, <2>1, <2>3, PledgeKeeps
  <2> QED
    BY <1>11, <2>4 DEF paid, pay, checked, check, a, more, table2, pl2
<1> QED
  BY <1>10, <1>11

LEMMA PromisesKeeps == ASSUME EngineInv, Promises PROVE EngineInv' /\ RowStep
<1> DEFINE c == SentCase
<1>1. /\ c \in Case /\ review = {} /\ stage = "replay" /\ now \in Nat
      /\ Kernel(heap, now, acts, row, pledge) /\ NoneWaits(heap, acts, c)
      /\ row[c] \in CaseFields /\ row[c].status \in Active
      /\ \A u \in row[c].attempts : u <= now
  BY SentFacts DEF Promises
<1>2. PICK p \in IF pledge[c] = {} THEN Pledges ELSE pledge[c] :
        LET due == PromiseDue(now, p.days)
            table == Append(Superseded(acts, c), Saved(c, "check_promise"))
            checked == PushInHorizon(heap,
                         Event(due + PromiseGrace, "action_due", Len(table)))
        IN  /\ Answers([row[c] EXCEPT !.promiseDue = due])
            /\ pledge' = [pledge EXCEPT ![c] = {p}]
            /\ acts' = table
            /\ heap' = IF p.keeps
                       THEN PushInHorizon(checked,
                              Event(PayAt(now, due), "promise_paid", c))
                       ELSE checked
  BY DEF Promises
<1>3. p \in Pledges /\ p.days \in PromiseDays
  <2>1. pledge[c] \subseteq Pledges
    BY <1>1 DEF Kernel, Typed
  <2> QED
    BY <1>2, <2>1 DEF Pledges
<1> DEFINE due == PromiseDue(now, p.days)
           payAt == PayAt(now, due)
           checkAt == due + PromiseGrace
           r == [row[c] EXCEPT !.promiseDue = due]
<1>4. /\ due \in Nat /\ checkAt \in Nat /\ now <= checkAt
      /\ payAt \in Nat /\ now <= payAt /\ payAt < checkAt
  BY <1>1, <1>3, PromiseTimes
<1>5. /\ sent' = 0 /\ row' = [row EXCEPT ![c] = r]
      /\ UNCHANGED <<now, review, stage>>
  BY <1>2 DEF Answers
<1>6. LET table == Append(Superseded(acts, c), Saved(c, "check_promise"))
          checked == PushInHorizon(heap, Event(checkAt, "action_due", Len(table)))
      IN  /\ pledge' = [pledge EXCEPT ![c] = {p}]
          /\ acts' = table
          /\ heap' = IF p.keeps
                     THEN PushInHorizon(checked, Event(payAt, "promise_paid", c))
                     ELSE checked
  BY <1>2
<1> HIDE DEF checkAt, payAt, c
<1>7. /\ r \in CaseFields /\ r.status = row[c].status /\ r.attempts = row[c].attempts
      /\ r.created = row[c].created /\ r.optedOut = row[c].optedOut
  <2> HIDE DEF due
  <2> QED
    BY <1>1, <1>4 DEF CaseFields
<1> HIDE DEF r, due
<1>8. Kernel(heap, now, acts, row', pledge) /\ row'[c].status # "absent"
  <2>1. row[c].status # "absent" /\ r.status # "absent"
    BY <1>1, <1>7 DEF Active
  <2>2. /\ r \in CaseFields /\ (r.status \in Active => row[c].status \in Active)
        /\ \A u \in r.attempts : u <= now
    BY <1>1, <1>7
  <2>3. /\ Kernel(heap, now, acts, [row EXCEPT ![c] = r], pledge)
        /\ [row EXCEPT ![c] = r][c] = r
    <3>1. Kernel(heap, now, acts, row, pledge) /\ c \in Case
      BY <1>1
    <3> HIDE DEF CaseFields
    <3>2. Kernel(heap, now, acts, [row EXCEPT ![c] = r], pledge)
      BY <2>1, <2>2, <3>1, RowKeeps
    <3>3. [row EXCEPT ![c] = r][c] = r
      BY <3>1, RowFacts
    <3> QED
      BY <3>2, <3>3
  <2> QED
    BY <1>5, <2>1, <2>3
<1>9. Kernel(heap', now, acts', row', pledge')
  <2> DEFINE table == Append(Superseded(acts, c), Saved(c, "check_promise"))
             checked == PushInHorizon(heap, Event(checkAt, "action_due", Len(table)))
             paid == PushInHorizon(checked, Event(payAt, "promise_paid", c))
             rows == row'
  <2>1. Kernel(heap, now, acts, rows, pledge) /\ rows[c].status # "absent"
    BY <1>8
  <2> HIDE DEF rows
  <2>2. Kernel(IF p.keeps THEN paid ELSE checked, now, table, rows,
               [pledge EXCEPT ![c] = {p}])
    BY <1>1, <1>3, <1>4, <2>1, GivenKeeps
  <2> QED
    BY <1>6, <2>2 DEF rows
<1>10. RowStep
  <2>1. SameView(row[c], r)
    BY <1>1, <1>7 DEF SameView, PhaseOf, Active, Closed
  <2> QED
    BY <1>1, <1>5, <1>7, <2>1 DEF RowStep
<1> QED
  BY <1>1, <1>5, <1>9, <1>10 DEF EngineInv, Answering

-----------------------------------------------------------------------------
(* The start                                                               *)

LEMMA SameInterval ==
  ASSUME NEW m \in Nat, NEW n \in Nat, 1 .. m = 1 .. n
  PROVE  m = n
<1>1. m > 0 => m \in 1 .. n
  BY m > 0 => m \in 1 .. m
<1>2. n > 0 => n \in 1 .. m
  BY n > 0 => n \in 1 .. n
<1> QED
  BY <1>1, <1>2

(* The events pushed before the loop: the payments of the batch, in order, *)
(* then the sweeps.                                                        *)
LEMMA FirstFacts ==
  /\ First \in Seq(EventRow) /\ Len(First) \in Nat
  /\ Len(Batch) \in Nat /\ Len(Batch) <= Len(First)
  /\ \A k \in 1 .. Len(Batch) :
       /\ Batch[k] \in Case
       /\ First[k].kind = "case_ingest" /\ First[k].subject = Batch[k]
  /\ \A n \in 1 .. Len(First) :
       /\ First[n] \in EventRow /\ Start <= First[n].at
       /\ n > Len(Batch) => First[n].kind = "sweep"
<1> DEFINE b == Len(Batch)
           count == (HorizonEnd - Start - 1) \div (6 * Hour)
           m == IF count > 0 THEN count ELSE 0
<1>1. /\ Start \in Nat /\ HorizonEnd \in Int /\ \A c \in Case : Start <= FailedAt[c]
      /\ FailedAt \in [Case -> Nat]
  BY FailureTimes, Parameters
<1>2. b \in Nat /\ DOMAIN Batch = 1 .. b /\ \A k \in 1 .. b : Batch[k] \in Case
  BY EngineAssumption, LenProperties, ElementOfSeq
<1>3. \A k \in 1 .. b :
        /\ Ingests[k] = Event(FailedAt[Batch[k]], "case_ingest", Batch[k])
        /\ Ingests[k] \in EventRow /\ Start <= Ingests[k].at
        /\ Ingests[k].kind = "case_ingest" /\ Ingests[k].subject = Batch[k]
  <2> SUFFICES ASSUME NEW k \in 1 .. b
              PROVE  LET e == Event(FailedAt[Batch[k]], "case_ingest", Batch[k])
                     IN  /\ e \in EventRow /\ Start <= e.at
                         /\ e.kind = "case_ingest" /\ e.subject = Batch[k]
    BY <1>2 DEF Ingests
  <2>1. /\ FailedAt[Batch[k]] \in Nat /\ Start <= FailedAt[Batch[k]]
        /\ Batch[k] \in Case \cup Nat /\ "case_ingest" \in Kind
    BY <1>1, <1>2 DEF Kind
  <2> QED
    BY <2>1, EventType
<1>4. Ingests \in [1 .. b -> EventRow]
  BY <1>2, <1>3 DEF Ingests
<1>5. Ingests \in Seq(EventRow) /\ Len(Ingests) = b
  <2>1. Ingests \in Seq(EventRow)
    BY <1>2, <1>4, SeqDef
  <2>2. Len(Ingests) \in Nat /\ DOMAIN Ingests = 1 .. Len(Ingests) /\ DOMAIN Ingests = 1 .. b
    BY <1>4, <2>1, LenProperties
  <2> QED
    BY <1>2, <2>1, <2>2, SameInterval
<1>6. count \in Int
  BY <1>1 DEF Hour
<1>7. m \in Nat /\ 1 .. count = 1 .. m
  <2> HIDE DEF count
  <2> QED
    BY <1>6
<1> HIDE DEF m
<1>8. \A k \in 1 .. m :
        /\ Sweeps[k] = Event(Start + k * 6 * Hour, "sweep", 0)
        /\ Sweeps[k] \in EventRow /\ Start <= Sweeps[k].at /\ Sweeps[k].kind = "sweep"
  <2> SUFFICES ASSUME NEW k \in 1 .. m
              PROVE  LET e == Event(Start + k * 6 * Hour, "sweep", 0)
                     IN  e \in EventRow /\ Start <= e.at /\ e.kind = "sweep"
    BY <1>7 DEF Sweeps
  <2>1. Start + k * 6 * Hour \in Nat /\ Start <= Start + k * 6 * Hour
    BY <1>1, <1>7 DEF Hour
  <2>2. 0 \in Case \cup Nat /\ "sweep" \in Kind
    BY DEF Kind
  <2> QED
    BY <2>1, <2>2, EventType
<1>9. Sweeps \in [1 .. m -> EventRow]
  BY <1>7, <1>8 DEF Sweeps
<1>10. Sweeps \in Seq(EventRow) /\ Len(Sweeps) = m
  <2>1. Sweeps \in Seq(EventRow)
    BY <1>7, <1>9, SeqDef
  <2>2. Len(Sweeps) \in Nat /\ DOMAIN Sweeps = 1 .. Len(Sweeps) /\ DOMAIN Sweeps = 1 .. m
    BY <1>9, <2>1, LenProperties
  <2> QED
    BY <1>7, <2>1, <2>2, SameInterval
<1> HIDE DEF b
<1>11. /\ First \in Seq(EventRow) /\ Len(First) = b + m
       /\ \A n \in 1 .. b + m : First[n] = IF n <= b THEN Ingests[n] ELSE Sweeps[n - b]
  <2> HIDE DEF EventRow
  <2>1. /\ Ingests \o Sweeps \in Seq(EventRow)
        /\ Len(Ingests \o Sweeps) = Len(Ingests) + Len(Sweeps)
        /\ \A n \in 1 .. Len(Ingests) + Len(Sweeps) : (Ingests \o Sweeps)[n] =
             IF n <= Len(Ingests) THEN Ingests[n] ELSE Sweeps[n - Len(Ingests)]
    BY <1>5, <1>10, ConcatProperties
  <2>2. First = Ingests \o Sweeps
    BY DEF First
  <2> QED
    BY <1>5, <1>10, <2>1, <2>2
<1>12. ASSUME NEW n \in 1 .. b + m
       PROVE  /\ First[n] \in EventRow /\ Start <= First[n].at
              /\ n <= b => First[n].kind = "case_ingest" /\ First[n].subject = Batch[n]
              /\ n > b => First[n].kind = "sweep"
  <2>1. CASE n <= b
    <3>1. n \in 1 .. b /\ First[n] = Ingests[n]
      BY <1>2, <1>7, <1>11, <2>1
    <3> QED
      BY <1>2, <1>3, <2>1, <3>1
  <2>2. CASE n > b
    <3>1. n - b \in 1 .. m /\ First[n] = Sweeps[n - b]
      BY <1>2, <1>7, <1>11, <2>2
    <3> QED
      BY <1>2, <1>8, <2>2, <3>1
  <2> QED
    BY <1>2, <2>1, <2>2
<1>13. /\ Len(First) \in Nat /\ b <= Len(First) /\ \A k \in 1 .. b : k \in 1 .. b + m
  BY <1>2, <1>7, <1>11
<1> QED
  BY <1>2, <1>11, <1>12, <1>13 DEF b

(* The recursion that fills the heap has a solution: a least length        *)
(* without one would have one for all but its last push.                   *)
Ordered == {h \in Seq(EventRow) : InOrder(h)}

LEMMA PushIsOrdered ==
  ASSUME NEW h \in Ordered, NEW e \in EventRow
  PROVE  Push(h, e) \in Ordered
  BY PushFacts DEF Ordered

FillsTo(f, n) ==
  /\ f \in [0 .. n -> Ordered] /\ f[0] = <<>>
  /\ \A i \in 1 .. n : f[i] = Push(f[i - 1], First[i])

LEMMA FillingExists == \E f : FillsTo(f, Len(First))
<1> DEFINE last == Len(First)
           bad == {n \in 0 .. last : ~(\E f : FillsTo(f, n))}
<1>1. last \in Nat /\ \A n \in 1 .. last : First[n] \in EventRow
  BY FirstFacts
<1>2. \E f : FillsTo(f, 0)
  <2> DEFINE f == [i \in 0 .. 0 |-> <<>>]
  <2>1. <<>> \in Ordered
    <3>1. <<>> \in Seq(EventRow) /\ DOMAIN <<>> = {}
      OBVIOUS
    <3> QED
      BY <3>1 DEF Ordered, InOrder
  <2>2. FillsTo(f, 0)
    BY <2>1 DEF FillsTo
  <2> QED
    BY <2>2
<1>3. ASSUME NEW n \in 1 .. last, NEW f, FillsTo(f, n - 1)
      PROVE  \E g : FillsTo(g, n)
  <2> DEFINE g == [i \in 0 .. n |-> IF i = n THEN Push(f[n - 1], First[n]) ELSE f[i]]
  <2>1. n \in Nat /\ n >= 1 /\ n - 1 \in 0 .. n - 1
    BY <1>1
  <2>2. /\ \A i \in 0 .. n - 1 : f[i] \in Ordered
        /\ f[0] = <<>> /\ \A i \in 1 .. n - 1 : f[i] = Push(f[i - 1], First[i])
    BY <1>3 DEF FillsTo
  <2>3. Push(f[n - 1], First[n]) \in Ordered
    BY <1>1, <2>1, <2>2, PushIsOrdered
  <2>4. g \in [0 .. n -> Ordered]
    <3>1. \A i \in 0 .. n : i = n \/ i \in 0 .. n - 1
      BY <2>1
    <3> QED
      BY <2>2, <2>3, <3>1
  <2>5. /\ g[n] = Push(f[n - 1], First[n])
        /\ \A i \in 0 .. n - 1 : g[i] = f[i]
    BY <2>1
  <2>6. \A i \in 1 .. n : g[i] = Push(g[i - 1], First[i])
    <3> SUFFICES ASSUME NEW i \in 1 .. n PROVE g[i] = Push(g[i - 1], First[i])
      OBVIOUS
    <3> HIDE DEF g
    <3>1. i - 1 \in 0 .. n - 1 /\ (i = n \/ i \in 1 .. n - 1) /\ \A k \in 1 .. n - 1 : k \in 0 .. n - 1
      BY <2>1
    <3> QED
      BY <2>2, <2>5, <3>1
  <2>7. g[0] = <<>>
    BY <2>1, <2>2
  <2> HIDE DEF g
  <2>8. FillsTo(g, n)
    BY <2>4, <2>6, <2>7 DEF FillsTo
  <2> QED
    BY <2>8
<1>4. bad = {}
  <2> SUFFICES ASSUME bad # {} PROVE FALSE
    OBVIOUS
  <2>1. PICK n \in bad : \A k \in bad : n <= k
    <3>1. bad \subseteq Nat
      OBVIOUS
    <3> HIDE DEF bad
    <3> QED
      BY <3>1, LeastNatural
  <2>2. n \in 1 .. last /\ n - 1 \in 0 .. last /\ ~(n <= n - 1)
    BY <1>1, <1>2
  <2>3. n - 1 \notin bad
    BY <2>1, <2>2
  <2>4. \E f : FillsTo(f, n - 1)
    BY <2>2, <2>3
  <2> QED
    BY <1>3, <2>2, <2>4
<1> QED
  BY <1>1, <1>4

LEMMA FilledFacts ==
  /\ Filled[0] = <<>>
  /\ \A n \in 1 .. Len(First) : Filled[n] = Push(Filled[n - 1], First[n])
<1> DEFINE last == Len(First)
           Fills(f) == f = [n \in 0 .. last |-> IF n = 0 THEN <<>> ELSE Push(f[n - 1], First[n])]
<1>1. last \in Nat
  BY FirstFacts
<1>2. PICK f : FillsTo(f, last)
  BY FillingExists
<1>3. f = [n \in 0 .. last |-> IF n = 0 THEN <<>> ELSE Push(f[n - 1], First[n])]
  <2>1. \A n \in 0 .. last : f[n] = IF n = 0 THEN <<>> ELSE Push(f[n - 1], First[n])
    <3> TAKE n \in 0 .. last
    <3>1. n = 0 \/ n \in 1 .. last
      BY <1>1
    <3> QED
      BY <1>2, <3>1 DEF FillsTo
  <2>2. f \in [0 .. last -> Ordered]
    BY <1>2 DEF FillsTo
  <2> QED
    BY <2>1, <2>2
<1>4. Fills(f)
  BY <1>3
<1>5. Filled = CHOOSE g : Fills(g)
  BY DEF Filled
<1> HIDE DEF Fills
<1>6. Fills(Filled)
  BY <1>4, <1>5
<1>7. Filled = [n \in 0 .. last |-> IF n = 0 THEN <<>> ELSE Push(Filled[n - 1], First[n])]
  BY <1>6 DEF Fills
<1>8. \A n \in 0 .. last : Filled[n] = IF n = 0 THEN <<>> ELSE Push(Filled[n - 1], First[n])
  BY <1>7
<1> HIDE DEF last
<1>9. 0 \in 0 .. last /\ \A n \in 1 .. last : n \in 0 .. last /\ n # 0
  BY <1>1
<1> QED
  BY <1>8, <1>9 DEF last

(* The heap as it is filled: the payments pushed so far are in it, and     *)
(* none of the others.                                                     *)
Seeded(h, n) ==
  /\ Kernel(h, Start, <<>>, [c \in Case |-> Document(c, "absent", 0)], [c \in Case |-> {}])
  /\ \A k \in 1 .. Len(Batch) : k > n => NoneComes(h, Batch[k])

LEMMA EmptySeeded == Seeded(<<>>, 0)
<1> DEFINE rows == [c \in Case |-> Document(c, "absent", 0)]
           pl == [c \in Case |-> {}]
<1>1. \A c \in Case :
        /\ rows[c] \in CaseFields /\ rows[c] = Document(c, "absent", 0)
        /\ rows[c].attempts = {}
  <2> TAKE c \in Case
  <2>1. 0 \in Nat /\ "absent" \in {"absent", "open"}
    OBVIOUS
  <2> QED
    BY <2>1, DocumentType
<1>2. rows \in [Case -> CaseFields] /\ pl \in [Case -> SUBSET Pledges]
  <2> HIDE DEF CaseFields
  <2>1. rows \in [Case -> {rows[c] : c \in Case}]
    OBVIOUS
  <2> QED
    BY <1>1, <2>1
<1> HIDE DEF rows, pl
<1>3. <<>> \in Seq(EventRow) /\ <<>> \in Seq(ActionRow) /\ DOMAIN <<>> = {}
  OBVIOUS
<1>4. Typed(<<>>, Start, <<>>, rows, pl)
  BY <1>2, <1>3, FailureTimes DEF Typed
<1>5. /\ Subjects(<<>>, <<>>) /\ InOrder(<<>>) /\ Ahead(<<>>, Start)
      /\ ComesOnce(<<>>, rows) /\ Known(<<>>, rows)
      /\ OneWaits(<<>>, <<>>) /\ WaitsScheduled(<<>>, <<>>, rows)
      /\ KeepersPay(<<>>, <<>>, rows, pl)
  BY <1>3 DEF Subjects, InOrder, Ahead, ComesOnce, Known, OneWaits, WaitsScheduled, KeepersPay
<1>6. Blank(rows) /\ Past(Start, rows)
  BY <1>1 DEF Blank, Past
<1>7. Kernel(<<>>, Start, <<>>, rows, pl)
  BY <1>4, <1>5, <1>6 DEF Kernel
<1> QED
  BY <1>3, <1>7 DEF Seeded, NoneComes, rows, pl

LEMMA PushSeeds ==
  ASSUME NEW h, NEW n \in 1 .. Len(First), Seeded(h, n - 1)
  PROVE  Seeded(Push(h, First[n]), n)
<1> DEFINE e == First[n]
           rows == [c \in Case |-> Document(c, "absent", 0)]
           pl == [c \in Case |-> {}]
           b == Len(Batch)
           g == Push(h, e)
<1>1. /\ Kernel(h, Start, <<>>, rows, pl)
      /\ \A k \in 1 .. b : k > n - 1 => NoneComes(h, Batch[k])
  BY DEF Seeded
<1>2. /\ b \in Nat /\ n \in Nat /\ n > 0 /\ e \in EventRow /\ Start <= e.at
      /\ \A k \in 1 .. b : Batch[k] \in Case
      /\ n \in 1 .. b => e.kind = "case_ingest" /\ e.subject = Batch[n]
      /\ n > b => e.kind = "sweep"
  BY FirstFacts
<1>3. \A c \in Case : rows[c].status = "absent"
  <2> TAKE c \in Case
  <2>1. 0 \in Nat /\ "absent" \in {"absent", "open"}
    OBVIOUS
  <2> QED
    BY <2>1, DocumentType
<1>4. \A k \in 1 .. b : Batch[k] = Batch[n] /\ n \in 1 .. b => k = n
  <2>1. DOMAIN Batch = 1 .. b /\ IsInjective(Batch)
    BY EngineAssumption, LenProperties
  <2> QED
    BY <2>1 DEF IsInjective
<1> HIDE DEF e, rows, pl, b
<1>5. e.kind = "sweep" \/ n \in 1 .. b
  BY <1>2
<1>6. /\ Kernel(g, Start, <<>>, rows, pl)
      /\ \A i \in DOMAIN g : g[i] = e \/ \E j \in DOMAIN h : g[i] = h[j]
  <2>1. \/ e.kind = "sweep"
        \/ /\ e.kind = "case_ingest" /\ e.subject \in Case
           /\ rows[e.subject].status = "absent" /\ NoneComes(h, e.subject)
    BY <1>1, <1>2, <1>3, <1>5
  <2>2. Kernel(g, Start, <<>>, rows, pl)
    BY <1>1, <1>2, <2>1, PushKeeps
  <2>3. \A i \in DOMAIN g : g[i] = e \/ \E j \in DOMAIN h : g[i] = h[j]
    <3>1. h \in Seq(EventRow) /\ InOrder(h)
      BY <1>1 DEF Kernel, Typed
    <3>2. PICK p \in DOMAIN g, old \in [DOMAIN g -> Int] :
            /\ g[p] = e
            /\ \A i \in DOMAIN g : i # p => old[i] \in DOMAIN h /\ g[i] = h[old[i]]
            /\ \A i, j \in DOMAIN g : i # p /\ j # p /\ old[i] = old[j] => i = j
      BY <1>2, <3>1, PushFacts
    <3> HIDE DEF g
    <3> QED
      BY <3>2
  <2> QED
    BY <2>2, <2>3
<1> HIDE DEF g
<1>7. \A k \in 1 .. b : k > n => NoneComes(g, Batch[k])
  <2> SUFFICES ASSUME NEW k \in 1 .. b, k > n, NEW i \in DOMAIN g, g[i].kind = "case_ingest"
              PROVE  g[i].subject # Batch[k]
    BY DEF NoneComes
  <2>1. k > n - 1 /\ k # n
    BY <1>2
  <2>2. CASE g[i] = e
    BY <1>2, <1>4, <1>5, <2>1, <2>2
  <2>3. CASE \E j \in DOMAIN h : g[i] = h[j]
    BY <1>1, <2>1, <2>3 DEF NoneComes
  <2> QED
    BY <1>6, <2>2, <2>3
<1> QED
  BY <1>6, <1>7 DEF Seeded, g, e, rows, pl, b

LEMMA FilledIsSeeded == Seeded(Filled[Len(First)], Len(First))
<1> DEFINE last == Len(First)
           bad == {n \in 0 .. last : ~Seeded(Filled[n], n)}
<1>1. last \in Nat
  BY FirstFacts
<1>2. Seeded(Filled[0], 0)
  BY FilledFacts, EmptySeeded
<1>3. \A n \in 1 .. last : Seeded(Filled[n - 1], n - 1) => Seeded(Filled[n], n)
  BY FilledFacts, PushSeeds
<1>4. bad = {}
  <2> SUFFICES ASSUME bad # {} PROVE FALSE
    OBVIOUS
  <2>1. PICK n \in bad : \A k \in bad : n <= k
    <3>1. bad \subseteq Nat
      OBVIOUS
    <3> HIDE DEF bad
    <3> QED
      BY <3>1, LeastNatural
  <2>2. n \in 1 .. last /\ n - 1 \in 0 .. last /\ ~(n <= n - 1)
    BY <1>1, <1>2
  <2>3. n - 1 \notin bad
    BY <2>1, <2>2
  <2> QED
    BY <1>3, <2>2, <2>3
<1> QED
  BY <1>1, <1>4

LEMMA EngineStarts == Init => EngineInv
<1> SUFFICES ASSUME Init PROVE EngineInv
  OBVIOUS
<1>1. Kernel(heap, now, acts, row, pledge)
  BY FilledIsSeeded DEF Seeded, Init
<1>2. sent = 0 /\ review = {} /\ stage = "replay"
  BY DEF Init
<1> QED
  BY <1>1, <1>2 DEF EngineInv, Answering

-----------------------------------------------------------------------------
(* The theorems                                                            *)

LEMMA EngineSteps == EngineInv /\ [Next]_vars => EngineInv' /\ RowStep
<1> SUFFICES ASSUME EngineInv, [Next]_vars PROVE EngineInv' /\ RowStep
  OBVIOUS
<1>1. CASE Ingest
  BY <1>1, IngestKeeps
<1>2. CASE MoneyArrives
  BY <1>2, MoneyArrivesKeeps
<1>3. CASE Sweep
  BY <1>3, SweepKeeps
<1>4. ASSUME NEW c \in Case, Review(c) PROVE EngineInv' /\ RowStep
  BY <1>4, ReviewKeeps
<1>5. CASE Finalize
  BY <1>5, FinalizeKeeps
<1>6. CASE Drops
  BY <1>6, DropsKeeps
<1>7. CASE Defers
  BY <1>7, DefersKeeps
<1>8. CASE Blocks
  BY <1>8, BlocksKeeps
<1>9. CASE ChecksPromise
  BY <1>9, ChecksPromiseKeeps
<1>10. CASE Executes
  BY <1>10, ExecutesKeeps
<1>11. CASE Closes
  BY <1>11, ClosesKeeps
<1>12. CASE Pays
  BY <1>12, PaysKeeps
<1>13. CASE Ignores
  BY <1>13, IgnoresKeeps
<1>14. CASE Promises
  BY <1>14, PromisesKeeps
<1>15. CASE UNCHANGED vars
  <2>1. UNCHANGED <<heap, now, row, acts, pledge, sent, review, stage>>
    BY <1>15 DEF vars
  <2>2. Kernel(heap', now', acts', row', pledge')
    BY <2>1 DEF EngineInv
  <2>3. Answering' /\ (review \subseteq OpenCases)'
    BY <2>1 DEF EngineInv, Answering, NoneWaits, Awaits, OpenCases
  <2> QED
    BY <2>1, <2>2, <2>3 DEF EngineInv, RowStep
<1> QED
  BY <1>1, <1>2, <1>3, <1>4, <1>5, <1>6, <1>7, <1>8, <1>9, <1>10,
     <1>11, <1>12, <1>13, <1>14, <1>15 DEF Next

(* The heap, the table, the documents and the pledges agree throughout,    *)
(* whatever the batch and however the world answers.                       *)
THEOREM EngineInvariant == Spec => []EngineInv
  BY EngineStarts, EngineSteps, PTL DEF Spec

(* An active case awaits at most one action of the heap, and that one is   *)
(* scheduled and not past: the engine runs no superseded action and none   *)
(* twice, though it never looks at an action's status.                     *)
THEOREM ReplayOneThread == Spec => []OneThread
<1>1. EngineInv => OneThread
  <2> SUFFICES ASSUME EngineInv, NEW c \in OpenCases
              PROVE  /\ Cardinality(WaitsFor(c)) <= 1
                     /\ \A i \in WaitsFor(c) :
                          acts[heap[i].subject].status = "scheduled" /\ heap[i].at >= now
    BY DEF OneThread
  <2>1. Kernel(heap, now, acts, row, pledge) /\ c \in Case /\ row[c].status \in Active
    BY DEF EngineInv, OpenCases
  <2>2. \A i \in WaitsFor(c) : i \in DOMAIN heap /\ Awaits(heap[i], acts, c)
    BY DEF WaitsFor, Awaits
  <2>3. \A i, j \in WaitsFor(c) : i = j
    BY <2>1, <2>2 DEF Kernel, OneWaits
  <2>4. Cardinality(WaitsFor(c)) <= 1
    <3>1. CASE WaitsFor(c) = {}
      BY <3>1, FS_EmptySet
    <3>2. ASSUME NEW i \in WaitsFor(c) PROVE Cardinality(WaitsFor(c)) <= 1
      <4>1. WaitsFor(c) = {i}
        BY <2>3
      <4> QED
        BY <4>1, FS_Singleton
    <3> QED
      BY <3>1, <3>2
  <2>5. ASSUME NEW i \in WaitsFor(c)
        PROVE  acts[heap[i].subject].status = "scheduled" /\ heap[i].at >= now
    <3>1. i \in DOMAIN heap /\ Awaits(heap[i], acts, c)
      BY <2>2
    <3>2. acts[heap[i].subject].status = "scheduled"
      BY <2>1, <3>1 DEF Kernel, WaitsScheduled
    <3>3. now <= heap[i].at
      BY <2>1, <3>1 DEF Kernel, Ahead
    <3>4. now \in Nat /\ heap[i].at \in Nat
      <4>1. now \in Nat /\ heap \in Seq(EventRow)
        BY <2>1 DEF Kernel, Typed
      <4> QED
        BY <3>1, <4>1, EventFacts
    <3> QED
      BY <3>2, <3>3, <3>4
  <2> QED
    BY <2>4, <2>5
<1> QED
  BY <1>1, EngineInvariant, PTL

(* A promise is declared broken only for a customer who does not keep it:  *)
(* the payment of one who does is in the heap before the check, and the    *)
(* heap is in order.                                                       *)
THEOREM ReplayBrokenMeansBroken == Spec => []BrokenMeansBroken
<1>1. EngineInv => BrokenMeansBroken
  <2> SUFFICES ASSUME EngineInv, heap # <<>>, Head(heap).kind = "action_due",
                     Handled, DueType = "check_promise",
                     NEW p \in pledge[DueCase], p.keeps
              PROVE  FALSE
    BY DEF BrokenMeansBroken
  <2>1. Kernel(heap, now, acts, row, pledge)
    BY DEF EngineInv
  <2>2. heap \in Seq(EventRow) /\ acts \in Seq(ActionRow)
    BY <2>1 DEF Kernel, Typed
  <2>3. 1 \in DOMAIN heap /\ Head(heap) = heap[1]
    BY <2>2, TailFacts
  <2>4. /\ Due \in DOMAIN acts /\ DueCase \in Case
        /\ Awaits(heap[1], acts, DueCase)
        /\ row[DueCase].status \in Active /\ acts[heap[1].subject].type = "check_promise"
    <3>1. Due = heap[1].subject /\ heap[1].kind = "action_due"
      BY <2>3 DEF Due
    <3>2. Due \in DOMAIN acts
      BY <2>1, <2>3, <3>1 DEF Kernel, Subjects
    <3> QED
      BY <2>2, <3>1, <3>2, TableFacts DEF Awaits, DueCase, DueType, Handled
  <2>5. PaysBefore(heap, DueCase, heap[1].at)
    <3>1. Keeps(pledge, DueCase)
      BY DEF Keeps
    <3> QED
      BY <2>1, <2>3, <2>4, <3>1 DEF Kernel, KeepersPay
  <2>6. PICK j \in DOMAIN heap : heap[j].at < heap[1].at
    BY <2>5 DEF PaysBefore
  <2>7. j # 1 => heap[1].at <= heap[j].at
    <3>1. j \in Nat /\ (j # 1 => 1 < j)
      BY <2>2, EventFacts
    <3> QED
      BY <2>1, <2>3, <3>1 DEF Kernel, InOrder
  <2>8. heap[1].at \in Nat /\ heap[j].at \in Nat
    BY <2>2, <2>3, EventFacts
  <2> QED
    BY <2>6, <2>7, <2>8
<1> QED
  BY <1>1, EngineInvariant, PTL

(* A closed case stays as it is, whatever is still in the heap for it.     *)
THEOREM ReplayClosedIsFinal == Spec => ClosedIsFinal
<1> DEFINE Final == \A c \in Case : row[c].status \in Closed => row'[c] = row[c]
<1>1. EngineInv /\ [Next]_vars => [Final]_vars
  <2> SUFFICES ASSUME EngineInv, [Next]_vars, NEW c \in Case, row[c].status \in Closed
              PROVE  row'[c] = row[c]
    OBVIOUS
  <2>1. RowStep
    BY EngineSteps
  <2>2. ASSUME NEW d \in Case, NEW r \in CaseFields, row' = [row EXCEPT ![d] = r],
               \/ SameView(row[d], r)
               \/ Ends(row[d], r)
               \/ Opens(d, row[d], r, now')
               \/ Counts(row[d], r, now')
        PROVE  row'[c] = row[c]
    <3>1. row[d].status \notin Closed
      BY <2>2 DEF SameView, Ends, Opens, Counts, Active, Closed
    <3> QED
      BY <2>2, <3>1, RowFacts
  <2> QED
    BY <2>1, <2>2 DEF RowStep
<1> QED
  BY <1>1, EngineInvariant, PTL DEF Spec, ClosedIsFinal

-----------------------------------------------------------------------------
(* The contract                                                            *)

LEMMA ViewOfUpdate ==
  ASSUME EngineInv, NEW c \in Case, NEW r \in CaseFields, row' = [row EXCEPT ![c] = r]
  PROVE  /\ Phases' = [Phases EXCEPT ![c] = PhaseOf(r)]
         /\ Attempts' = [Attempts EXCEPT ![c] = r.attempts]
         /\ Openings' = [Openings EXCEPT ![c] = r.created]
         /\ OptOuts' = [OptOuts EXCEPT ![c] = r.optedOut]
<1>1. \A d \in Case : row'[d] = IF d = c THEN r ELSE row[d]
  BY RowFacts
<1>2. Phases' = [Phases EXCEPT ![c] = PhaseOf(r)]
  <2>1. \A d \in Case : PhaseOf(row[d])' = IF d = c THEN PhaseOf(r) ELSE PhaseOf(row[d])
    BY <1>1 DEF PhaseOf
  <2> QED
    BY <2>1 DEF Phases
<1>3. Attempts' = [Attempts EXCEPT ![c] = r.attempts]
  <2>1. \A d \in Case : row'[d].attempts = IF d = c THEN r.attempts ELSE row[d].attempts
    BY <1>1
  <2> QED
    BY <2>1 DEF Attempts
<1>4. Openings' = [Openings EXCEPT ![c] = r.created]
  <2>1. \A d \in Case : row'[d].created = IF d = c THEN r.created ELSE row[d].created
    BY <1>1
  <2> QED
    BY <2>1 DEF Openings
<1>5. OptOuts' = [OptOuts EXCEPT ![c] = r.optedOut]
  <2>1. \A d \in Case : row'[d].optedOut = IF d = c THEN r.optedOut ELSE row[d].optedOut
    BY <1>1
  <2> QED
    BY <2>1 DEF OptOuts
<1> QED
  BY <1>2, <1>3, <1>4, <1>5

LEMMA ContractCardinality == \A S : Contract!Cardinality(S) = Cardinality(S)
  BY DEF Contract!Cardinality, Cardinality

(* An attempt the gate let through is one the contract allows.             *)
LEMMA CountsAllowed ==
  ASSUME NEW r \in CaseFields, NEW new, NEW t \in Nat, Counts(r, new, t),
         IsFiniteSet(r.attempts)
  PROVE  /\ \A u \in r.attempts : t >= u + Cooldown
         /\ Cardinality({u \in r.attempts : u >= t - AttemptWindow}) < MaxAttempts
         /\ t < r.created + CaseExpiry
<1>1. /\ r.attempts \subseteq Nat /\ r.created \in Nat
      /\ Cooldown \in Nat /\ MaxAttempts \in Nat /\ CaseExpiry \in Nat
  BY PolicyAssumption DEF CaseFields
<1>2. /\ ~CoolingDown(r, t) /\ ~(AttemptsInWindow(r, t) >= MaxAttempts)
      /\ ~(t >= r.created + CaseExpiry)
  BY DEF Counts
<1>3. \A u \in r.attempts : t >= u + Cooldown
  BY <1>1, <1>2 DEF CoolingDown
<1>4. AttemptsInWindow(r, t) \in Nat
  <2>1. IsFiniteSet({u \in r.attempts : u >= t - AttemptWindow})
    BY FS_Subset
  <2> QED
    BY <2>1, FS_CardinalityType DEF AttemptsInWindow
<1>5. AttemptsInWindow(r, t) < MaxAttempts
  BY <1>1, <1>2, <1>4
<1> QED
  BY <1>1, <1>2, <1>3, <1>5 DEF AttemptsInWindow

LEMMA RowStepRefines ==
  ASSUME Instants = Nat, EngineInv, RowStep, now' \in Nat
  PROVE  [Contract!Next]_(Contract!vars)
<1>1. CASE row' = row
  BY <1>1 DEF Contract!vars, Phases, Attempts, Openings, OptOuts, PhaseOf
<1>2. ASSUME NEW c \in Case, NEW r \in CaseFields, row' = [row EXCEPT ![c] = r],
             NEW t \in Nat, t = now',
             \/ SameView(row[c], r)
             \/ Ends(row[c], r)
             \/ Opens(c, row[c], r, t)
             \/ Counts(row[c], r, t)
      PROVE  [Contract!Next]_(Contract!vars)
  <2> DEFINE old == row[c]
  <2>1. /\ Phases' = [Phases EXCEPT ![c] = PhaseOf(r)]
        /\ Attempts' = [Attempts EXCEPT ![c] = r.attempts]
        /\ Openings' = [Openings EXCEPT ![c] = r.created]
        /\ OptOuts' = [OptOuts EXCEPT ![c] = r.optedOut]
    BY <1>2, ViewOfUpdate
  <2>2. /\ Phases[c] = PhaseOf(old) /\ Attempts[c] = old.attempts
        /\ Openings[c] = old.created /\ OptOuts[c] = old.optedOut
    BY DEF Phases, Attempts, Openings, OptOuts
  <2>3. old \in CaseFields /\ IsFiniteSet(old.attempts) /\ t \in Instants
    BY RowFacts
  <2>4. /\ Phases = [Phases EXCEPT ![c] = Phases[c]]
        /\ Attempts = [Attempts EXCEPT ![c] = Attempts[c]]
        /\ Openings = [Openings EXCEPT ![c] = Openings[c]]
        /\ OptOuts = [OptOuts EXCEPT ![c] = OptOuts[c]]
    BY DEF Phases, Attempts, Openings, OptOuts
  <2>5. CASE SameView(old, r)
    BY <2>1, <2>2, <2>4, <2>5 DEF SameView, Contract!vars
  <2>6. CASE Ends(old, r)
    <3>1. /\ r.attempts = old.attempts /\ r.created = old.created
          /\ r.optedOut = old.optedOut
          /\ PhaseOf(old) = "active" /\ PhaseOf(r) \in {"recovered", "written_off"}
      BY <2>6 DEF Ends, PhaseOf, Active, Closed
    <3>2. Contract!Recover(c) \/ Contract!WriteOff(c)
      BY <2>1, <2>2, <2>4, <3>1 DEF Contract!Recover, Contract!WriteOff
    <3> QED
      BY <3>2 DEF Contract!Next
  <2>7. CASE Opens(c, old, r, t)
    <3>1. old.status = "absent" /\ old = Document(c, "absent", 0)
      BY <2>7 DEF EngineInv, Kernel, Blank, Opens
    <3>2. old.attempts = {} /\ old.optedOut = (c \in OptedOut)
      BY <3>1 DEF Document
    <3>3. /\ r.status = "open" /\ r.attempts = {} /\ r.created = t
          /\ r.optedOut = (c \in OptedOut)
      BY <2>7 DEF Opens, Document
    <3>4. Contract!Open(c, t)
      BY <2>1, <2>2, <2>4, <3>1, <3>2, <3>3 DEF Contract!Open, PhaseOf, Active
    <3> QED
      BY <2>3, <3>4 DEF Contract!Next
  <2>8. CASE Counts(old, r, t)
    <3>1. /\ PhaseOf(old) = "active" /\ PhaseOf(r) = "active"
          /\ ~old.optedOut /\ r.optedOut = old.optedOut
          /\ r.attempts = old.attempts \cup {t} /\ r.created = old.created
      <4>1. old.optedOut \in BOOLEAN /\ r.optedOut \in BOOLEAN
        BY <2>3 DEF CaseFields
      <4> QED
        BY <2>8, <4>1 DEF Counts, PhaseOf
    <3>2. /\ \A u \in old.attempts : t >= u + Cooldown
          /\ Cardinality({u \in old.attempts : u >= t - AttemptWindow}) < MaxAttempts
          /\ t < old.created + CaseExpiry
      BY <2>3, <2>8, CountsAllowed
    <3>3. Contract!Recent(c, t) = {u \in old.attempts : u >= t - AttemptWindow}
      BY <2>2 DEF Contract!Recent
    <3>4. Contract!Attempt(c, t)
      BY <2>1, <2>2, <2>4, <3>1, <3>2, <3>3, ContractCardinality DEF Contract!Attempt
    <3> QED
      BY <2>3, <3>4 DEF Contract!Next
  <2> QED
    BY <1>2, <2>5, <2>6, <2>7, <2>8
<1> QED
  BY <1>1, <1>2 DEF RowStep

LEMMA InitRefines == Init => Contract!Init
<1> SUFFICES ASSUME Init PROVE Contract!Init
  OBVIOUS
<1>1. \A c \in Case : /\ row[c].status = "absent" /\ row[c].attempts = {}
                      /\ row[c].created = 0 /\ row[c].optedOut = (c \in OptedOut)
  BY DEF Init, Document
<1>2. Phases = [c \in Case |-> "absent"]
  BY <1>1 DEF Phases, PhaseOf, Active
<1>3. Attempts = [c \in Case |-> {}]
  BY <1>1 DEF Attempts
<1>4. Openings \in [Case -> Nat]
  BY <1>1 DEF Openings
<1>5. OptOuts \in [Case -> BOOLEAN]
  <2>1. \A c \in Case : row[c].optedOut \in BOOLEAN
    <3> TAKE c \in Case
    <3>1. row[c].optedOut = (c \in OptedOut)
      BY <1>1
    <3>2. (c \in OptedOut) \in BOOLEAN
      OBVIOUS
    <3> QED
      BY <3>1, <3>2, Zenon
  <2> QED
    BY <2>1 DEF OptOuts
<1> QED
  BY <1>2, <1>3, <1>4, <1>5 DEF Contract!Init

(* The replay implements the contract of a recovery case at every instant: *)
(* each of its steps is one of the contract's, or changes nothing the      *)
(* contract sees.                                                          *)
THEOREM ReplayImplementsContract ==
  ASSUME Instants = Nat
  PROVE  Spec => ImplementsContract
<1>1. EngineInv /\ [Next]_vars => [Contract!Next]_(Contract!vars)
  <2> SUFFICES ASSUME EngineInv, [Next]_vars PROVE [Contract!Next]_(Contract!vars)
    OBVIOUS
  <2>1. EngineInv' /\ RowStep
    BY EngineSteps
  <2>2. now' \in Nat
    BY <2>1 DEF EngineInv, Kernel, Typed
  <2> QED
    BY <2>1, <2>2, RowStepRefines
<1> QED
  BY <1>1, InitRefines, EngineInvariant, PTL DEF Spec, ImplementsContract, Contract!Spec

(* What the contract's theorems give the replay.                           *)
Proved == INSTANCE RecoveryContractProofs WITH
  Time <- Instants, phase <- Phases, attempts <- Attempts,
  opened <- Openings, optedOut <- OptOuts

LEMMA ProvedCardinality == \A S : Proved!Cardinality(S) = Contract!Cardinality(S)
  BY DEF Contract!Cardinality, Proved!Cardinality

LEMMA SameSteps == [Contract!Next]_(Contract!vars) => [Proved!Next]_(Proved!vars)
<1>1. \A c \in Case, t \in Instants : Contract!Attempt(c, t) => Proved!Attempt(c, t)
  BY ProvedCardinality
  DEF Contract!Attempt, Proved!Attempt, Contract!Recent, Proved!Recent
<1>2. \A c \in Case, t \in Instants : Contract!Open(c, t) => Proved!Open(c, t)
  BY DEF Contract!Open, Proved!Open
<1>3. \A c \in Case : /\ Contract!Recover(c) => Proved!Recover(c)
                      /\ Contract!WriteOff(c) => Proved!WriteOff(c)
                      /\ Contract!OptOut(c) => Proved!OptOut(c)
  BY DEF Contract!Recover, Proved!Recover, Contract!WriteOff, Proved!WriteOff,
         Contract!OptOut, Proved!OptOut
<1>4. Contract!Next => Proved!Next
  BY <1>1, <1>2, <1>3 DEF Contract!Next, Proved!Next
<1>5. UNCHANGED Contract!vars => UNCHANGED Proved!vars
  BY DEF Contract!vars, Proved!vars
<1> QED
  BY <1>4, <1>5

(* The attempts the replay counts for a case stay a cooldown apart, and no *)
(* window holds more than the cap.                                         *)
THEOREM ReplayPacing ==
  ASSUME Instants = Nat
  PROVE  Spec => [](Contract!Spaced /\ Contract!Capped)
<1>1. Proved!ContractAssumption
  BY PolicyAssumption DEF Proved!ContractAssumption
<1>2. Contract!Init => Proved!Init
  BY DEF Contract!Init, Proved!Init
<1>3. Proved!Spec => [](Proved!Spaced /\ Proved!Capped)
  BY <1>1, Proved!ContractSafety
<1>4. ImplementsContract => Proved!Spec
  BY <1>2, SameSteps, PTL DEF ImplementsContract, Contract!Spec, Proved!Spec
<1>5. Proved!Spaced /\ Proved!Capped => Contract!Spaced /\ Contract!Capped
  BY ProvedCardinality
  DEF Proved!Spaced, Proved!Capped, Contract!Spaced, Contract!Capped
<1> QED
  BY <1>3, <1>4, <1>5, ReplayImplementsContract, PTL
=============================================================================
