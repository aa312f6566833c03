---------------------------- MODULE VectorProofs -----------------------------
(***************************************************************************)
(* Proofs about the vector slots, for any bodies, scopes, instants, faults *)
(* and number of re-embeddings; and that a recall beside them keeps to its *)
(* reader's sight and finds what is in it, from RetrievalProofs.           *)
(*                                                                         *)
(* The slots are proved right where every save is open-ended.  Then the    *)
(* live rows of a record are a chronicle: each ends before the next one    *)
(* begins, so that the row inserted last is the one that is valid now, and *)
(* the body a save was given is what the record says last.  With a save    *)
(* into the past neither holds (MCVectors_past.cfg).                       *)
(***************************************************************************)
EXTENDS MCVectors, TLAPS, SequenceTheorems, FiniteSetTheorems

Sight == INSTANCE RetrievalProofs WITH
  Record <- TheRecords, Skills <- {"f"}, Global <- "shared", Mine <- "mine",
  Held <- TheHeld, Rankings <- TheRankings, Queries <- TheQueries, Nears <- {0, 3},
  Graphs <- TheGraphs, Newer <- IsNewer, Limit <- 2, Depth <- 2, Pool <- 2, Over <- 2,
  MaxSlots <- 5, Cands <- 4, MaxForgets <- 1, todo <- front

-----------------------------------------------------------------------------
(* What FlattenSeq gives.                                                  *)

\* It is the same operator here and in RetrievalProofs.
LEMMA SameFlatten == ASSUME NEW f PROVE FlattenSeq(f) = Sight!FlattenSeq(f)
BY Zenon DEF FlattenSeq, Sight!FlattenSeq

\* It joins its sequences one by one.
LEMMA FlattenUnfolds ==
  ASSUME NEW S, NEW n \in Nat, n # 0, NEW f \in [1..n -> Seq(S)]
  PROVE  \E F : FlattenSeq(f) = F[n] /\ Sight!Joined(F, f, n)
BY SameFlatten, Sight!FlattenUnfolds

\* Of sequences over S it makes one.
LEMMA FlattenType ==
  ASSUME NEW S, NEW n \in Nat, NEW f \in [1..n -> Seq(S)]
  PROVE  FlattenSeq(f) \in Seq(S)
BY SameFlatten, Sight!FlattenType

\* The values of Rel are related pairwise in the order of q.
Ordered(q, Rel) == \A i, j \in 1..Len(q) : i < j => <<q[i], q[j]>> \in Rel

\* Two ordered sequences, all of the first before all of the second, make one.
LEMMA OrderedConcat ==
  ASSUME NEW S, NEW Rel, NEW q \in Seq(S), NEW p \in Seq(S), Ordered(q, Rel), Ordered(p, Rel),
         \A i \in 1..Len(q), j \in 1..Len(p) : <<q[i], p[j]>> \in Rel
  PROVE  Ordered(q \o p, Rel)
<1> SUFFICES ASSUME NEW i \in 1..(Len(q) + Len(p)), NEW j \in 1..(Len(q) + Len(p)), i < j
             PROVE  <<(q \o p)[i], (q \o p)[j]>> \in Rel
  BY ConcatProperties DEF Ordered
<1>1. Len(q) \in Nat /\ Len(p) \in Nat
  BY LenProperties
<1>2. CASE j <= Len(q)
  <2>1. i \in 1..Len(q) /\ j \in 1..Len(q) /\ (q \o p)[i] = q[i] /\ (q \o p)[j] = q[j]
    BY <1>1, <1>2, ConcatProperties
  <2> QED BY <2>1 DEF Ordered
<1>3. CASE i > Len(q)
  <2>1. /\ i - Len(q) \in 1..Len(p) /\ j - Len(q) \in 1..Len(p) /\ i - Len(q) < j - Len(q)
        /\ (q \o p)[i] = p[i - Len(q)] /\ (q \o p)[j] = p[j - Len(q)]
    BY <1>1, <1>3, ConcatProperties
  <2> QED BY <2>1 DEF Ordered
<1>4. CASE i <= Len(q) /\ j > Len(q)
  <2>1. /\ i \in 1..Len(q) /\ j - Len(q) \in 1..Len(p)
        /\ (q \o p)[i] = q[i] /\ (q \o p)[j] = p[j - Len(q)]
    BY <1>1, <1>4, ConcatProperties
  <2> QED BY <2>1
<1>5. j <= Len(q) \/ i > Len(q) \/ (i <= Len(q) /\ j > Len(q))
  BY <1>1
<1> QED
  BY <1>2, <1>3, <1>4, <1>5

\* If every sequence of f is ordered, and those of lower index come before those of higher,
\* so is what they flatten to.
LEMMA FlattenOrdered ==
  ASSUME NEW S, NEW Rel, NEW n \in Nat, NEW f \in [1..n -> Seq(S)],
         \A i \in 1..n : Ordered(f[i], Rel),
         \A i, j \in 1..n : i < j =>
            \A x \in 1..Len(f[i]), y \in 1..Len(f[j]) : <<f[i][x], f[j][y]>> \in Rel
  PROVE  Ordered(FlattenSeq(f), Rel)
<1>1. CASE n = 0
  <2>1. f \in Seq(Seq(S)) /\ Len(f) = 0
    BY <1>1
  <2> QED
    BY <1>1, <2>1 DEF FlattenSeq, Ordered
<1>2. CASE n # 0
  <2>1. PICK F : FlattenSeq(f) = F[n] /\ Sight!Joined(F, f, n)
    BY <1>2, FlattenUnfolds
  <2> DEFINE Past(q, i) == \A x \in 1..Len(q) :
               \E m \in 1..i : \E y \in 1..Len(f[m]) : q[x] = f[m][y]
             Good(i) == F[i] \in Seq(S) /\ Ordered(F[i], Rel) /\ Past(F[i], i)
             Bad == {i \in 1..n : ~Good(i)}
  <2>2. Bad = {}
    <3>1. SUFFICES ASSUME Bad # {} PROVE FALSE
      OBVIOUS
    <3>2. Bad \subseteq Nat
      OBVIOUS
    <3>3. PICK i \in Bad : \A j \in Bad : i <= j
      <4> HIDE DEF Bad
      <4> QED BY <3>1, <3>2, Sight!NatMin
    <3>6. i \in 1..n /\ ~Good(i)
      BY <3>3
    <3>4. CASE i = 1
      <4>1. F[1] = f[1] /\ f[1] \in Seq(S)
        BY <3>4, <2>1, <3>6 DEF Sight!Joined
      <4>2. Past(F[1], 1)
        BY <4>1
      <4> QED BY <4>1, <4>2, <3>6, <3>4
    <3>5. CASE i # 1
      <4>1. i - 1 \in 1..n /\ i - 1 < i
        BY <3>6, <3>5
      <4>2. Good(i - 1)
        <5>1. i - 1 \notin Bad
          <6> HIDE DEF Bad
          <6>1. i \in Int /\ (i - 1 \in Bad => i <= i - 1)
            BY <3>3, <3>6
          <6> QED BY <6>1
        <5> QED BY <4>1, <5>1
      <4> DEFINE q == F[i - 1]
                 p == f[i]
      <4>3. F[i] = q \o p /\ q \in Seq(S) /\ p \in Seq(S) /\ Ordered(q, Rel) /\ Ordered(p, Rel)
        BY <4>2, <3>6, <3>5, <2>1 DEF Sight!Joined
      <4>4. ASSUME NEW x \in 1..Len(q), NEW y \in 1..Len(p) PROVE <<q[x], p[y]>> \in Rel
        <5>1. PICK m \in 1..(i - 1) : \E z \in 1..Len(f[m]) : q[x] = f[m][z]
          BY <4>2
        <5>2. m \in 1..n /\ m < i
          BY <3>6
        <5> QED BY <5>1, <5>2, <3>6
      <4>5. F[i] \in Seq(S) /\ Ordered(F[i], Rel)
        <5> HIDE DEF q, p
        <5>1. Ordered(q \o p, Rel)
          BY <4>3, <4>4, OrderedConcat
        <5>2. q \o p \in Seq(S)
          BY <4>3, ConcatProperties
        <5> QED BY <5>1, <5>2, <4>3
      <4>6. Past(F[i], i)
        <5> HIDE DEF q, p
        <5>1. /\ Len(q \o p) = Len(q) + Len(p) /\ Len(q) \in Nat /\ Len(p) \in Nat
              /\ \A x \in 1..(Len(q) + Len(p)) :
                    (q \o p)[x] = IF x <= Len(q) THEN q[x] ELSE p[x - Len(q)]
          BY <4>3, ConcatProperties, LenProperties
        <5>0. SUFFICES Past(q \o p, i)
          <6>1. F[i] = q \o p
            BY <4>3
          <6> HIDE DEF Past
          <6> QED BY <6>1
        <5>2. SUFFICES ASSUME NEW x \in 1..(Len(q) + Len(p))
                       PROVE  \E m \in 1..i : \E y \in 1..Len(f[m]) : (q \o p)[x] = f[m][y]
          BY <5>1
        <5>3. CASE x <= Len(q)
          <6>1. PICK m \in 1..(i - 1) : \E z \in 1..Len(f[m]) : q[x] = f[m][z]
            <7>1. x \in 1..Len(q)
              BY <5>1, <5>3
            <7>2. Past(q, i - 1)
              BY <4>2 DEF q
            <7> QED BY <7>1, <7>2
          <6>2. m \in 1..i
            BY <4>1, <3>6
          <6> QED BY <6>1, <6>2, <5>1, <5>3
        <5>4. CASE x > Len(q)
          <6>1. x - Len(q) \in 1..Len(p) /\ (q \o p)[x] = p[x - Len(q)]
            BY <5>1, <5>4
          <6>2. i \in 1..i
            BY <3>6
          <6> QED BY <6>1, <6>2 DEF p
        <5> QED BY <5>3, <5>4, <5>1
      <4> QED BY <4>5, <4>6, <3>6
    <3> QED
      BY <3>4, <3>5
  <2>3. n \in 1..n
    BY <1>2
  <2> QED
    BY <2>1, <2>2, <2>3
<1> QED
  BY <1>1, <1>2

-----------------------------------------------------------------------------
(* The live rows of a record, where every save is open-ended.              *)

Rows(n) == {r \in [body : Bodies, vf : Times, vt : Times \cup {Open}] : r.vf < r.vt /\ r.vf <= n}
Before == {x \in Rows(Open) \X Rows(Open) : x[1].vt <= x[2].vf}
Chronicle(q, n) == q \in Seq(Rows(n)) /\ Ordered(q, Before)

\* The definitions above, in the form the proofs cite.
LEMMA RowsAre ==
  /\ Open \in Nat /\ \A t \in Times : t \in Nat /\ t < Open
  /\ \A n, r : r \in Rows(n) <=> /\ r \in [body : Bodies, vf : Times, vt : Times \cup {Open}]
                                 /\ r.vf < r.vt /\ r.vf <= n
  /\ \A n : \A r \in Rows(n) : r \in Rows(Open) /\ r.vf \in Nat /\ r.vt \in Nat
  /\ \A r, o \in Rows(Open) : <<r, o>> \in Before <=> r.vt <= o.vf
<1>1. Open \in Nat /\ \A t \in Times : t \in Nat /\ t < Open
  BY InstantsAssumption
<1>2. \A n, r : r \in Rows(n) <=> /\ r \in [body : Bodies, vf : Times, vt : Times \cup {Open}]
                                 /\ r.vf < r.vt /\ r.vf <= n
  BY DEF Rows
<1>3. \A n : \A r \in Rows(n) : r \in Rows(Open) /\ r.vf \in Nat /\ r.vt \in Nat
  BY <1>1 DEF Rows
<1>4. \A r, o \in Rows(Open) : <<r, o>> \in Before <=> r.vt <= o.vf
  BY DEF Before
<1> QED
  BY <1>1, <1>2, <1>3, <1>4

\* A segment between two instants is a row.
LEMMA SegIsRow ==
  ASSUME NEW n, NEW b \in Bodies, NEW from \in Times, NEW to \in Times \cup {Open},
         from < to, from <= n
  PROVE  /\ Seg(b, from, to) \in Rows(n)
         /\ Seg(b, from, to).vf = from /\ Seg(b, from, to).vt = to /\ Seg(b, from, to).body = b
BY DEF Seg, Rows

\* What an invalidation leaves ends by then, and stays in order.
Upto(n, at) == {r \in Rows(n) : r.vt <= at}

LEMMA InvalidateKeeps ==
  ASSUME NEW n \in Nat, NEW q, Chronicle(q, n), NEW at \in Times
  PROVE  /\ AfterInvalidate(q, at) \in Seq(Upto(n, at))
         /\ Ordered(AfterInvalidate(q, at), Before)
<1> DEFINE past == [i \in DOMAIN q |-> IF q[i].vt <= at THEN <<q[i]>> ELSE <<>>]
           cut  == [i \in DOMAIN q |-> IF q[i].vt > at /\ q[i].vf < at
                                       THEN <<Seg(q[i].body, q[i].vf, at)>> ELSE <<>>]
           Past == {r \in Upto(n, at) : \E i \in DOMAIN q : r = q[i] /\ q[i].vt <= at}
           Cut  == {r \in Upto(n, at) : \E i \in DOMAIN q :
                      /\ q[i].vt > at /\ q[i].vf < at
                      /\ r = Seg(q[i].body, q[i].vf, at)}
           m == Len(q)
<1>1. /\ m \in Nat /\ DOMAIN q = 1..m
      /\ \A i \in 1..m : /\ q[i] \in Rows(n) /\ q[i] \in Rows(Open)
                         /\ q[i].vf \in Nat /\ q[i].vt \in Nat /\ q[i].vf < q[i].vt
                         /\ q[i].vf \in Times /\ q[i].body \in Bodies /\ q[i].vf <= n
      /\ \A i, j \in 1..m : i < j => q[i].vt <= q[j].vf
      /\ at \in Nat
  <2>1. m \in Nat /\ DOMAIN q = 1..m /\ \A i \in 1..m : q[i] \in Rows(n)
    BY LenProperties, ElementOfSeq DEF Chronicle
  <2>2. ASSUME NEW i \in 1..m
        PROVE  /\ q[i] \in Rows(n) /\ q[i] \in Rows(Open)
               /\ q[i].vf \in Nat /\ q[i].vt \in Nat /\ q[i].vf < q[i].vt
               /\ q[i].vf \in Times /\ q[i].body \in Bodies /\ q[i].vf <= n
    <3>1. q[i] \in Rows(n) /\ q[i] \in Rows(Open) /\ q[i].vf \in Nat /\ q[i].vt \in Nat
      BY <2>1, RowsAre
    <3> QED
      BY <3>1 DEF Rows
  <2>3. \A i, j \in 1..m : i < j => q[i].vt <= q[j].vf
    BY <2>2, RowsAre DEF Chronicle, Ordered
  <2> QED
    BY <2>1, <2>2, <2>3, RowsAre
<1>2. \A i \in 1..m : q[i].vt <= at => q[i] \in Past
  BY <1>1 DEF Upto
<1>3. \A i \in 1..m : q[i].vf < at /\ q[i].vt > at =>
        /\ Seg(q[i].body, q[i].vf, at) \in Cut
        /\ Seg(q[i].body, q[i].vf, at).vf = q[i].vf /\ Seg(q[i].body, q[i].vf, at).vt = at
  <2> SUFFICES ASSUME NEW i \in 1..m, q[i].vf < at, q[i].vt > at
               PROVE  /\ Seg(q[i].body, q[i].vf, at) \in Cut
                      /\ Seg(q[i].body, q[i].vf, at).vf = q[i].vf
                      /\ Seg(q[i].body, q[i].vf, at).vt = at
    OBVIOUS
  <2> DEFINE r == Seg(q[i].body, q[i].vf, at)
  <2>1. r \in Rows(n) /\ r.vf = q[i].vf /\ r.vt = at
    BY <1>1, SegIsRow
  <2> HIDE DEF r
  <2>2. r \in Upto(n, at)
    BY <2>1, <1>1 DEF Upto
  <2> QED
    BY <2>1, <2>2, <1>1 DEF r
<1>4. past \in [1..m -> Seq(Past)]
  <2> HIDE DEF Past
  <2>1. ASSUME NEW i \in 1..m PROVE past[i] \in Seq(Past)
    BY <1>1, <1>2
  <2> QED BY <2>1, <1>1
<1>5. cut \in [1..m -> Seq(Cut)]
  <2> HIDE DEF Cut
  <2>1. ASSUME NEW i \in 1..m PROVE cut[i] \in Seq(Cut)
    BY <1>1, <1>3
  <2> QED BY <2>1, <1>1
<1>6. FlattenSeq(past) \in Seq(Past) /\ FlattenSeq(cut) \in Seq(Cut)
  <2> HIDE DEF past, cut, Past, Cut, m
  <2> QED BY <1>1, <1>4, <1>5, FlattenType
<1>7. Ordered(FlattenSeq(past), Before)
  <2>1. \A i \in 1..m : Ordered(past[i], Before) /\ Len(past[i]) \in 0..1
    BY <1>1 DEF Ordered
  <2>2. ASSUME NEW i \in 1..m, NEW j \in 1..m, i < j, NEW x \in 1..Len(past[i]),
               NEW y \in 1..Len(past[j])
        PROVE  <<past[i][x], past[j][y]>> \in Before
    <3>1. past[i][x] = q[i] /\ past[j][y] = q[j]
      BY <1>1
    <3> QED
      BY <3>1, <2>2, <1>1, RowsAre
  <2> HIDE DEF past, Past, m
  <2> QED
    BY <2>1, <2>2, <1>1, <1>4, FlattenOrdered
<1>8. Ordered(FlattenSeq(cut), Before)
  <2>1. \A i \in 1..m : Ordered(cut[i], Before)
    BY <1>1 DEF Ordered
  <2>2. ASSUME NEW i \in 1..m, NEW j \in 1..m, i < j, NEW x \in 1..Len(cut[i]),
               NEW y \in 1..Len(cut[j])
        PROVE  <<cut[i][x], cut[j][y]>> \in Before
    <3>1. q[i].vt > at /\ q[j].vf < at
      BY <1>1
    <3> QED
      BY <3>1, <2>2, <1>1
  <2> HIDE DEF cut, Cut, m
  <2> QED
    BY <2>1, <2>2, <1>1, <1>5, FlattenOrdered
<1>9. \A r \in Past, o \in Cut : <<r, o>> \in Before
  <2> SUFFICES ASSUME NEW r \in Past, NEW o \in Cut PROVE <<r, o>> \in Before
    OBVIOUS
  <2>1. PICK i \in 1..m : r = q[i] /\ q[i].vt <= at
    BY <1>1
  <2>2. PICK j \in 1..m : q[j].vt > at /\ q[j].vf < at /\ o = Seg(q[j].body, q[j].vf, at)
    BY <1>1
  <2>3. o.vf = q[j].vf /\ o \in Rows(Open)
    BY <2>2, <1>3, RowsAre DEF Upto
  <2>4. r.vt <= o.vf
    <3>1. i < j \/ j < i
      BY <2>1, <2>2, <1>1
    <3>2. ~(j < i)
      BY <2>1, <2>2, <1>1
    <3> QED
      BY <3>1, <3>2, <2>1, <2>3, <1>1
  <2> QED
    BY <2>1, <2>3, <2>4, <1>1, RowsAre
<1> DEFINE T == Upto(n, at)
           p == FlattenSeq(past)
           c == FlattenSeq(cut)
<1>10. p \in Seq(T) /\ c \in Seq(T) /\ AfterInvalidate(q, at) = p \o c
  <2>1. Past \subseteq T /\ Cut \subseteq T
    OBVIOUS
  <2>2. AfterInvalidate(q, at) = p \o c
    BY DEF AfterInvalidate
  <2> HIDE DEF p, c, Past, Cut, T
  <2>3. p \in Seq(T) /\ c \in Seq(T)
    BY <2>1, <1>6, SeqMonotonic DEF p, c
  <2> QED BY <2>2, <2>3
<1>11. \A i \in 1..Len(p), j \in 1..Len(c) : <<p[i], c[j]>> \in Before
  <2> HIDE DEF Past, Cut, past, cut
  <2> QED BY <1>6, <1>9, ElementOfSeq
<1> HIDE DEF p, c, T
<1>12. p \o c \in Seq(T) /\ Ordered(p \o c, Before)
  BY <1>7, <1>8, <1>10, <1>11, OrderedConcat, ConcatProperties DEF p, c
<1> QED
  BY <1>10, <1>12 DEF T

\* A save from `from` on that changes anything is an invalidation there and the new row.
LEMMA PutIsInvalidate ==
  ASSUME NEW n \in Nat, NEW q, Chronicle(q, n), NEW b, NEW from \in Times,
         ~ \E r \in ToSet(q) : r.body = b /\ r.vf <= from /\ r.vt >= Open
  PROVE  AfterPut(q, b, from, Open) = AfterInvalidate(q, from) \o <<Seg(b, from, Open)>>
<1> DEFINE Hit(r) == Overlaps(r, from, Open)
           kept == [i \in DOMAIN q |-> IF Hit(q[i]) THEN <<>> ELSE <<q[i]>>]
           left == [i \in DOMAIN q |-> IF Hit(q[i]) THEN Remainders(q[i], from, Open) ELSE <<>>]
           past == [i \in DOMAIN q |-> IF q[i].vt <= from THEN <<q[i]>> ELSE <<>>]
           cut  == [i \in DOMAIN q |-> IF q[i].vt > from /\ q[i].vf < from
                                       THEN <<Seg(q[i].body, q[i].vf, from)>> ELSE <<>>]
<1>1. ASSUME NEW i \in DOMAIN q
      PROVE  /\ q[i].vf \in Times /\ q[i].vf < Open /\ q[i].vt \in Nat /\ q[i].vt <= Open
             /\ from \in Nat /\ Open \in Nat /\ q[i].vf \in Nat
  <2>1. q[i] \in Rows(n)
    BY LenProperties, ElementOfSeq DEF Chronicle
  <2> QED
    BY <2>1, RowsAre DEF Rows
<1>2. \A i \in DOMAIN q : Hit(q[i]) <=> ~(q[i].vt <= from)
  BY <1>1 DEF Overlaps
<1>3. kept = past
  BY <1>2
<1>4. ASSUME NEW i \in DOMAIN q, Hit(q[i])
      PROVE  Remainders(q[i], from, Open)
               = IF q[i].vf < from THEN <<Seg(q[i].body, q[i].vf, from)>> ELSE <<>>
  <2> DEFINE x == Seg(q[i].body, q[i].vf, from)
             first == IF q[i].vf < from THEN <<x>> ELSE <<>>
             S == {x}
  <2>1. Remainders(q[i], from, Open) = first \o <<>>
    <3>1. ~(Open < q[i].vt)
      BY <1>1
    <3> QED
      BY <3>1 DEF Remainders
  <2> HIDE DEF x
  <2>4. <<x>> \in Seq(S) /\ <<>> \in Seq(S)
    OBVIOUS
  <2>2. first \in Seq(S)
    <3> HIDE DEF S
    <3> QED BY <2>4
  <2> HIDE DEF first, S
  <2>3. first \o <<>> = first
    BY <2>2, ConcatEmptySeq
  <2> QED
    BY <2>1, <2>3 DEF first, x
<1>5. left = cut
  BY <1>1, <1>2, <1>4
<1>6. AfterPut(q, b, from, Open) = FlattenSeq(kept) \o FlattenSeq(left) \o <<Seg(b, from, Open)>>
  BY DEF AfterPut
<1>7. AfterInvalidate(q, from) = FlattenSeq(past) \o FlattenSeq(cut)
  BY DEF AfterInvalidate
<1> HIDE DEF kept, left, past, cut
<1> QED
  BY <1>3, <1>5, <1>6, <1>7

\* A save keeps the chronicle, and what it saves is what the record says last: where a row
\* covers it already, that row is the last one.
LEMMA PutKeeps ==
  ASSUME NEW n \in Nat, NEW q, Chronicle(q, n), NEW b \in Bodies, NEW from \in Times, from <= n
  PROVE  /\ Chronicle(AfterPut(q, b, from, Open), n)
         /\ Newest(AfterPut(q, b, from, Open)) = b
<1>1. CASE \E r \in ToSet(q) : r.body = b /\ r.vf <= from /\ r.vt >= Open
  <2>1. AfterPut(q, b, from, Open) = q
    BY <1>1 DEF AfterPut
  <2>2. PICK i \in 1..Len(q) : q[i].body = b /\ q[i].vt >= Open
    BY <1>1, LenProperties DEF Chronicle, ToSet
  <2>3. Len(q) \in Nat /\ q # <<>> /\ i <= Len(q)
    BY <2>2, LenProperties DEF Chronicle
  <2>4. i = Len(q)
    <3>1. SUFFICES ASSUME i < Len(q) PROVE FALSE
      BY <2>3
    <3>2. <<q[i], q[Len(q)]>> \in Before
      BY <3>1, <2>3 DEF Chronicle, Ordered
    <3>3. q[i].vt <= q[Len(q)].vf /\ q[Len(q)].vf \in Times /\ q[i].vt \in Times \cup {Open}
      BY <3>2 DEF Before, Rows
    <3> QED
      BY <3>3, <2>2, RowsAre
  <2> QED
    BY <2>1, <2>2, <2>3, <2>4 DEF Newest, Last
<1>2. CASE ~ \E r \in ToSet(q) : r.body = b /\ r.vf <= from /\ r.vt >= Open
  <2> DEFINE p == AfterInvalidate(q, from)
             r == Seg(b, from, Open)
             T == Rows(n)
  <2>1. AfterPut(q, b, from, Open) = p \o <<r>>
    BY <1>2, PutIsInvalidate
  <2>2. p \in Seq(Upto(n, from)) /\ Ordered(p, Before)
    BY InvalidateKeeps
  <2>3. r \in T /\ r.vf = from /\ r.body = b /\ r \in Rows(Open)
    BY SegIsRow, RowsAre
  <2>4. p \in Seq(T)
    <3>1. Upto(n, from) \subseteq T
      BY DEF Upto
    <3> HIDE DEF p, T
    <3> QED BY <3>1, <2>2, SeqMonotonic
  <2>5. \A i \in 1..Len(p) : <<p[i], r>> \in Before
    <3> SUFFICES ASSUME NEW i \in 1..Len(p) PROVE <<p[i], r>> \in Before
      OBVIOUS
    <3>1. p[i] \in Upto(n, from)
      <4> HIDE DEF p
      <4> QED BY <2>2, ElementOfSeq
    <3>2. p[i] \in Rows(Open) /\ p[i].vt <= from
      BY <3>1, RowsAre DEF Upto
    <3> HIDE DEF p, r
    <3> QED
      BY <3>2, <2>3, RowsAre
  <2> HIDE DEF p, r, T
  <2> DEFINE e == <<r>>
  <2>6. e \in Seq(T) /\ Len(e) = 1 /\ e[1] = r /\ Ordered(e, Before)
    BY <2>3 DEF Ordered
  <2> HIDE DEF e
  <2>7. Ordered(p \o e, Before) /\ p \o e \in Seq(T)
    <3>1. \A i \in 1..Len(p), j \in 1..Len(e) : <<p[i], e[j]>> \in Before
      BY <2>5, <2>6
    <3> QED
      BY <2>2, <2>4, <2>6, <3>1, OrderedConcat, ConcatProperties
  <2>8. Len(p \o e) = Len(p) + 1 /\ Len(p) \in Nat /\ (p \o e)[Len(p) + 1] = r
    <3>1. /\ Len(p \o e) = Len(p) + Len(e) /\ Len(p) \in Nat
          /\ \A i \in 1..(Len(p) + Len(e)) : (p \o e)[i] = IF i <= Len(p) THEN p[i]
                                                          ELSE e[i - Len(p)]
      BY <2>4, <2>6, ConcatProperties, LenProperties
    <3>2. Len(p) + 1 \in 1..(Len(p) + 1) /\ ~(Len(p) + 1 <= Len(p)) /\ Len(p) + 1 - Len(p) = 1
      BY <3>1
    <3> QED
      BY <3>1, <3>2, <2>6
  <2>9. p \o e # <<>> /\ Last(p \o e) = r
    BY <2>8 DEF Last
  <2> QED
    BY <2>1, <2>3, <2>7, <2>9 DEF Chronicle, Newest, T, e
<1> QED
  BY <1>1, <1>2

\* An invalidation keeps the chronicle.
LEMMA InvalidateChronicle ==
  ASSUME NEW n \in Nat, NEW q, Chronicle(q, n), NEW at \in Times
  PROVE  Chronicle(AfterInvalidate(q, at), n)
<1>1. Upto(n, at) \subseteq Rows(n)
  BY DEF Upto
<1> DEFINE p == AfterInvalidate(q, at)
<1>2. p \in Seq(Upto(n, at)) /\ Ordered(p, Before)
  BY InvalidateKeeps
<1> HIDE DEF p
<1>3. p \in Seq(Rows(n))
  BY <1>1, <1>2, SeqMonotonic
<1> QED
  BY <1>2, <1>3 DEF Chronicle, p

\* It brings no row to a record without any.
LEMMA InvalidateNothing == ASSUME NEW at PROVE AfterInvalidate(<<>>, at) = <<>>
<1> DEFINE past == [i \in DOMAIN <<>> |-> IF (<<>>)[i].vt <= at THEN <<(<<>>)[i]>> ELSE <<>>]
           cut == [i \in DOMAIN <<>> |-> IF (<<>>)[i].vt > at /\ (<<>>)[i].vf < at
                     THEN <<Seg((<<>>)[i].body, (<<>>)[i].vf, at)>> ELSE <<>>]
<1>1. past = <<>> /\ cut = <<>>
  OBVIOUS
<1>2. AfterInvalidate(<<>>, at) = FlattenSeq(past) \o FlattenSeq(cut)
  BY DEF AfterInvalidate
<1>3. FlattenSeq(<<>>) = <<>>
  BY DEF FlattenSeq
<1> HIDE DEF past, cut
<1> QED
  BY <1>1, <1>2, <1>3

\* Newest tells a record with live rows from one without.
LEMMA ChronicleTypes ==
  ASSUME NEW q, NEW n, Chronicle(q, n)
  PROVE  /\ Newest(q) \in Bodies \cup {None} /\ (Newest(q) = None <=> q = <<>>)
         /\ \A r \in ToSet(q) : r.body \in Bodies /\ r.vf \in Times
                               /\ r.vt \in Times \cup {Open} /\ r.vf < r.vt
<1>1. \A i \in 1..Len(q) : q[i] \in Rows(n)
  BY ElementOfSeq DEF Chronicle
<1>2. \A r \in ToSet(q) : r \in Rows(n)
  BY <1>1, LenProperties DEF ToSet, Chronicle
<1>3. q # <<>> => Last(q).body \in Bodies
  <2>1. q # <<>> => Len(q) \in 1..Len(q)
    BY EmptySeq DEF Chronicle
  <2> QED
    BY <2>1, <1>1 DEF Last, Rows
<1> QED
  BY <1>2, <1>3, ScopesAssumption DEF Newest, Rows

\* What a record says now is what it says last.
LEMMA CurrentIsNewest ==
  ASSUME now \in Nat, NEW q, Chronicle(q, now), Current(q) # {}
  PROVE  q # <<>> /\ Current(q) = {Newest(q)}
<1>1. ASSUME NEW i \in 1..Len(q), q[i].vf <= now, now < q[i].vt PROVE i = Len(q)
  <2>1. Len(q) \in Nat
    BY LenProperties DEF Chronicle
  <2>2. SUFFICES ASSUME i < Len(q) PROVE FALSE
    BY <2>1
  <2>3. <<q[i], q[Len(q)]>> \in Before
    BY <2>1, <2>2 DEF Chronicle, Ordered
  <2>4. q[i].vt <= q[Len(q)].vf /\ q[i].vt \in Nat /\ q[Len(q)].vf \in Nat
    BY <2>3, RowsAre DEF Before
  <2>5. q[Len(q)] \in Rows(now)
    BY <2>1, <2>2, ElementOfSeq DEF Chronicle
  <2> QED
    BY <2>4, <2>5, <1>1 DEF Rows
<1>2. DOMAIN q = 1..Len(q)
  BY LenProperties DEF Chronicle
<1>3. PICK i \in 1..Len(q) : q[i].vf <= now /\ now < q[i].vt
  BY <1>2 DEF Current, ToSet
<1>4. q # <<>>
  BY <1>3
<1>5. Current(q) = {q[Len(q)].body}
  BY <1>1, <1>2, <1>3 DEF Current, ToSet
<1> QED
  BY <1>4, <1>5 DEF Newest, Last

-----------------------------------------------------------------------------
(* The slots.                                                              *)

\* Every save is open-ended: no caller of remember names an interval of its own.
OpenEnded == ~BoundedSaves

Chronicles ==
  /\ now \in Nat /\ heals \in Nat /\ segs = [s \in Scopes |-> segs[s]]
  /\ \A s \in Scopes : Chronicle(segs[s], now)

\* A request that holds the lock resyncs slots to what is newest in its commit; a re-embedder
\* that is off has nothing under way.
Owed ==
  /\ \A w \in work : w[2] = Newest(segs[w[1]])
  /\ job["request"] # NoJob => job["request"].body = Newest(segs[job["request"].scope])
  /\ \A a \in Actors : job[a].step = "insert" => job[a].body # None
  /\ heal = "off" => job["healer"] = NoJob

\* What an actor is about to insert has been newest since the re-embedder last read the record;
\* so has what a slot holds, unless it is about to be cleared.
Clearing(s) == \E a \in Actors : job[a].step = "clear" /\ job[a].scope = s
Recent ==
  /\ \A s \in Scopes : Newest(segs[s]) \in since[s]
  /\ \A a \in Actors : job[a] # NoJob => job[a].body \in since[job[a].scope]
  /\ \A s \in Scopes \ faulty : slot[s] \subseteq since[s] \/ Clearing(s)

\* Before the first re-embedding a slot is up to date, or the request still has it to do.
Pending(s) ==
  \/ \E w \in work : w[1] = s
  \/ /\ job["request"] # NoJob /\ job["request"].scope = s
     /\ job["request"].step = "clear" \/ slot[s] = {}
Fresh ==
  heals = 0 =>
    /\ heal = "off"
    /\ \A s \in Scopes \ faulty : Pending(s) \/ slot[s] = Embeds(Newest(segs[s]))

SlotInv == TypeOK /\ Chronicles /\ Owed /\ Recent /\ Fresh

\* The jobs of the two actors, taken apart.
LEMMA JobTypes ==
  ASSUME TypeOK
  PROVE  /\ NoJob.step = "none" /\ NoJob \notin Job
         /\ job = [a \in Actors |-> job[a]]
         /\ \A a \in Actors :
              \/ job[a] = NoJob
              \/ /\ job[a] \in Job /\ job[a] # NoJob
                 /\ job[a].step \in {"clear", "insert"} /\ job[a].scope \in Scopes
                 /\ job[a].body \in Bodies \cup {None}
<1>1. \A j \in Job : /\ j.step \in {"clear", "insert"} /\ j.scope \in Scopes
                     /\ j.body \in Bodies \cup {None}
  BY DEF Job
<1>2. NoJob.step = "none"
  BY DEF NoJob
<1>3. \A j \in Job : j # NoJob
  BY <1>1, <1>2
<1> QED
  BY <1>1, <1>2, <1>3 DEF TypeOK

\* The lock is free: nothing is owed but what the re-embedder does.
LEMMA CommitKeeps ==
  ASSUME SlotInv, NEW after, NEW queue, Commit(after, queue),
         after = [s \in Scopes |-> after[s]],
         \A s \in Scopes : Chronicle(after[s], now),
         queue \subseteq Scopes \X (Bodies \cup {None}),
         \A w \in queue : w[2] = Newest(after[w[1]]),
         \A s \in Scopes : (\E w \in queue : w[1] = s) \/ Newest(after[s]) = Newest(segs[s])
  PROVE  SlotInv'
<1>1. /\ work = {} /\ job["request"] = NoJob /\ job' = job /\ slot' = slot /\ heal' = heal
      /\ faulty' = faulty /\ now' = now /\ heals' = heals /\ todo' = todo /\ segs' = after
      /\ work' = queue /\ since' = [s \in Scopes |-> since[s] \cup {Newest(after[s])}]
  BY DEF Commit, Unlocked, healer
<1>2. TypeOK'
  <2>1. since' \in [Scopes -> SUBSET (Bodies \cup {None})]
    BY <1>1, ChronicleTypes DEF SlotInv, TypeOK
  <2>2. \A s \in Scopes : \A r \in ToSet(after[s]) :
          r.body \in Bodies /\ r.vf \in Times /\ r.vt \in Times \cup {Open} /\ r.vf < r.vt
    BY ChronicleTypes
  <2> QED
    BY <1>1, <2>1, <2>2 DEF SlotInv, TypeOK
<1>3. Chronicles'
  BY <1>1 DEF SlotInv, Chronicles
<1>4. Owed'
  BY <1>1 DEF SlotInv, Owed, Newest
<1>5. Recent'
  <2>1. \A s \in Scopes : Newest(after[s]) \in since'[s] /\ since[s] \subseteq since'[s]
    BY <1>1
  <2> QED
    BY <1>1, <2>1, JobTypes DEF SlotInv, Recent, Clearing, Newest
<1>6. Fresh'
  BY <1>1 DEF SlotInv, Fresh, Pending, Newest, Embeds
<1> QED
  BY <1>2, <1>3, <1>4, <1>5, <1>6 DEF SlotInv

\* A request owes each slot what is newest in its commit; Resync leaves out no slot whose
\* record has another newest body than it had.
LEMMA RequestKeeps ==
  ASSUME OpenEnded, SlotInv, Request
  PROVE  SlotInv'
<1>1. ASSUME NEW s \in Scopes, NEW b \in Bodies, NEW from \in Times, NEW to \in Times \cup {Open},
             SaveEntry(s, b, from, to)
      PROVE  SlotInv'
  <2> DEFINE after == [segs EXCEPT ![s] = AfterPut(@, b, from, to)]
  <2>1. to = Open /\ from <= now /\ Commit(after, {<<s, b>>})
    BY <1>1 DEF SaveEntry, MayAssert, OpenEnded
  <2>2. /\ after = [x \in Scopes |-> after[x]] /\ now \in Nat
        /\ \A x \in Scopes : after[x] = IF x = s THEN AfterPut(segs[s], b, from, Open) ELSE segs[x]
        /\ \A x \in Scopes : Chronicle(segs[x], now)
    BY <2>1 DEF SlotInv, Chronicles
  <2>3. /\ Chronicle(AfterPut(segs[s], b, from, Open), now)
        /\ Newest(AfterPut(segs[s], b, from, Open)) = b
    BY <2>1, <2>2, PutKeeps
  <2> HIDE DEF after
  <2>4. \A x \in Scopes : Chronicle(after[x], now)
    BY <2>2, <2>3
  <2>5. \A x \in Scopes : x = s \/ Newest(after[x]) = Newest(segs[x])
    BY <2>2
  <2>6. \A w \in {<<s, b>>} : w[1] = s /\ w[2] = Newest(after[w[1]])
    BY <2>2, <2>3
  <2>7. {<<s, b>>} \subseteq Scopes \X (Bodies \cup {None})
    OBVIOUS
  <2> QED
    BY <2>1, <2>2, <2>4, <2>5, <2>6, <2>7, CommitKeeps
<1>2. ASSUME NEW S \in SUBSET Scopes, NEW after, after = [s \in Scopes |-> after[s]],
             \A s \in Scopes : Chronicle(after[s], now),
             \A s \in Scopes \ S : after[s] = segs[s],
             \A s \in S : segs[s] = <<>> => after[s] = <<>>,
             Commit(after, Resync(S, after))
      PROVE  SlotInv'
  <2> DEFINE queue == Resync(S, after)
  <2>1. \A w \in queue : /\ w[1] \in S /\ w[2] = Newest(after[w[1]])
                        /\ w = <<w[1], w[2]>>
    BY DEF Resync
  <2>2. \A s \in Scopes : Newest(after[s]) \in Bodies \cup {None}
    BY <1>2, ChronicleTypes
  <2>3. queue \subseteq Scopes \X (Bodies \cup {None})
    <3>1. \A s \in S : <<s, Newest(after[s])>> \in Scopes \X (Bodies \cup {None})
      BY <2>2
    <3> QED
      BY <3>1 DEF Resync
  <2>4. ASSUME NEW s \in Scopes, Newest(after[s]) # Newest(segs[s])
        PROVE  \E w \in queue : w[1] = s
    <3>1. s \in S /\ segs[s] # <<>>
      BY <1>2, <2>4
    <3>2. <<s, Newest(after[s])>> \in queue
      BY <3>1, <2>4 DEF Resync
    <3> QED
      BY <3>2
  <2> HIDE DEF queue
  <2>5. Commit(after, queue)
    BY <1>2 DEF queue
  <2> QED
    BY <1>2, <2>1, <2>3, <2>4, <2>5, CommitKeeps
<1>3. now \in Nat /\ \A s \in Scopes : Chronicle(segs[s], now)
  BY DEF SlotInv, Chronicles
<1>4. \A S \in Reaches : S \in SUBSET Scopes
  BY DEF Reaches
<1>5. ASSUME NEW S \in Reaches, Forget(S) PROVE SlotInv'
  <2> DEFINE after == [s \in Scopes |-> IF s \in S THEN <<>> ELSE segs[s]]
  <2>1. Chronicle(<<>>, now)
    BY EmptySeq DEF Chronicle, Ordered
  <2>2. Commit(after, Resync(S, after))
    BY <1>5 DEF Forget
  <2>3. \A s \in Scopes : Chronicle(after[s], now)
    BY <1>3, <2>1
  <2>4. /\ after = [s \in Scopes |-> after[s]] /\ (\A s \in Scopes \ S : after[s] = segs[s])
        /\ \A s \in S : segs[s] = <<>> => after[s] = <<>>
    BY <1>4
  <2> HIDE DEF after
  <2> QED
    BY <1>2, <1>4, <2>2, <2>3, <2>4
<1>6. ASSUME NEW S \in Reaches, NEW at \in Times, Invalidate(S, at) PROVE SlotInv'
  <2> DEFINE after == [s \in Scopes |-> IF s \in S THEN AfterInvalidate(segs[s], at) ELSE segs[s]]
  <2>2. Commit(after, Resync(S, after))
    BY <1>6 DEF Invalidate
  <2>3. \A s \in Scopes : Chronicle(after[s], now)
    BY <1>3, InvalidateChronicle
  <2>4. /\ after = [s \in Scopes |-> after[s]] /\ (\A s \in Scopes \ S : after[s] = segs[s])
        /\ \A s \in S : segs[s] = <<>> => after[s] = <<>>
    BY <1>4, InvalidateNothing
  <2> HIDE DEF after
  <2> QED
    BY <1>2, <1>4, <2>2, <2>3, <2>4
<1> QED
  BY <1>1, <1>5, <1>6 DEF Request

\* No record, no slot.
LEMMA InitInv == ASSUME Init PROVE SlotInv
<1>1. Chronicle(<<>>, 1) /\ Newest(<<>>) = None /\ ToSet(<<>>) = {}
  BY EmptySeq DEF Chronicle, Ordered, Newest, ToSet
<1>2. job = [a \in Actors |-> NoJob] /\ NoJob.step = "none"
  BY DEF Init, NoJob
<1>3. TypeOK
  BY <1>1, <1>2, ScopesAssumption DEF Init, TypeOK
<1>4. Chronicles
  BY <1>1 DEF Init, Chronicles
<1>5. Owed
  BY <1>2 DEF Init, Owed, Actors
<1>6. Recent
  BY <1>1, <1>2 DEF Init, Recent
<1>7. Fresh
  BY <1>1 DEF Init, Fresh, Embeds
<1> QED
  BY <1>3, <1>4, <1>5, <1>6, <1>7 DEF SlotInv

\* Time passing ends no row.
LEMMA TickKeeps == ASSUME SlotInv, Tick PROVE SlotInv'
<1>1. /\ now' = now + 1 /\ now \in Nat /\ segs' = segs /\ slot' = slot /\ work' = work
      /\ job' = job /\ heal' = heal /\ todo' = todo /\ heals' = heals /\ faulty' = faulty
      /\ since' = since
  BY DEF Tick, SlotInv, Chronicles, healer
<1>2. Rows(now) \subseteq Rows(now + 1)
  BY <1>1, RowsAre DEF Rows
<1>3. Chronicles'
  <2>1. ASSUME NEW q, q \in Seq(Rows(now)) PROVE q \in Seq(Rows(now + 1))
    BY <1>2, <2>1, SeqMonotonic
  <2> QED
    BY <1>1, <2>1 DEF SlotInv, Chronicles, Chronicle
<1>4. TypeOK'
  BY <1>1 DEF SlotInv, TypeOK
<1>5. Owed' /\ Recent' /\ Fresh'
  BY <1>1 DEF SlotInv, Owed, Recent, Fresh, Pending, Clearing
<1> QED
  BY <1>3, <1>4, <1>5 DEF SlotInv

\* A request turns to the next slot it owes.
LEMMA NextSlotKeeps == ASSUME SlotInv, NEW w \in work, NextSlot(w) PROVE SlotInv'
<1> DEFINE new == [step |-> "clear", scope |-> w[1], body |-> w[2]]
<1>1. /\ segs' = segs /\ slot' = slot /\ now' = now /\ heal' = heal /\ todo' = todo
      /\ heals' = heals /\ faulty' = faulty /\ since' = since /\ work' = work \ {w}
      /\ job["request"] = NoJob /\ job' = [job EXCEPT !["request"] = new]
  BY DEF NextSlot, store, healer
<1>2. /\ w[1] \in Scopes /\ w[2] \in Bodies \cup {None} /\ w[2] = Newest(segs[w[1]])
      /\ w[2] \in since[w[1]]
  BY DEF SlotInv, TypeOK, Owed, Recent
<1>3. /\ new \in Job /\ new.step = "clear" /\ new.scope = w[1] /\ new.body = w[2]
  BY <1>2 DEF Job
<1> HIDE DEF new
<1>4. job'["request"] = new /\ job'["healer"] = job["healer"] /\ Actors = {"request", "healer"}
  BY <1>1, JobTypes DEF SlotInv, Actors
<1>5. TypeOK'
  <2>1. job' \in [Actors -> Job \cup {NoJob}]
    BY <1>1, <1>3 DEF SlotInv, TypeOK
  <2> QED
    BY <1>1, <2>1 DEF SlotInv, TypeOK
<1>6. Chronicles'
  BY <1>1 DEF SlotInv, Chronicles
<1>7. Owed'
  BY <1>1, <1>2, <1>3, <1>4 DEF SlotInv, Owed, Newest
<1>8. Recent'
  <2>1. \A s : Clearing(s) => Clearing(s)'
    BY <1>1, <1>4, JobTypes DEF SlotInv, Clearing
  <2> QED
    BY <1>1, <1>2, <1>3, <1>4, <2>1 DEF SlotInv, Recent, Newest
<1>9. Fresh'
  <2>1. \A s : Pending(s) => Pending(s)'
    <3>1. ASSUME NEW s, Pending(s) PROVE Pending(s)'
      <4>1. PICK x \in work : x[1] = s
        BY <1>1, <3>1 DEF Pending
      <4>2. new # NoJob
        BY <1>3, JobTypes DEF SlotInv
      <4> QED
        BY <1>1, <1>3, <1>4, <4>1, <4>2 DEF Pending
    <3> QED BY <3>1
  <2> QED
    BY <1>1, <2>1 DEF SlotInv, Fresh, Newest
<1> QED
  BY <1>5, <1>6, <1>7, <1>8, <1>9 DEF SlotInv

\* What the steps of an upsert leave alone, and the job they end with.
JobStep(a, new) ==
  /\ job[a] # NoJob /\ job' = [job EXCEPT ![a] = new]
  /\ new = NoJob \/ (job[a].body # None /\ new = [job[a] EXCEPT !.step = "insert"])
  /\ segs' = segs /\ now' = now /\ work' = work /\ heals' = heals /\ since' = since

\* What holds after every step of an upsert, whatever it does to the slot.
LEMMA JobStepKeeps ==
  ASSUME SlotInv, NEW a \in Actors, NEW new, JobStep(a, new),
         heal' = heal \/ (heal' = "off" /\ a = "healer" /\ new = NoJob),
         todo' \subseteq todo, faulty' \subseteq Scopes
  PROVE  /\ job' \in [Actors -> Job \cup {NoJob}] /\ job'[a] = new /\ job'[a].step # "clear"
         /\ \A o \in Actors \ {a} : job'[o] = job[o]
         /\ heal' \in {"off", "global", "scopes"} /\ todo' \subseteq Scopes
         /\ Chronicles' /\ Owed'
         /\ \A s \in Scopes : Newest(segs[s])' \in since'[s]
         /\ \A o \in Actors : job'[o] # NoJob => job'[o].body \in since'[job'[o].scope]
         /\ \A s \in Scopes : s # job[a].scope /\ Clearing(s) => Clearing(s)'
         /\ heals = 0 => heal = "off" /\ a = "request" /\ heal' = "off"
<1>1. /\ job[a] \in Job /\ job[a].step \in {"clear", "insert"} /\ job[a].scope \in Scopes
      /\ job[a].body \in Bodies \cup {None} /\ NoJob.step = "none"
  BY JobTypes DEF SlotInv, JobStep
<1>2. new = NoJob \/ /\ new \in Job /\ new.step = "insert" /\ new.scope = job[a].scope
                     /\ new.body = job[a].body /\ new.body # None
  <2>1. ASSUME job[a].body # None, new = [job[a] EXCEPT !.step = "insert"]
        PROVE  /\ new \in Job /\ new.step = "insert" /\ new.scope = job[a].scope
               /\ new.body = job[a].body /\ new.body # None
    BY <1>1, <2>1 DEF Job
  <2> QED
    BY <2>1 DEF JobStep
<1>3. /\ job' \in [Actors -> Job \cup {NoJob}] /\ job'[a] = new
      /\ \A o \in Actors \ {a} : job'[o] = job[o]
  BY <1>2 DEF SlotInv, TypeOK, JobStep
<1>4. job'[a].step # "clear"
  BY <1>1, <1>2, <1>3
<1>5. heal' \in {"off", "global", "scopes"} /\ todo' \subseteq Scopes
  BY DEF SlotInv, TypeOK
<1>6. Chronicles'
  BY DEF SlotInv, Chronicles, JobStep
<1>7. Owed'
  <2>1. \A w \in work' : w[2] = Newest(segs'[w[1]])
    BY DEF SlotInv, Owed, JobStep, Newest
  <2>2. job'["request"] # NoJob => job'["request"].body = Newest(segs'[job'["request"].scope])
    BY <1>2, <1>3 DEF SlotInv, Owed, JobStep, Newest, Actors
  <2>3. \A o \in Actors : job'[o].step = "insert" => job'[o].body # None
    BY <1>1, <1>2, <1>3 DEF SlotInv, Owed
  <2>4. heal' = "off" => job'["healer"] = NoJob
    BY <1>2, <1>3 DEF SlotInv, Owed, JobStep, Actors
  <2> QED
    BY <2>1, <2>2, <2>3, <2>4 DEF Owed, Newest
<1>8. /\ \A s \in Scopes : Newest(segs[s])' \in since'[s]
      /\ \A o \in Actors : job'[o] # NoJob => job'[o].body \in since'[job'[o].scope]
  BY <1>2, <1>3 DEF SlotInv, Recent, JobStep, Newest
<1>9. \A s \in Scopes : s # job[a].scope /\ Clearing(s) => Clearing(s)'
  BY <1>3 DEF Clearing
<1>10. heals = 0 => heal = "off" /\ a = "request" /\ heal' = "off"
  BY DEF SlotInv, Fresh, Owed, Actors, JobStep
<1> QED
  BY <1>3, <1>4, <1>5, <1>6, <1>7, <1>8, <1>9, <1>10

\* The delete: the slot is empty until the insert, unless a removal was all that was owed.
LEMMA ClearKeeps == ASSUME SlotInv, NEW a \in Actors, Clear(a) PROVE SlotInv'
<1> DEFINE j == job[a]
           new == IF j.body = None THEN NoJob ELSE [j EXCEPT !.step = "insert"]
<1>1. /\ j.step = "clear" /\ slot' = [slot EXCEPT ![j.scope] = {}]
      /\ faulty' = IF j.body = None THEN faulty \ {j.scope} ELSE faulty
      /\ job' = [job EXCEPT ![a] = new] /\ heal' = heal /\ todo' = todo /\ work' = work
      /\ segs' = segs /\ now' = now /\ heals' = heals /\ since' = since
  BY DEF Clear, store, healer
<1>2. /\ j \in Job /\ j # NoJob /\ j.scope \in Scopes /\ j.body \in Bodies \cup {None}
  BY <1>1, JobTypes DEF SlotInv
<1>3. JobStep(a, new) /\ faulty' \subseteq Scopes
  BY <1>1, <1>2 DEF JobStep, SlotInv, TypeOK
<1>4. /\ job' \in [Actors -> Job \cup {NoJob}] /\ job'[a] = new /\ job'[a].step # "clear"
      /\ \A o \in Actors \ {a} : job'[o] = job[o]
      /\ heal' \in {"off", "global", "scopes"} /\ todo' \subseteq Scopes
      /\ Chronicles' /\ Owed'
      /\ \A s \in Scopes : Newest(segs[s])' \in since'[s]
      /\ \A o \in Actors : job'[o] # NoJob => job'[o].body \in since'[job'[o].scope]
      /\ \A s \in Scopes : s # job[a].scope /\ Clearing(s) => Clearing(s)'
      /\ heals = 0 => heal = "off" /\ a = "request" /\ heal' = "off"
  <2> HIDE DEF new, j
  <2> QED BY <1>1, <1>3, JobStepKeeps
<1>5. slot' \in [Scopes -> SUBSET Bodies] /\ slot'[j.scope] = {}
      /\ \A s \in Scopes \ {j.scope} : slot'[s] = slot[s]
  BY <1>1, <1>2 DEF SlotInv, TypeOK
<1>6. TypeOK'
  BY <1>1, <1>3, <1>4, <1>5 DEF SlotInv, TypeOK
<1>7. Recent'
  <2>1. ASSUME NEW s \in Scopes \ faulty' PROVE slot'[s] \subseteq since'[s] \/ Clearing(s)'
    BY <1>1, <1>4, <1>5 DEF SlotInv, Recent
  <2> QED
    BY <2>1, <1>4 DEF Recent
<1>8. Fresh'
  <2> SUFFICES ASSUME heals = 0, NEW s \in Scopes \ faulty'
               PROVE  Pending(s)' \/ slot'[s] = Embeds(Newest(segs[s]))
    BY <1>1, <1>4 DEF Fresh, Embeds, Newest
  <2>1. a = "request" /\ j.body = Newest(segs[j.scope])
    BY <1>2, <1>4 DEF SlotInv, Owed
  <2>2. CASE s = j.scope /\ j.body = None
    BY <2>1, <2>2, <1>5 DEF Embeds
  <2>3. CASE s = j.scope /\ j.body # None
    <3>1. new \in Job /\ new.scope = s
      BY <1>2, <2>3 DEF Job
    <3>2. new # NoJob
      BY <3>1, JobTypes DEF SlotInv
    <3> HIDE DEF new
    <3> QED
      BY <1>4, <1>5, <2>1, <2>3, <3>1, <3>2 DEF Pending
  <2>4. CASE s # j.scope
    <3>1. Pending(s) \/ slot[s] = Embeds(Newest(segs[s]))
      BY <1>1, <2>4 DEF SlotInv, Fresh
    <3>2. Pending(s) => Pending(s)'
      BY <1>1, <2>1, <2>4 DEF Pending
    <3> QED
      BY <3>1, <3>2, <2>4, <1>5
  <2> QED BY <2>2, <2>3, <2>4
<1> QED
  BY <1>4, <1>6, <1>7, <1>8 DEF SlotInv

\* The insert: chunks that were there already are newest since the last reading as well.
LEMMA InsertKeeps == ASSUME SlotInv, NEW a \in Actors, Insert(a) PROVE SlotInv'
<1> DEFINE j == job[a]
           there == slot[j.scope]
<1>1. /\ j.step = "insert"
      /\ faulty' = IF there = {} THEN faulty \ {j.scope} ELSE faulty
      /\ job' = [job EXCEPT ![a] = NoJob] /\ heal' = heal /\ todo' = todo /\ work' = work
      /\ segs' = segs /\ now' = now /\ heals' = heals /\ since' = since
  BY DEF Insert, store, healer
<1>2. PICK chunks : /\ slot' = [slot EXCEPT ![j.scope] = chunks]
                    /\ there = {} => chunks = {j.body}
                    /\ there # {} => chunks = there \/ chunks = there \cup {j.body}
  BY DEF Insert
<1>3. /\ j \in Job /\ j # NoJob /\ j.scope \in Scopes /\ j.body \in Bodies
  BY <1>1, JobTypes DEF SlotInv, Owed
<1>4. JobStep(a, NoJob) /\ faulty' \subseteq Scopes
  BY <1>1, <1>3 DEF JobStep, SlotInv, TypeOK
<1>5. /\ job' \in [Actors -> Job \cup {NoJob}] /\ job'[a] = NoJob
      /\ \A o \in Actors \ {a} : job'[o] = job[o]
      /\ heal' \in {"off", "global", "scopes"} /\ todo' \subseteq Scopes
      /\ Chronicles' /\ Owed'
      /\ \A s \in Scopes : Newest(segs[s])' \in since'[s]
      /\ \A o \in Actors : job'[o] # NoJob => job'[o].body \in since'[job'[o].scope]
      /\ \A s \in Scopes : s # job[a].scope /\ Clearing(s) => Clearing(s)'
      /\ heals = 0 => heal = "off" /\ a = "request" /\ heal' = "off"
  <2> HIDE DEF j, there
  <2> QED BY <1>1, <1>4, JobStepKeeps
<1>6. /\ slot' \in [Scopes -> SUBSET Bodies] /\ slot'[j.scope] = chunks
      /\ \A s \in Scopes \ {j.scope} : slot'[s] = slot[s]
  BY <1>2, <1>3 DEF SlotInv, TypeOK
<1>7. TypeOK'
  BY <1>1, <1>4, <1>5, <1>6 DEF SlotInv, TypeOK
<1>8. Recent'
  <2>1. ASSUME NEW s \in Scopes \ faulty' PROVE slot'[s] \subseteq since'[s] \/ Clearing(s)'
    <3>1. CASE s # j.scope
      BY <1>1, <1>5, <1>6, <3>1 DEF SlotInv, Recent
    <3>2. CASE s = j.scope
      <4>1. j.body \in since[s]
        BY <1>3, <3>2 DEF SlotInv, Recent
      <4>2. CASE there = {}
        BY <1>1, <1>2, <1>6, <3>2, <4>1, <4>2
      <4>3. CASE there # {}
        <5>1. slot[s] \subseteq since[s] \/ Clearing(s)
          BY <1>1, <4>3 DEF SlotInv, Recent
        <5>2. Clearing(s) => Clearing(s)'
          BY <1>1, <1>5 DEF Clearing
        <5> QED
          BY <1>1, <1>2, <1>6, <3>2, <4>1, <4>3, <5>1, <5>2
      <4> QED BY <4>2, <4>3
    <3> QED BY <3>1, <3>2
  <2> QED
    BY <2>1, <1>5 DEF Recent
<1>9. Fresh'
  <2> SUFFICES ASSUME heals = 0, NEW s \in Scopes \ faulty'
               PROVE  Pending(s)' \/ slot'[s] = Embeds(Newest(segs[s]))
    BY <1>1, <1>5 DEF Fresh, Embeds, Newest
  <2>1. a = "request" /\ j.body = Newest(segs[j.scope]) /\ j.body # None
    BY <1>1, <1>3, <1>5 DEF SlotInv, Owed
  <2>2. CASE s = j.scope /\ there = {}
    BY <2>1, <2>2, <1>2, <1>6 DEF Embeds
  <2>3. CASE s = j.scope /\ there # {}
    <3>1. Pending(s) \/ slot[s] = Embeds(Newest(segs[s]))
      BY <1>1, <2>3 DEF SlotInv, Fresh
    <3>2. Pending(s) => \E w \in work : w[1] = s
      BY <1>1, <2>1, <2>3 DEF Pending
    <3>3. slot[s] = Embeds(Newest(segs[s])) => slot'[s] = slot[s]
      BY <1>2, <1>6, <2>1, <2>3 DEF Embeds
    <3> QED
      BY <1>1, <3>1, <3>2, <3>3 DEF Pending
  <2>4. CASE s # j.scope
    <3>1. Pending(s) \/ slot[s] = Embeds(Newest(segs[s]))
      BY <1>1, <2>4 DEF SlotInv, Fresh
    <3>2. Pending(s) => Pending(s)'
      BY <1>1, <2>1, <2>4 DEF Pending
    <3> QED
      BY <3>1, <3>2, <2>4, <1>6
  <2> QED BY <2>2, <2>3, <2>4
<1> QED
  BY <1>5, <1>7, <1>8, <1>9 DEF SlotInv

\* An index error marks the slot.
LEMMA IndexErrorKeeps == ASSUME SlotInv, NEW a \in Actors, IndexError(a) PROVE SlotInv'
<1> DEFINE j == job[a]
           stops == j.step = "insert" \/ j.body = None
           new == IF stops THEN NoJob ELSE [j EXCEPT !.step = "insert"]
<1>1. /\ j # NoJob /\ faulty' = faulty \cup {j.scope} /\ slot' = slot
      /\ job' = [job EXCEPT ![a] = new] /\ work' = work
      /\ segs' = segs /\ now' = now /\ heals' = heals /\ since' = since
      /\ (heal' = heal /\ todo' = todo)
           \/ (heal' = "off" /\ todo' = {} /\ a = "healer" /\ new = NoJob)
  BY DEF IndexError, store
<1>2. j \in Job /\ j.scope \in Scopes
  BY <1>1, JobTypes DEF SlotInv
<1>3. JobStep(a, new) /\ faulty' \subseteq Scopes
  BY <1>1, <1>2 DEF JobStep, SlotInv, TypeOK
<1>4. /\ job' \in [Actors -> Job \cup {NoJob}]
      /\ \A o \in Actors \ {a} : job'[o] = job[o]
      /\ heal' \in {"off", "global", "scopes"} /\ todo' \subseteq Scopes
      /\ Chronicles' /\ Owed'
      /\ \A s \in Scopes : Newest(segs[s])' \in since'[s]
      /\ \A o \in Actors : job'[o] # NoJob => job'[o].body \in since'[job'[o].scope]
      /\ \A s \in Scopes : s # job[a].scope /\ Clearing(s) => Clearing(s)'
      /\ heals = 0 => heal = "off" /\ a = "request" /\ heal' = "off"
  <2> HIDE DEF new, j
  <2> QED BY <1>1, <1>3, JobStepKeeps
<1>5. TypeOK'
  BY <1>1, <1>3, <1>4 DEF SlotInv, TypeOK
<1>6. Recent'
  <2>1. ASSUME NEW s \in Scopes \ faulty' PROVE slot'[s] \subseteq since'[s] \/ Clearing(s)'
    BY <1>1, <1>4 DEF SlotInv, Recent
  <2> QED
    BY <2>1, <1>4 DEF Recent
<1>7. Fresh'
  <2> SUFFICES ASSUME heals = 0, NEW s \in Scopes \ faulty'
               PROVE  Pending(s)' \/ slot'[s] = Embeds(Newest(segs[s]))
    BY <1>1, <1>4 DEF Fresh, Embeds, Newest
  <2>1. a = "request" /\ s # j.scope /\ s \in Scopes \ faulty
    BY <1>1, <1>4
  <2>2. Pending(s) \/ slot[s] = Embeds(Newest(segs[s]))
    BY <2>1 DEF SlotInv, Fresh
  <2>3. Pending(s) => Pending(s)'
    BY <1>1, <2>1 DEF Pending
  <2> QED
    BY <2>2, <2>3, <1>1
<1> QED
  BY <1>4, <1>5, <1>6, <1>7 DEF SlotInv

\* A crash marks every slot that was owed or half done.
LEMMA CrashKeeps == ASSUME SlotInv, Crash PROVE SlotInv'
<1>1. /\ work' = {} /\ job' = [a \in Actors |-> NoJob] /\ heal' = "off" /\ todo' = {}
      /\ segs' = segs /\ now' = now /\ slot' = slot /\ heals' = heals /\ since' = since
      /\ faulty' = faulty \cup {w[1] : w \in work}
                     \cup {job[a].scope : a \in {x \in Actors : job[x] # NoJob}}
  BY DEF Crash, store
<1>2. \A s \in Scopes \ faulty' : s \notin faulty /\ ~Pending(s) /\ ~Clearing(s)
  <2>1. \A a \in Actors : job[a].step = "clear" => job[a] # NoJob
    BY JobTypes DEF SlotInv
  <2> QED
    BY <1>1, <2>1 DEF Pending, Clearing, Actors
<1>3. faulty' \subseteq Scopes
  <2>1. \A a \in Actors : job[a] # NoJob => job[a].scope \in Scopes
    BY JobTypes DEF SlotInv
  <2>2. \A w \in work : w[1] \in Scopes
    BY DEF SlotInv, TypeOK
  <2> QED
    BY <1>1, <2>1, <2>2 DEF SlotInv, TypeOK
<1>4. TypeOK'
  BY <1>1, <1>3 DEF SlotInv, TypeOK
<1>5. Chronicles'
  BY <1>1 DEF SlotInv, Chronicles
<1>6. Owed'
  BY <1>1 DEF Owed, NoJob, Actors
<1>7. Recent'
  BY <1>1, <1>2 DEF SlotInv, Recent, Newest
<1>8. Fresh'
  BY <1>1, <1>2 DEF SlotInv, Fresh, Newest, Embeds
<1> QED
  BY <1>4, <1>5, <1>6, <1>7, <1>8 DEF SlotInv

\* Re-indexing embeds what is valid now, which is what is newest.
LEMMA ReindexKeeps == ASSUME SlotInv, ReindexEmbeddings PROVE SlotInv'
<1> DEFINE all == {s \in Scopes : Current(segs[s]) # {}}
<1>1. /\ slot' = [s \in Scopes |-> IF s \in all THEN Current(segs[s]) ELSE slot[s]]
      /\ faulty' = faulty \ all /\ segs' = segs /\ now' = now /\ work' = work /\ job' = job
      /\ heal' = heal /\ todo' = todo /\ heals' = heals /\ since' = since
      /\ Unlocked /\ heal = "off"
  BY DEF ReindexEmbeddings, store, healer
<1>2. ASSUME NEW s \in all
      PROVE  /\ Current(segs[s]) = {Newest(segs[s])} /\ Newest(segs[s]) \in Bodies
             /\ Embeds(Newest(segs[s])) = {Newest(segs[s])}
  <2>1. Chronicle(segs[s], now) /\ now \in Nat /\ Current(segs[s]) # {}
    BY DEF SlotInv, Chronicles
  <2>2. Current(segs[s]) = {Newest(segs[s])} /\ segs[s] # <<>>
    BY <2>1, CurrentIsNewest
  <2>3. Newest(segs[s]) \in Bodies
    BY <2>1, <2>2, ChronicleTypes
  <2> QED
    BY <2>2, <2>3, ScopesAssumption DEF Embeds
<1> HIDE DEF all
<1>3. all \subseteq Scopes
  BY DEF all
<1>4. TypeOK'
  BY <1>1, <1>2, <1>3 DEF SlotInv, TypeOK
<1>5. Chronicles' /\ Owed'
  BY <1>1 DEF SlotInv, Chronicles, Owed, Newest
<1>6. Recent'
  BY <1>1, <1>2 DEF SlotInv, Recent, Newest, Clearing
<1>7. Fresh'
  BY <1>1, <1>2 DEF SlotInv, Fresh, Newest, Embeds, Pending
<1> QED
  BY <1>4, <1>5, <1>6, <1>7 DEF SlotInv

\* The re-embedder reads the newest body of a record and has its slot to clear.
LEMMA HealerReads ==
  ASSUME SlotInv, NEW s \in Scopes, job["healer"] = NoJob, job' = HealerJob(s),
         since' = [since EXCEPT ![s] = {Newest(segs[s])}],
         slot' = slot, segs' = segs, now' = now, work' = work, faulty' = faulty,
         heals' \in Nat, heals' # 0, heal' \in {"global", "scopes"}, todo' \subseteq Scopes
  PROVE  SlotInv'
<1> DEFINE new == [step |-> "clear", scope |-> s, body |-> Newest(segs[s])]
<1>1. Newest(segs[s]) \in Bodies \cup {None}
  BY ChronicleTypes DEF SlotInv, Chronicles
<1>2. /\ new \in Job /\ new.step = "clear" /\ new.scope = s /\ new.body = Newest(segs[s])
  BY <1>1 DEF Job
<1>3. job' = [job EXCEPT !["healer"] = new]
  BY DEF HealerJob
<1> HIDE DEF new
<1>4. /\ job'["healer"] = new /\ job'["request"] = job["request"]
      /\ Actors = {"request", "healer"} /\ job' \in [Actors -> Job \cup {NoJob}]
  BY <1>2, <1>3 DEF SlotInv, TypeOK, Actors
<1>5. /\ since' \in [Scopes -> SUBSET (Bodies \cup {None})] /\ since'[s] = {Newest(segs[s])}
      /\ \A x \in Scopes \ {s} : since'[x] = since[x]
  BY <1>1 DEF SlotInv, TypeOK
<1>6. TypeOK'
  BY <1>4, <1>5 DEF SlotInv, TypeOK
<1>7. Chronicles'
  BY DEF SlotInv, Chronicles
<1>8. Owed'
  BY <1>2, <1>4 DEF SlotInv, Owed, Newest
<1>9. Recent'
  <2>1. \A x \in Scopes : Newest(segs[x])' \in since'[x]
    BY <1>5 DEF SlotInv, Recent, Newest
  <2>2. \A a \in Actors : job'[a] # NoJob => job'[a].body \in since'[job'[a].scope]
    <3>1. job["request"] # NoJob => job["request"].scope \in Scopes
      BY JobTypes DEF SlotInv, Actors
    <3> QED
      BY <3>1, <1>2, <1>4, <1>5 DEF SlotInv, Recent, Owed
  <2>3. ASSUME NEW x \in Scopes \ faulty PROVE slot[x] \subseteq since'[x] \/ Clearing(x)'
    <3>1. Clearing(s)'
      BY <1>2, <1>4 DEF Clearing
    <3>2. Clearing(x) => Clearing(x)'
      BY <1>4, JobTypes DEF SlotInv, Clearing
    <3> QED
      BY <3>1, <3>2, <1>5 DEF SlotInv, Recent
  <2> QED
    BY <2>1, <2>2, <2>3 DEF Recent
<1>10. Fresh'
  BY DEF Fresh
<1> QED
  BY <1>6, <1>7, <1>8, <1>9, <1>10 DEF SlotInv

\* A re-embedding reads the records one by one, each when its turn comes.
LEMMA HealKeeps ==
  ASSUME SlotInv, HealGlobal \/ ListScopes \/ HealDone \/ \E s \in Scopes : HealScope(s)
  PROVE  SlotInv'
<1>1. CASE HealGlobal
  <2>1. /\ heal = "off" /\ heals' = heals + 1 /\ heal' = "global" /\ job' = HealerJob(Global)
        /\ since' = [since EXCEPT ![Global] = {Newest(segs[Global])}] /\ slot' = slot
        /\ segs' = segs /\ now' = now /\ work' = work /\ faulty' = faulty /\ todo' = todo
    BY <1>1 DEF HealGlobal, store
  <2>2. /\ heals + 1 \in Nat /\ heals + 1 # 0 /\ job["healer"] = NoJob /\ todo \subseteq Scopes
    BY <2>1 DEF SlotInv, Chronicles, Owed, TypeOK
  <2> QED
    BY <2>1, <2>2, ScopesAssumption, HealerReads
<1>2. CASE ListScopes \/ HealDone
  <2>1. /\ slot' = slot /\ segs' = segs /\ now' = now /\ work' = work /\ faulty' = faulty
        /\ job' = job /\ since' = since /\ heals' = heals /\ heal' \in {"off", "scopes"}
        /\ job["healer"] = NoJob /\ heal # "off" /\ todo' \subseteq todo \cup Scopes
    BY <1>2 DEF ListScopes, HealDone, store
  <2>2. TypeOK'
    BY <2>1 DEF SlotInv, TypeOK
  <2>3. Chronicles'
    BY <2>1 DEF SlotInv, Chronicles
  <2>4. Owed' /\ Recent'
    BY <2>1 DEF SlotInv, Owed, Recent, Newest, Clearing
  <2>5. Fresh'
    BY <2>1 DEF SlotInv, Fresh
  <2> QED
    BY <2>2, <2>3, <2>4, <2>5 DEF SlotInv
<1>3. ASSUME NEW s \in Scopes, HealScope(s) PROVE SlotInv'
  <2>1. /\ slot' = slot /\ segs' = segs /\ now' = now /\ work' = work /\ faulty' = faulty
        /\ heals' = heals /\ heal' = heal /\ heal = "scopes" /\ job["healer"] = NoJob
        /\ todo' \subseteq todo
    BY <1>3 DEF HealScope, store
  <2>2. heals # 0 /\ heals \in Nat /\ todo' \subseteq Scopes
    BY <2>1 DEF SlotInv, Fresh, TypeOK, Chronicles
  <2>3. CASE segs[s] = <<>>
    <3>1. job' = job /\ since' = since
      BY <1>3, <2>3 DEF HealScope
    <3>2. TypeOK'
      BY <2>1, <2>2, <3>1 DEF SlotInv, TypeOK
    <3>3. Chronicles'
      BY <2>1 DEF SlotInv, Chronicles
    <3>4. Owed' /\ Recent'
      BY <2>1, <3>1 DEF SlotInv, Owed, Recent, Newest, Clearing
    <3>5. Fresh'
      BY <2>1, <2>2 DEF Fresh
    <3> QED
      BY <3>2, <3>3, <3>4, <3>5 DEF SlotInv
  <2>4. CASE segs[s] # <<>>
    <3>1. job' = HealerJob(s) /\ since' = [since EXCEPT ![s] = {Newest(segs[s])}]
      BY <1>3, <2>4 DEF HealScope
    <3> QED
      BY <2>1, <2>2, <3>1, HealerReads
  <2> QED BY <2>3, <2>4
<1> QED
  BY <1>1, <1>2, <1>3

\* A step of the other side changes nothing here.
LEMMA StutterKeeps == ASSUME SlotInv, UNCHANGED vars PROVE SlotInv'
<1>1. /\ slot' = slot /\ segs' = segs /\ now' = now /\ work' = work /\ faulty' = faulty
      /\ job' = job /\ since' = since /\ heals' = heals /\ heal' = heal /\ todo' = todo
  BY DEF vars
<1>2. TypeOK' /\ Chronicles'
  BY <1>1 DEF SlotInv, TypeOK, Chronicles
<1>3. Owed' /\ Recent' /\ Fresh'
  BY <1>1 DEF SlotInv, Owed, Recent, Fresh, Pending, Newest, Clearing, Embeds
<1> QED
  BY <1>2, <1>3 DEF SlotInv

\* Every step keeps the invariant.
LEMMA NextKeeps == ASSUME OpenEnded, SlotInv, Next PROVE SlotInv'
<1>1. CASE Tick
  BY <1>1, TickKeeps
<1>2. CASE Request
  BY <1>2, RequestKeeps
<1>3. CASE \E w \in work : NextSlot(w)
  BY <1>3, NextSlotKeeps
<1>4. CASE \E a \in Actors : Clear(a) \/ Insert(a) \/ IndexError(a)
  BY <1>4, ClearKeeps, InsertKeeps, IndexErrorKeeps
<1>5. CASE HealGlobal \/ ListScopes \/ HealDone \/ \E s \in Scopes : HealScope(s)
  BY <1>5, HealKeeps
<1>6. CASE Crash \/ ReindexEmbeddings
  BY <1>6, CrashKeeps, ReindexKeeps
<1> QED
  BY <1>1, <1>2, <1>3, <1>4, <1>5, <1>6 DEF Next

-----------------------------------------------------------------------------
(* The recalls of MCVectors are those that RetrievalProofs is about.       *)

\* The scopes of the records of MCVectors tell the versions of one uri apart.
LEMMA TheOneNewest == Sight!OneIsNewest
<1> SUFFICES ASSUME NEW S \in SUBSET TheRecords, S # {}, \A r, o \in S : r[1] = o[1]
             PROVE  \E r \in S : \A o \in S \ {r} : Rank(r) > Rank(o)
  BY DEF Sight!OneIsNewest, Sight!Uri, IsNewer
<1>1. \A r \in TheRecords : Rank(r) \in {1, 2, 3}
  BY DEF Rank
<1>2. \A r, o \in TheRecords : r[1] = o[1] /\ Rank(r) = Rank(o) => r = o
  BY DEF TheRecords, R, Rank
<1>3. CASE \E r \in S : Rank(r) = 3
  <2>1. PICK r \in S : Rank(r) = 3
    BY <1>3
  <2>2. \A o \in S \ {r} : Rank(o) \in {1, 2, 3} /\ Rank(o) # 3
    BY <1>1, <1>2, <2>1
  <2> QED BY <2>1, <2>2
<1>4. CASE (\A r \in S : Rank(r) # 3) /\ \E r \in S : Rank(r) = 2
  <2>1. PICK r \in S : Rank(r) = 2
    BY <1>4
  <2>2. \A o \in S \ {r} : Rank(o) \in {1, 2, 3} /\ Rank(o) # 2 /\ Rank(o) # 3
    BY <1>1, <1>2, <1>4, <2>1
  <2> QED BY <2>1, <2>2
<1>5. CASE \A r \in S : Rank(r) # 3 /\ Rank(r) # 2
  <2>1. PICK r \in S : TRUE
    OBVIOUS
  <2>2. \A o \in S : Rank(o) = 1
    BY <1>1, <1>5
  <2> QED BY <1>2, <2>1, <2>2
<1> QED
  BY <1>3, <1>4, <1>5

\* They are such as RetrievalProofs assumes.
LEMMA TheInputs == Sight!Inputs
<1>1. IsFiniteSet(TheRecords)
  <2>1. TheRecords = ({R("a", "shared"), R("a", "mine"), R("a", "other"), R("b", "other")}
                        \cup {R("c", "shared"), R("d", "other"), R("e", "shared")})
    BY DEF TheRecords
  <2>2. \A a, b, c : IsFiniteSet({a, b, c})
    <3> TAKE a, b, c
    <3>1. IsFiniteSet({a}) /\ IsFiniteSet({b}) /\ IsFiniteSet({c})
      BY FS_Singleton
    <3>2. {a, b, c} = ({a} \cup {b}) \cup {c}
      OBVIOUS
    <3> QED
      BY <3>1, <3>2, FS_Union
  <2>3. \A a, b, c, d : IsFiniteSet({a, b, c, d})
    <3> TAKE a, b, c, d
    <3>1. {a, b, c, d} = {a, b, c} \cup {d}
      OBVIOUS
    <3>2. IsFiniteSet({a, b, c}) /\ IsFiniteSet({d})
      BY <2>2, FS_Singleton
    <3> QED
      BY <3>1, <3>2, FS_Union
  <2> QED
    BY <2>1, <2>2, <2>3, FS_Union
<1>2. TheHeld \subseteq SUBSET TheRecords
  BY DEF TheHeld
<1>3. TheRankings \subseteq Seq(TheRecords)
  <2>1. /\ R("a", "shared") \in TheRecords /\ R("a", "mine") \in TheRecords
        /\ R("a", "other") \in TheRecords /\ R("b", "other") \in TheRecords
        /\ R("c", "shared") \in TheRecords /\ R("d", "other") \in TheRecords
        /\ R("e", "shared") \in TheRecords
    BY DEF TheRecords
  <2> QED
    BY <2>1 DEF TheRankings
<1> QED
  BY <1>1, <1>2, <1>3, TheOneNewest DEF Sight!Inputs, Sight!IsFiniteSet, IsFiniteSet

\* The uris are seven, and the sizes are such as the proof of RecallFinds assumes.
LEMMA TheSizes == Sight!Sizes
<1> DEFINE U == {"a", "b", "c", "d"} \cup {"e", "f", "x"}
<1>1. IsFiniteSet(U)
  <2>1. \A a, b, c : IsFiniteSet({a, b, c})
    <3> TAKE a, b, c
    <3>1. IsFiniteSet({a}) /\ IsFiniteSet({b}) /\ IsFiniteSet({c})
      BY FS_Singleton
    <3>2. {a, b, c} = ({a} \cup {b}) \cup {c}
      OBVIOUS
    <3> QED
      BY <3>1, <3>2, FS_Union
  <2>2. U = ({"a", "b", "c"} \cup {"d"}) \cup {"e", "f", "x"}
    OBVIOUS
  <2> HIDE DEF U
  <2> QED
    BY <2>1, <2>2, FS_Union, FS_Singleton
<1>2. \A r \in TheRecords : r[1] \in U
  BY DEF TheRecords, R
<1>3. \A e \in UNION TheGraphs : e[1] \in U /\ e[2] \in U
  BY DEF TheGraphs
<1> HIDE DEF U
<1>4. Sight!Uris \in SUBSET U
  BY <1>2, <1>3 DEF Sight!Uris, Sight!Uri
<1>5. IsFiniteSet(Sight!Uris)
  BY <1>1, <1>4, FS_Subset
<1> QED
  BY <1>5, TheInputs DEF Sight!Sizes, Sight!IsFiniteSet, IsFiniteSet

\* A recall starts here as it does there,
LEMMA SameInit == ASSUME Recall!Init PROVE Sight!Init
BY DEF Recall!Init, Sight!Init

\* and takes the same steps.
LEMMA SameNext == ASSUME Recall!Next PROVE Sight!Next
<1>1. Recall!Keyword => Sight!Keyword
  BY DEF Recall!Keyword, Sight!Keyword, Recall!walk, Sight!walk, Recall!reader, Sight!reader,
      Recall!Cardinality, Sight!Cardinality, Recall!Recallable, Sight!Recallable, Recall!Uri,
      Sight!Uri, Recall!Sees, Sight!Sees
<1>2. Recall!Search => Sight!Search
  BY DEF Recall!Search, Sight!Search, Recall!walk, Sight!walk, Recall!reader, Sight!reader,
      Recall!AtMost, Sight!AtMost, Recall!Collapse, Sight!Collapse, Recall!EntriesAt,
      Sight!EntriesAt, Recall!FlattenSeq, Sight!FlattenSeq
<1>3. Recall!SearchFails => Sight!SearchFails
  BY DEF Recall!SearchFails, Sight!SearchFails, Recall!walk, Sight!walk, Recall!reader,
      Sight!reader
<1>4. Recall!Resolve => Sight!Resolve
  BY DEF Recall!Resolve, Sight!Resolve, Recall!walk, Sight!walk, Recall!reader, Sight!reader,
      Recall!Resolved, Sight!Resolved, Recall!Sees, Sight!Sees, Recall!EntriesAt,
      Sight!EntriesAt, Recall!FlattenSeq, Sight!FlattenSeq, Recall!AtMost, Sight!AtMost,
      Recall!Enough, Sight!Enough
<1>5. Recall!Fuse => Sight!Fuse
  BY DEF Recall!Min, Sight!Min,
      Recall!Fuse, Sight!Fuse, Recall!channels, Sight!channels, Recall!reader, Sight!reader,
      Recall!Weight, Sight!Weight, Recall!Uri, Sight!Uri, Recall!walk, Sight!walk,
      Recall!Survivors, Sight!Survivors, Recall!Clears, Sight!Clears, Recall!FirstAt,
      Sight!FirstAt, Recall!SelectInSeq, Sight!SelectInSeq, Recall!ToSet, Sight!ToSet,
      Recall!KeywordSurvivors, Sight!KeywordSurvivors, Recall!OnePerUri, Sight!OnePerUri,
      Recall!Copy, Sight!Copy, Recall!Newest, Sight!Newest, Recall!Answers, Sight!Answers,
      Recall!Cardinality, Sight!Cardinality
<1>6. Recall!Expand => Sight!Expand
  BY DEF Recall!IsInjective, Sight!IsInjective,
      Recall!Expand, Sight!Expand, Recall!channels, Sight!channels, Recall!reader, Sight!reader,
      Recall!SetToSeq, Sight!SetToSeq, Recall!Cardinality, Sight!Cardinality, Recall!SeedUris,
      Sight!SeedUris, Recall!ToSet, Sight!ToSet, Recall!Uri, Sight!Uri, Recall!Adjacent,
      Sight!Adjacent, Recall!ScopeVisible, Sight!ScopeVisible, Recall!RowsOf, Sight!RowsOf,
      Recall!Newest, Sight!Newest, Recall!Sees, Sight!Sees, Recall!Touches, Sight!Touches,
      Recall!walk, Sight!walk
<1>7. Recall!NextHop => Sight!NextHop
  BY DEF Recall!NextHop, Sight!NextHop, Recall!channels, Sight!channels, Recall!reader,
      Sight!reader, Recall!walk, Sight!walk
<1>8. Recall!Hydrate => Sight!Hydrate
  BY DEF Recall!Hydrate, Sight!Hydrate, Recall!walk, Sight!walk, Recall!channels, Sight!channels,
      Recall!reader, Sight!reader, Recall!Newest, Sight!Newest, Recall!Sees, Sight!Sees,
      Recall!RowsOf, Sight!RowsOf, Recall!Uri, Sight!Uri, Recall!Before, Sight!Before,
      Recall!Left, Sight!Left, Recall!Filled, Sight!Filled
<1>9. Recall!LinksWithin => Sight!LinksWithin
  BY DEF Recall!LinksWithin, Sight!LinksWithin, Recall!walk, Sight!walk, Recall!channels,
      Sight!channels, Recall!reader, Sight!reader, Recall!Adjacent, Sight!Adjacent,
      Recall!ScopeVisible, Sight!ScopeVisible, Recall!RowsOf, Sight!RowsOf, Recall!Uri,
      Sight!Uri, Recall!Newest, Sight!Newest, Recall!Sees, Sight!Sees, Recall!Touches,
      Sight!Touches, Recall!ToSet, Sight!ToSet, Recall!SeedUris, Sight!SeedUris, Recall!Left,
      Sight!Left, Recall!Filled, Sight!Filled
<1>10. Recall!Forget => Sight!Forget
  BY DEF Recall!Forget, Sight!Forget, Recall!walk, Sight!walk, Recall!channels, Sight!channels,
      Recall!reader, Sight!reader, Recall!Uri, Sight!Uri, Recall!Touches, Sight!Touches,
      Recall!RowsOf, Sight!RowsOf
<1> QED
  BY <1>1, <1>2, <1>3, <1>4, <1>5, <1>6, <1>7, <1>8, <1>9, <1>10
  DEF Recall!Next, Sight!Next

\* A recall reads what its reader may see, and finds it; the other side leaves it alone.
ReadInv == part = "recall" => Sight!FindInv

\* Neither a step of the recall nor one of the slots breaks it.
LEMMA ReadInvKeeps == ASSUME ReadInv, [MCNext]_<<part, vars, reading>> PROVE ReadInv'
<1>1. CASE Reading
  <2>1. part = "recall" /\ Sight!Next
    BY <1>1, SameNext DEF Reading
  <2> QED
    BY <2>1, TheSizes, Sight!StepFinds DEF ReadInv
<1>2. CASE Writing \/ UNCHANGED <<part, vars, reading>>
  <2>1. part' = part /\ reading' = reading
    BY <1>2 DEF Writing
  <2>2. UNCHANGED Sight!vars
    BY <2>1 DEF reading, Sight!vars, Sight!reader, Sight!channels, Sight!walk
  <2> QED
    BY <2>1, <2>2, TheSizes, Sight!StepFinds DEF ReadInv
<1> QED
  BY <1>1, <1>2 DEF MCNext

\* What it shows is said of both in the same words.
LEMMA SameNothing == Sight!NothingOfOthers => Recall!NothingOfOthers
BY DEF Recall!NothingOfOthers, Sight!NothingOfOthers, Recall!ToSet, Sight!ToSet,
       Recall!Sees, Sight!Sees, Recall!Known,
       Sight!Known, Recall!RowsOf, Sight!RowsOf, Recall!Uri, Sight!Uri

\* And so is what it finds.
LEMMA SameTypes == Sight!TypeOK => Recall!TypeOK
BY DEF Recall!TypeOK, Sight!TypeOK, Recall!Cardinality, Sight!Cardinality, Recall!ToSet,
       Sight!ToSet, Recall!SeedUris, Sight!SeedUris, Recall!Uris, Sight!Uris, Recall!Uri, Sight!Uri

\* The vector channel,
LEMMA SameComplete == Sight!ShortChannelIsComplete => Recall!ShortChannelIsComplete
BY DEF Recall!ShortChannelIsComplete, Sight!ShortChannelIsComplete, Recall!ChannelIsComplete,
       Sight!ChannelIsComplete, Recall!ShortBodies, Sight!ShortBodies, Recall!Cardinality,
       Sight!Cardinality, Recall!ToSet, Sight!ToSet, Recall!Searched, Sight!Searched,
       Recall!Complete, Sight!Complete, Recall!LeftOut, Sight!LeftOut, Recall!Sees, Sight!Sees,
       Recall!FirstAt, Sight!FirstAt, Recall!SelectInSeq, Sight!SelectInSeq, Recall!Min, Sight!Min

\* the answer to a query that nothing is near to,
LEMMA SameOffTopic == Sight!OffTopicInjectsNothing => Recall!OffTopicInjectsNothing
BY DEF Recall!OffTopicInjectsNothing, Sight!OffTopicInjectsNothing, Recall!ShortBodies,
       Sight!ShortBodies, Recall!Cardinality, Sight!Cardinality, Recall!ToSet, Sight!ToSet,
       Recall!Searched, Sight!Searched, Recall!Sees, Sight!Sees, Recall!FirstAt, Sight!FirstAt,
       Recall!SelectInSeq, Sight!SelectInSeq, Recall!Min, Sight!Min

\* and the riders.
LEMMA SameRiders == Sight!RidersAreTheBest => Recall!RidersAreTheBest
BY DEF Recall!RidersAreTheBest, Sight!RidersAreTheBest, Recall!Cardinality, Sight!Cardinality,
       Recall!Adjacent, Sight!Adjacent, Recall!ScopeVisible, Sight!ScopeVisible, Recall!RowsOf,
       Sight!RowsOf, Recall!Uri, Sight!Uri, Recall!Newest, Sight!Newest, Recall!Sees, Sight!Sees,
       Recall!Touches, Sight!Touches, Recall!Recallable, Sight!Recallable, Recall!SeedUris,
       Sight!SeedUris, Recall!ToSet, Sight!ToSet, Recall!Weight, Sight!Weight

-----------------------------------------------------------------------------
(* What the invariants give.                                               *)

\* The invariant holds throughout.
LEMMA SlotsInvariant == ASSUME OpenEnded PROVE MCSpec => []SlotInv
<1>1. MCInit => SlotInv
  BY InitInv DEF MCInit
<1>2. SlotInv /\ [MCNext]_<<part, vars, reading>> => SlotInv'
  <2> SUFFICES ASSUME SlotInv, [MCNext]_<<part, vars, reading>> PROVE SlotInv'
    OBVIOUS
  <2>1. CASE Writing
    BY <2>1, NextKeeps DEF Writing
  <2>2. CASE Reading \/ UNCHANGED <<part, vars, reading>>
    BY <2>2, StutterKeeps DEF Reading
  <2> QED
    BY <2>1, <2>2 DEF MCNext
<1> QED
  BY <1>1, <1>2, PTL DEF MCSpec

\* Between requests, and before a first re-embedding, a slot embeds the newest live body of its
\* own record and nothing else, unless an index error or a crash cut its last upsert
\* (resync_vector_slots of tools.rs, which skips a slot whose newest body did not change): after
\* any number of saves, retractions, index errors, crashes and re-indexings.
THEOREM SlotsEmbedNewest == ASSUME OpenEnded PROVE MCSpec => []SlotEmbedsNewest
<1>1. SlotInv => SlotEmbedsNewest
  <2> SUFFICES ASSUME SlotInv, Quiet, heals = 0, NEW s \in Scopes \ faulty
               PROVE  slot[s] = Embeds(Newest(segs[s]))
    BY DEF SlotEmbedsNewest
  <2>1. ~Pending(s)
    BY DEF Quiet, Unlocked, Pending
  <2> QED
    BY <2>1 DEF SlotInv, Fresh
<1> QED
  BY <1>1, SlotsInvariant, PTL

\* A request that races the re-embedder may leave a slot behind its record, but only by what was
\* newest since the re-embedder last read that record: however many re-embeddings follow each
\* other, break off or are killed (reembed and resync_uri_vectors of tools.rs, which read the
\* body before the embedding and hold no lock during it).
THEOREM SlotsBehindOnlyByRaces == ASSUME OpenEnded PROVE MCSpec => []BehindOnlyByRaces
<1>1. SlotInv => BehindOnlyByRaces
  <2> SUFFICES ASSUME SlotInv, Quiet, NEW s \in Scopes \ faulty PROVE slot[s] \subseteq since[s]
    BY DEF BehindOnlyByRaces, RaceIsBounded, SlotInv
  <2>1. ~Clearing(s)
    BY JobTypes DEF SlotInv, Owed, Quiet, Unlocked, Clearing, Actors
  <2> QED
    BY <2>1 DEF SlotInv, Recent
<1> QED
  BY <1>1, SlotsInvariant, PTL

\* The invariant of the recalls holds throughout.
LEMMA ReadsInvariant == MCSpec => []ReadInv
<1>1. MCInit => ReadInv
  BY TheSizes, SameInit, Sight!InitFinds DEF MCInit, ReadInv
<1> QED
  BY <1>1, ReadInvKeeps, PTL DEF MCSpec

\* The recalls of MCVectors keep to their reader's sight, whatever they are interleaved with
\* (the scope check of the vector channel and of the walk, tools.rs and store.rs).
THEOREM ReaderSeesItsOwn == MCSpec => []NothingOfOthers
<1>1. ReadInv => NothingOfOthers
  <2>1. Sight!FindInv => Sight!NothingOfOthers
    BY Sight!SightIsEnough DEF Sight!FindInv
  <2> QED
    BY <2>1, SameNothing DEF ReadInv, NothingOfOthers
<1> QED
  BY <1>1, ReadsInvariant, PTL

\* And they find what is in it: a short vector channel has all that the reader may see, a query
\* near to nothing injects nothing, the lists keep to their limits and the riders are the best
\* of the neighbours (recall_hybrid and recall_expanded_graph of tools.rs).
THEOREM ReaderFindsItsOwn == MCSpec => []FindsWhatItMaySee
<1>1. ReadInv => FindsWhatItMaySee
  <2>1. Sight!FindInv => /\ Sight!TypeOK /\ Sight!ShortChannelIsComplete
                         /\ Sight!OffTopicInjectsNothing /\ Sight!RidersAreTheBest
    BY TheSizes, Sight!FindsTypes, Sight!ChannelIsEnough, Sight!BestOfTheNear DEF Sight!FindInv
  <2> QED
    BY <2>1, SameTypes, SameComplete, SameOffTopic, SameRiders DEF ReadInv, FindsWhatItMaySee
<1> QED
  BY <1>1, ReadsInvariant, PTL
=============================================================================
