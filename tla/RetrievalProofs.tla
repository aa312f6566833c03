--------------------------- MODULE RetrievalProofs ---------------------------
(***************************************************************************)
(* Proofs about Retrieval: whatever the records, their scopes and their    *)
(* edges are, and whatever goes meanwhile, a gated reader recalls nothing  *)
(* of another room's and is not led by it (RecallStaysInSight), and what   *)
(* the reader may see is found: the vector channel leaves a record out     *)
(* only for better ones, a query near to nothing injects nothing, and the  *)
(* riders are the best of what is linked to the seeds (RecallFinds).       *)
(*                                                                         *)
(* The sequences of a recall are picked out of others with FlattenSeq,     *)
(* which is recursive: what it returns is proved by induction on the       *)
(* number of sequences that are joined, as the absence of a least one that *)
(* fails (NatMin).                                                         *)
(***************************************************************************)
EXTENDS Retrieval, TLAPS, SequenceTheorems, WellFoundedInduction, FiniteSetTheorems

-----------------------------------------------------------------------------
(* What FlattenSeq gives, by induction on the number of its sequences.     *)

\* A set of numbers has a least element.
LEMMA NatMin == ASSUME NEW T, T \subseteq Nat, T # {} PROVE \E x \in T : \A y \in T : x <= y
<1> DEFINE I == {1..n : n \in T}
           R == StrictSubsetOrdering(Int)
<1>1. I \subseteq FiniteSubsetsOf(Int)
  <2>1. ASSUME NEW n \in T PROVE (1..n) \in FiniteSubsetsOf(Int)
    BY <2>1, FS_Interval DEF FiniteSubsetsOf
  <2> QED BY <2>1
<1>2. I # {}
  OBVIOUS
<1>3. \E i \in I : \A j \in I : ~(<<j, i>> \in R)
  <2> HIDE DEF I, R
  <2>1. IsWellFoundedOn(R, FiniteSubsetsOf(Int))
    BY FS_StrictSubsetOrderingWellFounded DEF R
  <2> QED
    BY <2>1, <1>1, <1>2, WFMin, Zenon
<1>4. PICK x \in T : \A y \in T : ~(<<1..y, 1..x>> \in R)
  BY <1>3
<1>5. ASSUME NEW y \in T, y < x PROVE FALSE
  <2>1. (1..y) \subseteq (1..x) /\ x \in 1..x /\ x \notin 1..y
    BY <1>5
  <2>2. (1..y) # (1..x)
    BY <2>1
  <2>3. <<1..y, 1..x>> \in R
    BY <2>1, <2>2, SMT DEF StrictSubsetOrdering
  <2> QED
    BY <1>4, <1>5, <2>3, Zenon
<1> QED BY <1>4, <1>5

\* h[i] is what the first i sequences of f flatten to.
Joined(h, f, n) == \A i \in 1..n : h[i] = IF i = 1 THEN f[i] ELSE h[i - 1] \o f[i]

\* There is such an h: FlattenSeq's choice of one is well defined.
LEMMA JoinExists ==
  ASSUME NEW S, NEW n \in Nat, NEW f \in [1..n -> Seq(S)]
  PROVE  \E h \in [1..n -> Seq(S)] : Joined(h, f, n)
<1> DEFINE Good(m) == \E h \in [1..m -> Seq(S)] : Joined(h, f, m)
           Bad == {m \in 0..n : ~Good(m)}
<1>1. SUFFICES ASSUME Bad # {} PROVE FALSE
  <2>1. n \in 0..n
    OBVIOUS
  <2> QED
    BY <2>1
<1>2. PICK m \in Bad : \A j \in Bad : m <= j
  <2>1. Bad \subseteq Nat
    OBVIOUS
  <2> QED
    BY <1>1, <2>1, NatMin
<1>3. Good(0)
  <2> DEFINE e == [i \in 1..0 |-> <<>>]
  <2>1. e \in [1..0 -> Seq(S)] /\ \A i \in 1..0 : FALSE
    OBVIOUS
  <2>2. \A i \in 1..0 : e[i] = IF i = 1 THEN f[i] ELSE e[i - 1] \o f[i]
    BY <2>1
  <2>3. Joined(e, f, 0)
    BY <2>2 DEF Joined
  <2> HIDE DEF e
  <2> QED
    BY <2>1, <2>3
<1>4. m \in 1..n /\ m - 1 \in 0..n /\ m - 1 \notin Bad
  <2>1. m \in 0..n /\ ~Good(m)
    BY <1>2
  <2>2. m # 0
    BY <2>1, <1>3
  <2>3. m \in 1..n /\ m - 1 \in 0..n
    BY <2>1, <2>2
  <2>4. ASSUME m - 1 \in Bad PROVE FALSE
    <3> HIDE DEF Bad
    <3> QED BY <2>3, <2>4, <1>2
  <2> QED
    BY <2>3, <2>4
<1>5. PICK h \in [1..(m - 1) -> Seq(S)] : Joined(h, f, m - 1)
  BY <1>4
<1> DEFINE g == [i \in 1..m |-> IF i = m THEN (IF m = 1 THEN f[m] ELSE h[m - 1] \o f[m]) ELSE h[i]]
<1>6. (IF m = 1 THEN f[m] ELSE h[m - 1] \o f[m]) \in Seq(S)
  <2>1. f[m] \in Seq(S) /\ (m # 1 => h[m - 1] \in Seq(S))
    BY <1>4
  <2>2. m # 1 => h[m - 1] \o f[m] \in Seq(S)
    BY <2>1, ConcatProperties
  <2> QED
    BY <2>1, <2>2
<1>7. g \in [1..m -> Seq(S)]
  BY <1>4, <1>6
<1>8. ASSUME NEW i \in 1..m PROVE g[i] = IF i = 1 THEN f[i] ELSE g[i - 1] \o f[i]
  <2>1. CASE i = m
    <3>1. m # 1 => m - 1 \in 1..m /\ m - 1 # m
      BY <1>4
    <3> QED
      BY <2>1, <3>1
  <2>2. CASE i # m
    <3>1. i \in 1..(m - 1) /\ g[i] = h[i]
      BY <2>2, <1>4
    <3>2. i # 1 => i - 1 \in 1..m /\ i - 1 # m
      BY <1>4
    <3>3. i # 1 => g[i - 1] = h[i - 1]
      BY <3>2
    <3> QED
      BY <3>1, <3>3, <1>5 DEF Joined
  <2> QED
    BY <2>1, <2>2
<1>9. Joined(g, f, m)
  BY <1>8 DEF Joined
<1>10. Good(m)
  <2> HIDE DEF g
  <2> QED BY <1>7, <1>9
<1> QED
  BY <1>2, <1>10

\* FlattenSeq joins its sequences one by one.
LEMMA FlattenUnfolds ==
  ASSUME NEW S, NEW n \in Nat, n # 0, NEW f \in [1..n -> Seq(S)]
  PROVE  \E F : FlattenSeq(f) = F[n] /\ Joined(F, f, n)
<1> DEFINE Joins(h) == h = [i \in 1..Len(f) |-> IF i = 1 THEN f[i] ELSE h[i - 1] \o f[i]]
           F == CHOOSE h : Joins(h)
<1>1. f \in Seq(Seq(S)) /\ Len(f) = n
  OBVIOUS
<1>2. FlattenSeq(f) = F[n]
  BY <1>1, Zenon DEF FlattenSeq
<1>3. \E h : Joins(h)
  <2>1. PICK h \in [1..n -> Seq(S)] : Joined(h, f, n)
    BY JoinExists
  <2>2. h = [i \in 1..n |-> IF i = 1 THEN f[i] ELSE h[i - 1] \o f[i]]
    BY <2>1 DEF Joined
  <2> QED
    BY <2>2, <1>1
<1> HIDE DEF Joins
<1>4. Joins(F)
  BY <1>3, Zenon
<1> HIDE DEF F
<1>5. Joined(F, f, n)
  BY <1>4, <1>1 DEF Joins, Joined
<1> QED
  BY <1>2, <1>5, Zenon

\* Flattening sequences over S gives a sequence over S.
LEMMA FlattenType ==
  ASSUME NEW S, NEW n \in Nat, NEW f \in [1..n -> Seq(S)]
  PROVE  FlattenSeq(f) \in Seq(S)
<1>1. f \in Seq(Seq(S)) /\ Len(f) = n
  OBVIOUS
<1>2. CASE n = 0
  BY <1>1, <1>2 DEF FlattenSeq
<1>3. CASE n # 0
  <2>1. PICK F : FlattenSeq(f) = F[n] /\ Joined(F, f, n)
    BY <1>3, FlattenUnfolds
  <2> DEFINE Bad == {i \in 1..n : F[i] \notin Seq(S)}
  <2>2. Bad = {}
    <3>1. SUFFICES ASSUME Bad # {} PROVE FALSE
      OBVIOUS
    <3>2. Bad \subseteq Nat
      OBVIOUS
    <3>3. PICK i \in Bad : \A j \in Bad : i <= j
      <4> HIDE DEF Bad
      <4> QED BY <3>1, <3>2, NatMin
    <3>4. CASE i = 1
      BY <3>3, <3>4, <2>1 DEF Joined
    <3>5. CASE i # 1
      <4>1. i - 1 \in 1..n /\ i - 1 \notin Bad
        BY <3>3, <3>5
      <4>2. F[i - 1] \in Seq(S) /\ f[i] \in Seq(S) /\ F[i] = F[i - 1] \o f[i]
        BY <3>3, <3>5, <4>1, <2>1 DEF Joined
      <4>3. F[i - 1] \o f[i] \in Seq(S)
        BY <4>2, ConcatProperties
      <4> QED
        BY <4>2, <4>3, <3>3
    <3> QED
      BY <3>4, <3>5
  <2> QED
    BY <2>1, <2>2, <1>3
<1> QED
  BY <1>2, <1>3

-----------------------------------------------------------------------------
(* What is made of sequences and sets: picked entries, a first part, places. *)

\* q holds the entries of s at the places e, which are those of I up to j, in order.
Picks(q, e, s, I, j) ==
  /\ Len(q) = Len(e)
  /\ \A x \in 1..Len(e) : e[x] \in (1..j) \cap I /\ q[x] = s[e[x]]
  /\ \A x, y \in 1..Len(e) : x < y => e[x] < e[y]
  /\ \A i \in (1..j) \cap I : \E x \in 1..Len(e) : e[x] = i

\* One more place.
LEMMA PickOne ==
  ASSUME NEW S, NEW s \in Seq(S), NEW I, NEW j \in 1..Len(s),
         NEW q \in Seq(S), NEW e \in Seq(Nat), Picks(q, e, s, I, j - 1)
  PROVE  \E d \in Seq(Nat) : Picks(q \o (IF j \in I THEN <<s[j]>> ELSE <<>>), d, s, I, j)
<1>1. s[j] \in S /\ j \in Nat /\ Len(q) \in Nat /\ Len(e) = Len(q)
  BY ElementOfSeq, LenProperties DEF Picks
<1>2. CASE j \notin I
  <2>1. q \o <<>> = q
    BY ConcatEmptySeq
  <2>2. (1..j) \cap I = (1..(j - 1)) \cap I
    BY <1>2
  <2>3. Picks(q, e, s, I, j)
    BY <2>2 DEF Picks
  <2> QED BY <1>2, <2>1, <2>3
<1>3. CASE j \in I
  <2> DEFINE p == Append(q, s[j])
             d == Append(e, j)
             n == Len(q)
  <2>1. q \o <<s[j]>> = p
    BY <1>1, AppendIsConcat
  <2>2. /\ p \in Seq(S) /\ d \in Seq(Nat) /\ Len(p) = n + 1 /\ Len(d) = n + 1
        /\ p[n + 1] = s[j] /\ d[n + 1] = j
        /\ \A x \in 1..n : p[x] = q[x] /\ d[x] = e[x]
    BY <1>1, AppendProperties
  <2> HIDE DEF p, d, n
  <2>3. n \in Nat /\ \A x \in 1..(n + 1) : x \in 1..n \/ x = n + 1
    BY <1>1 DEF n
  <2>4. ASSUME NEW x \in 1..Len(d) PROVE d[x] \in (1..j) \cap I /\ p[x] = s[d[x]]
    <3>1. CASE x \in 1..n
      BY <3>1, <2>2, <1>1 DEF Picks, n
    <3>2. CASE x = n + 1
      BY <3>2, <2>2, <1>3
    <3> QED BY <3>1, <3>2, <2>2, <2>3
  <2>5. ASSUME NEW x \in 1..Len(d), NEW y \in 1..Len(d), x < y PROVE d[x] < d[y]
    <3>1. x \in 1..n
      BY <2>5, <2>2, <2>3
    <3>2. d[x] = e[x] /\ e[x] \in 1..(j - 1)
      BY <3>1, <2>2, <1>1 DEF Picks, n
    <3>3. CASE y \in 1..n
      BY <3>1, <3>2, <3>3, <2>2, <2>5, <1>1 DEF Picks, n
    <3>4. CASE y = n + 1
      BY <3>2, <3>4, <2>2
    <3> QED BY <3>3, <3>4, <2>2, <2>3
  <2>6. ASSUME NEW i \in (1..j) \cap I PROVE \E x \in 1..Len(d) : d[x] = i
    <3>1. CASE i = j
      BY <3>1, <2>2, <2>3
    <3>2. CASE i # j
      <4>1. i \in (1..(j - 1)) \cap I
        BY <3>2
      <4>2. PICK x \in 1..n : e[x] = i
        BY <4>1, <1>1 DEF Picks, n
      <4> QED BY <4>2, <2>2, <2>3
    <3> QED BY <3>1, <3>2
  <2>7. Len(p) = Len(d)
    BY <2>2
  <2>8. Picks(p, d, s, I, j)
    BY <2>4, <2>5, <2>6, <2>7 DEF Picks
  <2> QED BY <2>1, <2>2, <2>8, <1>3
<1> QED BY <1>2, <1>3

\* EntriesAt picks the entries at all places of I, in their order.
LEMMA EntriesAre ==
  ASSUME NEW S, NEW s \in Seq(S), NEW I
  PROVE  EntriesAt(s, I) \in Seq(S) /\ \E e \in Seq(Nat) : Picks(EntriesAt(s, I), e, s, I, Len(s))
<1> DEFINE n == Len(s)
           f == [i \in DOMAIN s |-> IF i \in I THEN <<s[i]>> ELSE <<>>]
<1>1. DOMAIN s = 1..n /\ n \in Nat /\ \A i \in 1..n : s[i] \in S
  BY LenProperties, ElementOfSeq
<1>2. f \in [1..n -> Seq(S)] /\ \A i \in 1..n : f[i] = IF i \in I THEN <<s[i]>> ELSE <<>>
  BY <1>1
<1>3. EntriesAt(s, I) = FlattenSeq(f)
  BY DEF EntriesAt
<1>0. <<>> \in Seq(S) /\ <<>> \in Seq(Nat) /\ Picks(<<>>, <<>>, s, I, 0)
  BY DEF Picks
<1> HIDE DEF f, n
<1>4. CASE n = 0
  <2>1. FlattenSeq(f) = <<>>
    BY <1>2, <1>4 DEF FlattenSeq
  <2> QED BY <1>0, <1>3, <1>4, <2>1 DEF n
<1>5. CASE n # 0
  <2>1. PICK F : FlattenSeq(f) = F[n] /\ Joined(F, f, n)
    BY <1>1, <1>2, <1>5, FlattenUnfolds
  <2> DEFINE Good(i) == F[i] \in Seq(S) /\ \E e \in Seq(Nat) : Picks(F[i], e, s, I, i)
             Bad == {i \in 1..n : ~Good(i)}
  <2>2. Bad = {}
    <3>1. SUFFICES ASSUME Bad # {} PROVE FALSE
      OBVIOUS
    <3>2. Bad \subseteq Nat
      OBVIOUS
    <3>3. PICK i \in Bad : \A j \in Bad : i <= j
      <4> HIDE DEF Bad
      <4> QED BY <3>1, <3>2, NatMin
    <3>4. i \in 1..n /\ ~Good(i)
      BY <3>3
    <3>5. \E q \in Seq(S) : \E e \in Seq(Nat) : Picks(q, e, s, I, i - 1) /\ F[i] = q \o f[i]
      <4>1. CASE i = 1
        <5>1. F[1] = f[1] /\ f[1] \in Seq(S)
          BY <4>1, <3>4, <2>1, <1>2 DEF Joined
        <5>2. <<>> \o f[1] = f[1]
          BY <5>1, ConcatEmptySeq
        <5>3. i - 1 = 0
          BY <4>1
        <5> QED BY <5>1, <5>2, <5>3, <1>0, <4>1
      <4>2. CASE i # 1
        <5>1. i - 1 \in 1..n /\ i - 1 < i
          BY <3>4, <4>2, <1>1
        <5>2. Good(i - 1)
          <6>1. i - 1 \notin Bad
            <7> HIDE DEF Bad
            <7>1. i \in Int /\ (i - 1 \in Bad => i <= i - 1)
              BY <3>3, <3>4
            <7> QED BY <7>1
          <6> QED BY <5>1, <6>1
        <5>3. F[i] = F[i - 1] \o f[i]
          BY <3>4, <4>2, <2>1 DEF Joined
        <5> QED BY <5>2, <5>3
      <4> QED BY <4>1, <4>2
    <3>6. PICK q \in Seq(S), e \in Seq(Nat) : Picks(q, e, s, I, i - 1) /\ F[i] = q \o f[i]
      BY <3>5
    <3>7. i \in 1..Len(s)
      BY <3>4 DEF n
    <3>8. \E d \in Seq(Nat) : Picks(q \o (IF i \in I THEN <<s[i]>> ELSE <<>>), d, s, I, i)
      BY <3>6, <3>7, PickOne
    <3>9. F[i] \in Seq(S)
      <4>1. f[i] \in Seq(S)
        BY <3>4, <1>2
      <4> QED BY <3>6, <4>1, ConcatProperties
    <3>10. f[i] = IF i \in I THEN <<s[i]>> ELSE <<>>
      BY <3>4, <1>2
    <3> QED BY <3>4, <3>6, <3>8, <3>9, <3>10
  <2>3. n \in 1..n
    BY <1>1, <1>5
  <2> QED BY <2>1, <2>2, <2>3, <1>3 DEF n
<1> QED BY <1>4, <1>5

\* They are entries of s.
LEMMA EntriesType ==
  ASSUME NEW S, NEW s \in Seq(S), NEW I
  PROVE  EntriesAt(s, I) \in Seq({x \in S : \E i \in DOMAIN s \cap I : x = s[i]})
<1> DEFINE T == {x \in S : \E i \in DOMAIN s \cap I : x = s[i]}
           q == EntriesAt(s, I)
<1>1. DOMAIN s = 1..Len(s) /\ \A i \in DOMAIN s : s[i] \in S
  BY LenProperties, ElementOfSeq
<1>2. q \in Seq(S) /\ \E e \in Seq(Nat) : Picks(q, e, s, I, Len(s))
  BY EntriesAre
<1> HIDE DEF q
<1>3. \A x \in 1..Len(q) : q[x] \in T
  BY <1>1, <1>2 DEF Picks
<1> HIDE DEF T
<1>4. q \in Seq(T)
  BY <1>2, <1>3
<1> QED
  BY <1>4 DEF q, T

\* The first n entries of a sequence.
LEMMA AtMostIs ==
  ASSUME NEW S, NEW s \in Seq(S), NEW n \in Nat
  PROVE  /\ AtMost(s, n) \in Seq(S)
         /\ Len(AtMost(s, n)) = IF Len(s) < n THEN Len(s) ELSE n
         /\ \A i \in 1..Len(AtMost(s, n)) : AtMost(s, n)[i] = s[i]
<1>1. Len(s) \in Nat /\ \A i \in 1..Len(s) : s[i] \in S
  BY LenProperties, ElementOfSeq
<1> DEFINE m == IF Len(s) < n THEN Len(s) ELSE n
<1>2. m \in Int /\ m <= Len(s) /\ m \in Nat /\ \A i \in 1..m : s[i] \in S
  BY <1>1
<1>3. AtMost(s, n) = SubSeq(s, 1, m)
  BY DEF AtMost
<1> HIDE DEF m
<1>4. Len(SubSeq(s, 1, m)) = m /\ \A i \in 1..m : SubSeq(s, 1, m)[i] = s[i]
  BY <1>2, SubSeqProperties
<1>5. SubSeq(s, 1, m) \in Seq(S)
  BY <1>2, SubSeqProperties
<1> QED
  BY <1>3, <1>4, <1>5 DEF m

\* In an increasing sequence of places the x-th is at least x.
LEMMA PlacesGrow ==
  ASSUME NEW e \in Seq(Nat), \A x \in 1..Len(e) : e[x] >= 1,
         \A x, y \in 1..Len(e) : x < y => e[x] < e[y]
  PROVE  \A x \in 1..Len(e) : e[x] >= x
<1> DEFINE Bad == {x \in 1..Len(e) : ~(e[x] >= x)}
<1>1. Len(e) \in Nat /\ \A x \in 1..Len(e) : e[x] \in Nat
  BY LenProperties, ElementOfSeq
<1>2. SUFFICES ASSUME Bad # {} PROVE FALSE
  OBVIOUS
<1>3. PICK x \in Bad : \A y \in Bad : x <= y
  <2>1. Bad \subseteq Nat
    OBVIOUS
  <2> QED BY <1>2, <2>1, NatMin
<1>4. x \in 1..Len(e) /\ e[x] < x /\ x # 1
  BY <1>3, <1>1
<1>5. x - 1 \in 1..Len(e) /\ x - 1 < x
  BY <1>4, <1>1
<1>6. x - 1 \notin Bad
  BY <1>3, <1>5
<1>7. e[x - 1] >= x - 1 /\ e[x - 1] < e[x]
  BY <1>4, <1>5, <1>6, <1>1
<1> QED BY <1>4, <1>5, <1>7, <1>1

\* There are m numbers from 1 to m.
LEMMA UpTo == ASSUME NEW m \in Nat PROVE IsFiniteSet(1..m) /\ Cardinality(1..m) = m
<1>1. IsFiniteSet(1..m) /\ Cardinality(1..m) = IF 1 > m THEN 0 ELSE m - 1 + 1
  BY FS_Interval
<1> QED BY <1>1

\* A finite set as a sequence.
LEMMA SetAsSeq ==
  ASSUME NEW S, IsFiniteSet(S) PROVE SetToSeq(S) \in Seq(S)
<1>1. Cardinality(S) \in Nat /\ \E f : f \in Bijection(1..Cardinality(S), S)
  BY FS_CardinalityType, Zenon DEF ExistsBijection
<1>2. PICK f \in [1..Cardinality(S) -> S] : \A a, b \in 1..Cardinality(S) : f[a] = f[b] => a = b
  BY <1>1 DEF Bijection, Injection, IsInjective
<1>3. IsInjective(f)
  BY <1>2 DEF IsInjective
<1>4. SetToSeq(S) \in [1..Cardinality(S) -> S]
  BY <1>2, <1>3, Zenon DEF SetToSeq
<1> QED BY <1>1, <1>4

-----------------------------------------------------------------------------
(* What a gated reader sees.                                               *)

\* The versions of one uri are written one after the other.
OneIsNewest ==
  \A S \in SUBSET Record :
    S # {} /\ (\A r, o \in S : Uri(r) = Uri(o)) => \E r \in S : \A o \in S \ {r} : Newer(r, o)

\* So the newest of some versions of one uri is one of them.
LEMMA NewestIsOne ==
  ASSUME OneIsNewest, NEW S \in SUBSET Record, S # {}, \A r, o \in S : Uri(r) = Uri(o)
  PROVE  Newest(S) \in S
BY Zenon DEF OneIsNewest, Newest

\* What the code and the index promise of the inputs of a recall.
Inputs ==
  /\ IsFiniteSet(Record) /\ OneIsNewest
  /\ Held \subseteq SUBSET Record /\ Rankings \subseteq Seq(Record)
  /\ Pool \in Nat /\ MaxSlots \in Nat /\ Over \in Nat /\ Limit \in Nat

\* The channels and the answer hold nothing that is out of the reader's sight, and neither
\* does the walk: not the uris it came to, nor those it came by.
Seen == {r \in Record : Sees(r)}
InSight ==
  /\ held \subseteq Record /\ k \in Nat /\ ranked \in Seq(Record) /\ hits \in Seq(Record)
  /\ kw \subseteq Seen
  /\ channel \in Seq(Seen) /\ seeds \in Seq(Seen) /\ riders \in Seq(Seen)
  /\ \A u \in DOMAIN reached : Known(u) /\ Known(reached[u].via)
  /\ \A e \in links : Known(e[1]) /\ Known(e[2])

-----------------------------------------------------------------------------
(* Step by step.                                                           *)

\* A uri that the scope check lets through has, or had, a version in the reader's sight.
LEMMA VisibleIsKnown ==
  ASSUME OneIsNewest, NEW u, ScopeVisible(u)
  PROVE  Known(u)
<1>1. CASE RowsOf(u) = {}
  BY <1>1 DEF Known
<1>2. CASE ~gated /\ RowsOf(u) # {}
  BY <1>2 DEF Known, Sees
<1>3. CASE \E r \in RowsOf(u) \cap held : Sees(r)
  BY <1>3 DEF Known
<1>4. CASE RowsOf(u) # {} /\ Sees(Newest(RowsOf(u)))
  <2>1. RowsOf(u) \in SUBSET Record /\ \A r, o \in RowsOf(u) : Uri(r) = Uri(o)
    BY DEF RowsOf
  <2>2. Newest(RowsOf(u)) \in RowsOf(u)
    BY <2>1, <1>4, NewestIsOne
  <2> QED
    BY <2>2, <1>4 DEF Known
<1> QED
  BY <1>1, <1>2, <1>3, <1>4 DEF ScopeVisible

\* The walk reads no edge of a uri out of sight, and none to one.
LEMMA NeighboursAreKnown ==
  ASSUME OneIsNewest, NEW u, NEW v \in Adjacent(u)
  PROVE  Known(u) /\ Known(v)
BY VisibleIsKnown DEF Adjacent

\* A reader is the same reader from beginning to end.
LEMMA SameSight ==
  ASSUME UNCHANGED reader
  PROVE  Seen' = Seen /\ (\A r : Sees(r)' <=> Sees(r)) /\ (\A u : Known(u)' <=> Known(u))
BY DEF reader, Seen, Sees, Known, RowsOf, Uri

\* The keyword channel asks the store for what the reader sees (recall_scored).
LEMMA KeywordInSight ==
  ASSUME InSight, Keyword PROVE InSight'
<1>1. kw' \subseteq Recallable
  BY DEF Keyword
<1>2. Recallable \subseteq Seen
  BY DEF Recallable, Seen, InSight
<1> QED
  BY <1>1, <1>2, SameSight DEF InSight, Keyword, channels, walk, reader

\* A search returns chunks of any scope: nothing is claimed of the hits.
LEMMA SearchInSight ==
  ASSUME Inputs, InSight, Search PROVE InSight'
<1>1. Over * k \in Nat /\ k \in Nat /\ ranked \in Seq(Record)
  BY DEF InSight, Inputs
<1>2. AtMost(ranked, Over * k) \in Seq(Record)
  BY <1>1, AtMostIs
<1>3. \A s \in Seq(Record) : Collapse(s) \in Seq(Record)
  <2> SUFFICES ASSUME NEW s \in Seq(Record) PROVE Collapse(s) \in Seq(Record)
    OBVIOUS
  <2> DEFINE I == {i \in DOMAIN s : \A j \in 1..i - 1 : s[j] # s[i]}
  <2>1. EntriesAt(s, I) \in Seq({x \in Record : \E i \in DOMAIN s \cap I : x = s[i]})
    BY EntriesType
  <2>2. EntriesAt(s, I) \in Seq(Record)
    <3> DEFINE T == {x \in Record : \E i \in DOMAIN s \cap I : x = s[i]}
    <3>1. T \subseteq Record
      OBVIOUS
    <3> HIDE DEF T
    <3> QED BY <2>1, <3>1, SeqMonotonic DEF T
  <2> QED BY <2>2 DEF Collapse
<1>4. hits' \in Seq(Record)
  BY <1>1, <1>2, <1>3, AtMostIs DEF Search
<1> QED
  BY <1>4, SameSight DEF InSight, Search, walk, reader

\* Only the hits whose record the reader sees make it to the vector channel.
LEMMA ResolveInSight ==
  ASSUME Inputs, InSight, Resolve PROVE InSight'
<1>1. Resolved \in Seq(Seen)
  <2> DEFINE I == {i \in DOMAIN hits : hits[i] \in held /\ (hits[i] \in kw \/ Sees(hits[i]))}
             T == {x \in Record : \E i \in DOMAIN hits \cap I : x = hits[i]}
  <2>1. EntriesAt(hits, I) \in Seq(T)
    <3> HIDE DEF I
    <3> QED BY EntriesType DEF InSight, T
  <2>2. T \subseteq Seen
    BY DEF InSight, Seen
  <2> HIDE DEF T
  <2>3. EntriesAt(hits, I) \in Seq(Seen)
    BY <2>1, <2>2, SeqMonotonic
  <2> QED
    BY <2>3 DEF Resolved
<1>2. AtMost(Resolved, Pool) \in Seq(Seen)
  BY <1>1, AtMostIs DEF Inputs
<1>3. channel' \in Seq(Seen) /\ k' \in Nat
  BY <1>2 DEF Resolve, InSight, Inputs
<1> QED
  BY <1>3, SameSight DEF InSight, Resolve, walk, reader

\* Every candidate of the fusion comes from a channel.
LEMMA FuseInSight ==
  ASSUME Inputs, InSight, Fuse PROVE InSight'
<1> DEFINE X == {r \in Survivors : Uri(r) \notin Skills}
           best == OnePerUri(X)
<1>1. ToSet(channel) \subseteq Seen
  BY LenProperties, ElementOfSeq DEF InSight, ToSet
<1>2. Survivors \subseteq Seen
  BY <1>1 DEF Survivors, KeywordSurvivors, InSight
<1>3. best \subseteq Seen
  <2>1. ASSUME NEW r \in X PROVE Copy(X, Uri(r)) \in Seen
    <3> DEFINE of == {o \in X : Uri(o) = Uri(r)}
    <3>1. of \in SUBSET Record /\ of # {} /\ \A a, b \in of : Uri(a) = Uri(b)
      BY <1>2 DEF Seen
    <3> HIDE DEF X
    <3>2. Newest(of) \in of
      <4> HIDE DEF of
      <4> QED BY <3>1, NewestIsOne DEF Inputs
    <3>3. Copy(X, Uri(r)) \in of
      BY <3>2 DEF Copy
    <3> QED
      BY <3>3, <1>2 DEF X
  <2> QED
    BY <2>1 DEF OnePerUri
<1>4. Cardinality(best) \in Nat
  <2>1. IsFiniteSet(best)
    BY <1>3, FS_Subset DEF Seen, Inputs
  <2> QED
    BY <2>1, FS_CardinalityType
<1>5. seeds' \in Seq(Seen)
  <2> DEFINE n == IF Cardinality(best) < Limit THEN Cardinality(best) ELSE Limit
  <2>1. n \in Nat /\ seeds' \in [1..n -> best]
    BY <1>4 DEF Fuse, Answers, Inputs
  <2> HIDE DEF n, best
  <2>2. seeds' \in [1..n -> Seen]
    BY <2>1, <1>3
  <2> QED
    BY <2>1, <2>2
<1> QED
  BY <1>5, SameSight DEF InSight, Fuse, channels, reader

\* A uri is reached, and by way of another, only along an edge between two it may know.
LEMMA ExpandInSight ==
  ASSUME OneIsNewest, InSight, Expand PROVE InSight'
<1> DEFINE u == todo[1][1]
<1>1. ASSUME NEW v \in DOMAIN reached' PROVE Known(v) /\ Known(reached'[v].via)
  <2>1. PICK new \in SUBSET ((Adjacent(u) \ SeedUris) \ DOMAIN reached) :
          reached' = [w \in DOMAIN reached \cup new |->
            IF w \in new THEN [via |-> u, hop |-> hop, score |-> todo[1][2] \div 2]
            ELSE IF w \in Adjacent(u) \ SeedUris /\ reached[w].score < todo[1][2] \div 2
            THEN [[via |-> u, hop |-> hop, score |-> todo[1][2] \div 2]
                    EXCEPT !.hop = reached[w].hop]
            ELSE reached[w]]
    BY Zenon DEF Expand
  <2>2. v \in DOMAIN reached \cup new
    BY <2>1
  <2>3. CASE v \in Adjacent(u)
    <3>1. Known(u) /\ Known(v)
      BY <2>3, NeighboursAreKnown
    <3>2. reached'[v].via = u \/ (v \in DOMAIN reached /\ reached'[v] = reached[v])
      BY <2>1, <2>2
    <3> QED
      BY <3>1, <3>2 DEF InSight
  <2>4. CASE v \notin Adjacent(u)
    <3>1. v \in DOMAIN reached /\ reached'[v] = reached[v]
      BY <2>1, <2>2, <2>4
    <3> QED
      BY <3>1 DEF InSight
  <2> QED
    BY <2>3, <2>4
<1> QED
  BY <1>1, SameSight DEF InSight, Expand, channels, reader

\* A rider is the newest version in the reader's sight.
LEMMA HydrateInSight ==
  ASSUME Inputs, InSight, Hydrate PROVE InSight'
<1>1. PICK u \in Left : riders' =
        LET rows == {r \in RowsOf(u) \cap held : Sees(r)}
        IN IF rows = {} \/ u \in Skills THEN riders ELSE Append(riders, Newest(rows))
  BY DEF Hydrate
<1> DEFINE rows == {r \in RowsOf(u) \cap held : Sees(r)}
<1>2. rows \in SUBSET Seen /\ rows \in SUBSET Record /\ \A a, b \in rows : Uri(a) = Uri(b)
  BY DEF RowsOf, Seen
<1>3. rows # {} => Newest(rows) \in Seen
  <2> HIDE DEF rows
  <2> QED BY <1>2, NewestIsOne DEF Inputs
<1>4. riders \in Seq(Seen)
  BY DEF InSight
<1>5. riders' \in Seq(Seen)
  <2> HIDE DEF rows
  <2>1. CASE rows = {} \/ u \in Skills
    BY <2>1, <1>1, <1>4 DEF rows
  <2>2. CASE ~(rows = {} \/ u \in Skills)
    <3>1. riders' = Append(riders, Newest(rows))
      BY <2>2, <1>1 DEF rows
    <3> QED BY <3>1, <2>2, <1>3, <1>4, AppendProperties
  <2> QED BY <2>1, <2>2
<1> QED
  BY <1>5, SameSight DEF InSight, Hydrate, channels, walk, reader

\* The links within the answer are edges that the walk could have gone.
LEMMA LinksInSight ==
  ASSUME OneIsNewest, InSight, LinksWithin PROVE InSight'
<1>1. ASSUME NEW e \in links' PROVE Known(e[1]) /\ Known(e[2])
  <2>1. e[2] \in Adjacent(e[1]) \/ e[1] \in Adjacent(e[2])
    BY DEF LinksWithin
  <2> QED
    BY <2>1, NeighboursAreKnown
<1> QED
  BY <1>1, SameSight DEF InSight, LinksWithin, channels, walk, reader

\* At the start nothing has been found.
LEMMA InitInSight == ASSUME Inputs, Init PROVE InSight
BY DEF Init, Inputs, InSight

\* Every step of the recall, and a record forgotten between two, keeps to the reader's sight.
LEMMA StepInSight == ASSUME Inputs, InSight, [Next]_vars PROVE InSight'
<1>1. CASE SearchFails
  BY <1>1, SameSight DEF SearchFails, InSight, walk, reader
<1>2. CASE NextHop
  BY <1>2, SameSight DEF NextHop, InSight, channels, reader
<1>3. CASE Forget
  BY <1>3, SameSight DEF Forget, InSight, channels, walk, reader
<1>4. CASE UNCHANGED vars
  BY <1>4, SameSight DEF vars, InSight, channels, walk, reader
<1> QED
  BY <1>1, <1>2, <1>3, <1>4, KeywordInSight, SearchInSight, ResolveInSight, FuseInSight,
     ExpandInSight, HydrateInSight, LinksInSight DEF Next, Inputs

\* The invariant says what an answer may hold.
LEMMA SightIsEnough == ASSUME InSight PROVE NothingOfOthers
BY LenProperties, ElementOfSeq DEF InSight, NothingOfOthers, ToSet, Seen

\* Nothing of another room's is recalled, rides along, is named as the way a neighbour was
\* reached or as the end of a link, live or dead, though records are forgotten while the recall
\* runs (recall_hybrid, recall_expanded_graph and links_within of tools.rs): for any
\* records, edges, rankings and limits.
THEOREM RecallStaysInSight == ASSUME Inputs PROVE Spec => []NothingOfOthers
BY SightIsEnough, InitInSight, StepInSight, PTL DEF Spec

-----------------------------------------------------------------------------
(* The hits and the vector channel.                                        *)

\* What the code fixes of the sizes: the pool is at least ten, eight chunks are asked for per
\* slot; and the records and the ends of their edges are finitely many.
Sizes ==
  /\ Inputs /\ Pool # 0 /\ Over # 0
  /\ Cands \in Nat /\ Depth \in Nat /\ MaxForgets \in Nat /\ IsFiniteSet(Uris)

\* Where a record is first among the chunk hits, if it is.
LEMMA FirstIs ==
  ASSUME NEW S, ranked \in Seq(S), NEW r
  PROVE  /\ FirstAt(r) \in Nat
         /\ r \in ToSet(ranked) =>
              /\ FirstAt(r) \in 1..Len(ranked) /\ ranked[FirstAt(r)] = r
              /\ \A j \in 1..Len(ranked) : ranked[j] = r => FirstAt(r) <= j
<1> DEFINE I == {i \in 1..Len(ranked) : ranked[i] = r}
<1>1. FirstAt(r) = IF I # {} THEN Min(I) ELSE 0
  BY DEF FirstAt, SelectInSeq
<1>2. Len(ranked) \in Nat /\ DOMAIN ranked = 1..Len(ranked) /\ I \subseteq Nat
  BY LenProperties
<1>3. r \in ToSet(ranked) <=> I # {}
  BY <1>2 DEF ToSet
<1>4. I # {} => Min(I) \in I /\ \A j \in I : Min(I) <= j
  <2> HIDE DEF I
  <2>1. I # {} => \E x \in I : \A j \in I : x <= j
    BY <1>2, NatMin
  <2> QED BY <2>1 DEF Min
<1> QED
  BY <1>1, <1>2, <1>3, <1>4

\* The chunk hits asked for.
Asked == AtMost(ranked, Over * k)

\* What the search returns, best first: the slots of the chunks asked for, one by one.
LEMMA CollapseIs ==
  ASSUME NEW S, ranked \in Seq(S), Over * k \in Nat
  PROVE  LET c == Collapse(Asked) IN
         /\ c \in Seq(S)
         /\ \A x \in 1..Len(c) : c[x] \in ToSet(ranked) /\ FirstAt(c[x]) <= Over * k
         /\ \A x \in 1..Len(c) : FirstAt(c[x]) >= x
         /\ \A x, y \in 1..Len(c) : x < y => FirstAt(c[x]) < FirstAt(c[y])
         /\ \A r \in ToSet(ranked) : FirstAt(r) <= Over * k => \E x \in 1..Len(c) : c[x] = r
<1> DEFINE n == Over * k
           I == {i \in DOMAIN Asked : \A j \in 1..i - 1 : Asked[j] # Asked[i]}
           c == Collapse(Asked)
<1>1. /\ Asked \in Seq(S) /\ Len(Asked) \in Nat /\ Len(ranked) \in Nat
      /\ Len(Asked) <= n /\ Len(Asked) <= Len(ranked)
      /\ Len(Asked) = Len(ranked) \/ Len(Asked) = n
      /\ \A i \in 1..Len(Asked) : Asked[i] = ranked[i]
  BY AtMostIs, LenProperties DEF Asked
<1>2. DOMAIN Asked = 1..Len(Asked) /\ DOMAIN ranked = 1..Len(ranked)
  BY <1>1, LenProperties
<1>3. c = EntriesAt(Asked, I)
  BY DEF Collapse
<1>4. PICK e \in Seq(Nat) : Picks(c, e, Asked, I, Len(Asked))
  <2> HIDE DEF I, c
  <2> QED BY <1>1, <1>3, EntriesAre
<1>5. c \in Seq(S)
  <2> HIDE DEF I, c
  <2> QED BY <1>1, <1>3, EntriesAre
<1>6. ASSUME NEW i \in (1..Len(Asked)) \cap I
      PROVE  FirstAt(Asked[i]) = i /\ Asked[i] \in ToSet(ranked)
  <2>1. i \in 1..Len(ranked) /\ ranked[i] = Asked[i] /\ Asked[i] \in ToSet(ranked)
    <3>1. i \in 1..Len(Asked)
      OBVIOUS
    <3>2. i \in 1..Len(ranked) /\ ranked[i] = Asked[i]
      BY <1>1, <3>1
    <3> QED BY <1>2, <3>2 DEF ToSet
  <2> DEFINE m == FirstAt(Asked[i])
  <2>2. m \in 1..Len(ranked) /\ ranked[m] = Asked[i] /\ m <= i
    BY <2>1, FirstIs
  <2>3. m \in 1..Len(Asked) /\ Asked[m] = Asked[i]
    <3> HIDE DEF m
    <3> QED BY <2>2, <1>1
  <2>4. ~(m \in 1..i - 1)
    <3> HIDE DEF m
    <3> QED BY <2>3
  <2> HIDE DEF m
  <2>5. m = i
    BY <2>2, <2>4
  <2> QED BY <2>1, <2>5 DEF m
<1>7. ASSUME NEW x \in 1..Len(c)
      PROVE  /\ x \in 1..Len(e) /\ e[x] \in 1..Len(Asked)
             /\ FirstAt(c[x]) = e[x] /\ c[x] \in ToSet(ranked)
  <2>1. x \in 1..Len(e) /\ e[x] \in (1..Len(Asked)) \cap I /\ c[x] = Asked[e[x]]
    <3> HIDE DEF c, I
    <3> QED BY <1>4 DEF Picks
  <2> HIDE DEF c, I
  <2> QED BY <2>1, <1>6
<1>8. ASSUME NEW r \in ToSet(ranked), FirstAt(r) <= n PROVE \E x \in 1..Len(c) : c[x] = r
  <2> DEFINE m == FirstAt(r)
  <2>1. m \in 1..Len(ranked) /\ ranked[m] = r /\ \A j \in 1..Len(ranked) : ranked[j] = r => m <= j
    BY FirstIs
  <2>2. m \in 1..Len(Asked) /\ Asked[m] = r
    BY <2>1, <1>1, <1>8
  <2>3. ASSUME NEW j \in 1..m - 1 PROVE Asked[j] # Asked[m]
    <3> HIDE DEF m
    <3>1. j \in 1..Len(ranked) /\ j \in 1..Len(Asked) /\ ~(m <= j)
      BY <2>1, <2>2
    <3> QED BY <3>1, <2>1, <2>2, <1>1
  <2>4. m \in I
    BY <2>2, <2>3, <1>2
  <2> HIDE DEF m, I, c
  <2>5. PICK x \in 1..Len(e) : e[x] = m
    BY <2>2, <2>4, <1>4 DEF Picks
  <2> QED BY <2>5, <2>2, <1>4 DEF Picks
<1>9. \A x, y \in 1..Len(c) : x < y => FirstAt(c[x]) < FirstAt(c[y])
  <2> HIDE DEF c, I
  <2> QED BY <1>4, <1>7 DEF Picks
<1>10. \A x \in 1..Len(c) : FirstAt(c[x]) >= x
  <2> HIDE DEF c, I
  <2>1. \A x \in 1..Len(e) : e[x] >= 1
    BY <1>4, <1>7 DEF Picks
  <2>2. \A x \in 1..Len(e) : e[x] >= x
    BY <2>1, <1>4, PlacesGrow DEF Picks
  <2> QED BY <2>2, <1>7
<1> HIDE DEF c, I
<1>11. \A x \in 1..Len(c) : c[x] \in ToSet(ranked) /\ FirstAt(c[x]) <= n
  BY <1>7, <1>1
<1> QED BY <1>5, <1>8, <1>9, <1>10, <1>11 DEF c

\* Of short bodies, Over * k chunks are of k bodies or more: each is numbered by its body's
\* place among the slots and by how many of that body came up to it.
LEMMA ManyBodies ==
  ASSUME NEW S, ranked \in Seq(S), Over \in Nat \ {0}, k \in Nat, ShortBodies,
         Over * k <= Len(ranked)
  PROVE  k <= Len(Collapse(Asked))
<1> DEFINE n == Over * k
           c == Collapse(Asked)
           Upto(i) == {j \in 1..i : ranked[j] = ranked[i]}
           T == (1..Len(c)) \X (1..Over)
           at(i) == CHOOSE x \in 1..Len(c) : c[x] = ranked[i]
           g == [i \in 1..n |-> <<at(i), Cardinality(Upto(i))>>]
<1>1. n \in Nat /\ Len(ranked) \in Nat /\ Len(c) \in Nat
  <2>1. n \in Nat /\ Over \in Nat
    OBVIOUS
  <2>2. c \in Seq(S)
    BY <2>1, CollapseIs
  <2> HIDE DEF c, n
  <2> QED BY <2>1, <2>2, LenProperties
<1>2. ASSUME NEW i \in 1..n
      PROVE  /\ i \in 1..Len(ranked) /\ ranked[i] \in ToSet(ranked)
             /\ \E x \in 1..Len(c) : c[x] = ranked[i]
             /\ IsFiniteSet(Upto(i)) /\ Cardinality(Upto(i)) \in 1..Over
  <2>1. i \in 1..Len(ranked) /\ ranked[i] \in ToSet(ranked)
    <3>1. i \in 1..Len(ranked)
      BY <1>1
    <3> QED BY <3>1, LenProperties DEF ToSet
  <2>2. FirstAt(ranked[i]) \in Nat /\ FirstAt(ranked[i]) <= i
    BY <2>1, FirstIs
  <2>3. FirstAt(ranked[i]) <= n
    BY <2>2, <1>1
  <2>4. \E x \in 1..Len(c) : c[x] = ranked[i]
    BY <2>1, <2>3, <1>1, CollapseIs
  <2> DEFINE all == {j \in 1..Len(ranked) : ranked[j] = ranked[i]}
  <2>5. IsFiniteSet(1..Len(ranked))
    BY <1>1, FS_Interval
  <2>6. IsFiniteSet(all) /\ Cardinality(all) <= Over
    BY <2>1, <2>5, FS_Subset DEF ShortBodies
  <2>7. Upto(i) \in SUBSET all /\ i \in Upto(i)
    BY <2>1, <1>1
  <2>8. IsFiniteSet(Upto(i)) /\ Cardinality(Upto(i)) <= Cardinality(all)
    BY <2>6, <2>7, FS_Subset
  <2>9. Cardinality(Upto(i)) \in Nat /\ Cardinality(all) \in Nat /\ Cardinality(Upto(i)) # 0
    BY <2>6, <2>7, <2>8, FS_CardinalityType, FS_EmptySet
  <2>10. Cardinality(Upto(i)) \in 1..Over
    <3> HIDE DEF Upto, all
    <3> QED BY <2>6, <2>8, <2>9
  <2> QED BY <2>1, <2>4, <2>8, <2>10
<1>3. g \in [1..n -> T]
  <2> HIDE DEF c, n, Upto
  <2> QED BY <1>2
<1>4. ASSUME NEW i \in 1..n, NEW j \in 1..n, i < j PROVE g[i] # g[j]
  <2>1. SUFFICES ASSUME g[i] = g[j] PROVE FALSE
    OBVIOUS
  <2>2. \A m \in 1..n : c[at(m)] = ranked[m]
    <3> HIDE DEF c, n, Upto
    <3> QED BY <1>2
  <2>3. at(i) = at(j) /\ Cardinality(Upto(i)) = Cardinality(Upto(j))
    <3> HIDE DEF c, n, Upto, at
    <3> QED BY <2>1
  <2>4. ranked[i] = ranked[j]
    <3> HIDE DEF c, n, Upto, at
    <3> QED BY <2>2, <2>3
  <2>5. Upto(i) \in SUBSET Upto(j) /\ j \in Upto(j) /\ j \notin Upto(i)
    BY <2>4, <1>4, <1>1
  <2>6. Upto(i) = Upto(j)
    <3> HIDE DEF c, n, Upto, at
    <3> QED BY <2>3, <2>5, <1>2, FS_Subset
  <2> QED BY <2>5, <2>6
<1> HIDE DEF g
<1>5. SUFFICES ASSUME Len(c) < k PROVE FALSE
  <2> HIDE DEF c
  <2> QED BY <1>1 DEF c
<1>6. IsFiniteSet(T) /\ Cardinality(T) = Len(c) * Over
  <2>1. IsFiniteSet(1..Len(c)) /\ Cardinality(1..Len(c)) = Len(c)
    <3> HIDE DEF c
    <3> QED BY <1>1, UpTo
  <2>2. IsFiniteSet(1..Over) /\ Cardinality(1..Over) = Over
    BY UpTo
  <2> HIDE DEF c
  <2> QED BY <2>1, <2>2, FS_Product
<1>7. IsFiniteSet(1..n) /\ Cardinality(1..n) = n
  <2> HIDE DEF n
  <2> QED BY <1>1, UpTo
<1>8. Len(c) * Over < n
  <2>1. \A a, b \in Nat, o \in Nat \ {0} : a < b => a * o < o * b
    OBVIOUS
  <2> HIDE DEF c
  <2> QED BY <2>1, <1>1, <1>5
<1> HIDE DEF T, n, c, Upto, at
<1>10. Cardinality(T) < Cardinality(1..n)
  BY <1>6, <1>7, <1>8
<1>9. \E i, j \in 1..n : i # j /\ g[i] = g[j]
  <2> DEFINE D == 1..n
  <2>1. IsFiniteSet(D) /\ IsFiniteSet(T) /\ Cardinality(T) < Cardinality(D) /\ g \in [D -> T]
    BY <1>3, <1>6, <1>7, <1>10
  <2> HIDE DEF D
  <2>2. \E i, j \in D : i # j /\ g[i] = g[j]
    BY <2>1, FS_PigeonHole, SMT
  <2> QED BY <2>2 DEF D
<1> QED BY <1>4, <1>9, <1>1

\* What a search returns is the best of what it was asked for: whatever it leaves out is
\* further down than all of it, and of short bodies it leaves nothing out unless it is full.
BestHits ==
  /\ Len(hits) <= k
  /\ \A x \in 1..Len(hits) : hits[x] \in ToSet(ranked)
  /\ \A x, y \in 1..Len(hits) : x < y => FirstAt(hits[x]) < FirstAt(hits[y])
  /\ \A r \in ToSet(ranked) \ ToSet(hits) :
       /\ FirstAt(r) > k
       /\ \A x \in 1..Len(hits) : FirstAt(hits[x]) < FirstAt(r)
       /\ ShortBodies => Len(hits) = k

\* The hits of a search are the k best slots of the chunks it asked for.
LEMMA SearchIsBest ==
  ASSUME NEW S, ranked \in Seq(S), Over \in Nat \ {0}, k \in Nat, Search
  PROVE  BestHits'
<1> DEFINE n == Over * k
           c == Collapse(Asked)
<1>1. n \in Nat /\ n >= k
  OBVIOUS
<1>2. /\ c \in Seq(S)
      /\ \A x \in 1..Len(c) : c[x] \in ToSet(ranked) /\ FirstAt(c[x]) <= n
      /\ \A x \in 1..Len(c) : FirstAt(c[x]) >= x
      /\ \A x, y \in 1..Len(c) : x < y => FirstAt(c[x]) < FirstAt(c[y])
      /\ \A r \in ToSet(ranked) : FirstAt(r) <= n => \E x \in 1..Len(c) : c[x] = r
  BY <1>1, CollapseIs
<1>3. hits' = AtMost(c, k) /\ UNCHANGED <<ranked, k>>
  BY DEF Search, Asked, reader
<1>4. (ShortBodies' <=> ShortBodies) /\ (\A r : FirstAt(r)' = FirstAt(r))
  BY <1>3 DEF ShortBodies, FirstAt, SelectInSeq, ToSet
<1> DEFINE h == AtMost(c, k)
<1>5. ShortBodies /\ n <= Len(ranked) => k <= Len(c)
  BY ManyBodies
<1> HIDE DEF c, n
<1>6. /\ h \in Seq(S) /\ Len(h) = IF Len(c) < k THEN Len(c) ELSE k
      /\ \A x \in 1..Len(h) : h[x] = c[x]
  BY <1>2, AtMostIs
<1>7. Len(c) \in Nat /\ Len(h) \in Nat /\ Len(ranked) \in Nat /\ \A r : FirstAt(r) \in Nat
  BY <1>2, <1>6, LenProperties, FirstIs
<1> HIDE DEF h
<1>8. \A x \in 1..Len(h) : x \in 1..Len(c)
  BY <1>6, <1>7
<1>9. ASSUME NEW r \in ToSet(ranked) \ ToSet(h)
      PROVE  /\ FirstAt(r) > k
             /\ \A x \in 1..Len(h) : FirstAt(h[x]) < FirstAt(r)
             /\ ShortBodies => Len(h) = k
  <2>1. CASE FirstAt(r) <= n
    <3>1. PICK x \in 1..Len(c) : c[x] = r
      BY <2>1, <1>2
    <3>2. x \notin 1..Len(h)
      <4>1. \A y \in 1..Len(h) : h[y] \in ToSet(h)
        BY <1>6, LenProperties DEF ToSet
      <4> QED BY <4>1, <3>1, <1>6
    <3>3. Len(h) = k /\ x > k
      BY <3>2, <1>6, <1>7
    <3>4. FirstAt(r) >= x
      BY <3>1, <1>2
    <3> QED BY <3>1, <3>3, <3>4, <1>2, <1>6, <1>7, <1>8
  <2>2. CASE FirstAt(r) > n
    <3>1. FirstAt(r) \in 1..Len(ranked)
      BY FirstIs
    <3>2. n <= Len(ranked)
      BY <3>1, <2>2, <1>1, <1>7
    <3>3. \A x \in 1..Len(h) : FirstAt(h[x]) <= n
      BY <1>2, <1>6, <1>8
    <3>4. \A x \in 1..Len(h) : FirstAt(h[x]) < FirstAt(r)
      BY <3>3, <2>2, <1>1, <1>7
    <3>5. FirstAt(r) > k
      BY <2>2, <1>1, <1>7
    <3>6. ShortBodies => Len(h) = k
      BY <3>2, <1>5, <1>6, <1>7
    <3> QED BY <3>4, <3>5, <3>6
  <2> QED BY <2>1, <2>2, <1>1, <1>7
<1>10. Len(h) <= k
  BY <1>6, <1>7
<1>11. /\ \A x \in 1..Len(h) : h[x] \in ToSet(ranked)
       /\ \A x, y \in 1..Len(h) : x < y => FirstAt(h[x]) < FirstAt(h[y])
  BY <1>2, <1>6, <1>8
<1>12. hits' = h /\ ranked' = ranked /\ k' = k
  BY <1>3 DEF h
<1> QED BY <1>4, <1>9, <1>10, <1>11, <1>12 DEF BestHits

\* What resolves of the hits, in their order.
LEMMA ResolvedIs ==
  ASSUME hits \in Seq(Record), BestHits
  PROVE  /\ Resolved \in Seq(Record)
         /\ \A x \in 1..Len(Resolved) : Resolved[x] \in ToSet(hits)
         /\ \A x, y \in 1..Len(Resolved) : x < y => FirstAt(Resolved[x]) < FirstAt(Resolved[y])
         /\ \A r \in held \cap ToSet(hits) :
              Sees(r) => \E x \in 1..Len(Resolved) : Resolved[x] = r
<1> DEFINE I == {i \in DOMAIN hits : hits[i] \in held /\ (hits[i] \in kw \/ Sees(hits[i]))}
<1>1. Resolved = EntriesAt(hits, I)
  BY DEF Resolved
<1>2. DOMAIN hits = 1..Len(hits) /\ Len(hits) \in Nat
  BY LenProperties
<1>3. \A i \in DOMAIN hits : hits[i] \in held /\ Sees(hits[i]) => i \in I
  OBVIOUS
<1> HIDE DEF I
<1>4. PICK e \in Seq(Nat) : Picks(Resolved, e, hits, I, Len(hits))
  BY <1>1, EntriesAre
<1>5. Resolved \in Seq(Record)
  BY <1>1, EntriesAre
<1>6. \A x \in 1..Len(Resolved) :
        x \in 1..Len(e) /\ e[x] \in 1..Len(hits) /\ Resolved[x] = hits[e[x]]
  BY <1>4 DEF Picks
<1>7. \A x \in 1..Len(Resolved) : Resolved[x] \in ToSet(hits)
  BY <1>2, <1>6 DEF ToSet
<1>8. \A x, y \in 1..Len(Resolved) : x < y => FirstAt(Resolved[x]) < FirstAt(Resolved[y])
  BY <1>4, <1>6 DEF Picks, BestHits
<1>9. ASSUME NEW r \in held \cap ToSet(hits), Sees(r)
      PROVE  \E x \in 1..Len(Resolved) : Resolved[x] = r
  <2>1. PICK i \in DOMAIN hits : hits[i] = r
    BY DEF ToSet
  <2>2. i \in (1..Len(hits)) \cap I
    BY <2>1, <1>2, <1>3, <1>9
  <2>3. PICK x \in 1..Len(e) : e[x] = i
    BY <2>2, <1>4 DEF Picks
  <2> QED BY <2>1, <2>3, <1>4 DEF Picks
<1> QED BY <1>5, <1>7, <1>8, <1>9

\* The vector channel: nothing that the reader sees is left out of it but for better ones, and
\* it is not empty when one of the first chunks is of a record that the reader sees.
Found ==
  /\ ShortBodies /\ gated => Complete
  /\ \A r \in held \cap ToSet(ranked) : Sees(r) /\ FirstAt(r) <= Pool => channel # <<>>

ChannelInv ==
  /\ k \in {Pool} \cup (Pool..MaxSlots) /\ (pc = "resolve" => BestHits) /\ (Searched => Found)

\* A search that ends with Enough leaves a record that the reader sees out of the channel only
\* for better ones: what it did not return lies behind k slots, and with one chunk to a slot
\* fewer than Pool of them resolve only when the index has no more.
LEMMA EnoughIsFound ==
  ASSUME Sizes, InSight, ChannelInv, pc = "resolve", Enough, channel' = AtMost(Resolved, Pool),
         UNCHANGED <<gated, held, ranked, k>>
  PROVE  Found'
<1> DEFINE c == AtMost(Resolved, Pool)
<1>1. /\ BestHits /\ hits \in Seq(Record) /\ ranked \in Seq(Record)
      /\ k \in Nat /\ Pool \in Nat /\ k >= Pool
  BY DEF ChannelInv, InSight, Sizes, Inputs
<1>2. /\ Resolved \in Seq(Record)
      /\ \A x \in 1..Len(Resolved) : Resolved[x] \in ToSet(hits)
      /\ \A x, y \in 1..Len(Resolved) : x < y => FirstAt(Resolved[x]) < FirstAt(Resolved[y])
      /\ \A r \in held \cap ToSet(hits) :
           Sees(r) => \E x \in 1..Len(Resolved) : Resolved[x] = r
  BY <1>1, ResolvedIs
<1>3. /\ c \in Seq(Record) /\ Len(c) = IF Len(Resolved) < Pool THEN Len(Resolved) ELSE Pool
      /\ \A x \in 1..Len(c) : c[x] = Resolved[x]
  BY <1>1, <1>2, AtMostIs
<1> HIDE DEF c
<1>4. /\ Len(Resolved) \in Nat /\ Len(c) \in Nat /\ DOMAIN c = 1..Len(c)
      /\ DOMAIN hits = 1..Len(hits) /\ Len(hits) \in Nat /\ \A r : FirstAt(r) \in Nat
  BY <1>1, <1>2, <1>3, LenProperties, FirstIs
<1>5. \A x \in 1..Len(c) : x \in 1..Len(Resolved)
  BY <1>3, <1>4
<1>6. /\ channel' = c /\ (ShortBodies' <=> ShortBodies) /\ (\A r : FirstAt(r)' = FirstAt(r))
      /\ (\A r : Sees(r)' <=> Sees(r))
  BY DEF c, ShortBodies, FirstAt, SelectInSeq, ToSet, Sees
<1>7. ASSUME NEW r \in held \cap ToSet(hits), Sees(r), r \notin ToSet(c)
      PROVE  Len(c) = Pool /\ \A x \in 1..Len(c) : FirstAt(c[x]) < FirstAt(r)
  <2>1. PICK x \in 1..Len(Resolved) : Resolved[x] = r
    BY <1>2, <1>7
  <2>2. x \notin 1..Len(c)
    BY <2>1, <1>3, <1>4, <1>7 DEF ToSet
  <2>3. Len(c) = Pool /\ x > Pool
    BY <2>2, <1>3, <1>4
  <2>4. \A y \in 1..Len(c) : y < x
    BY <2>3, <1>4
  <2> QED BY <2>1, <2>3, <2>4, <1>2, <1>3, <1>5
<1>8. ASSUME ShortBodies, gated, NEW r \in held \cap ToSet(ranked), Sees(r), r \notin ToSet(c)
      PROVE  (Len(c) = Pool /\ \A x \in 1..Len(c) : FirstAt(c[x]) < FirstAt(r)) \/ k >= MaxSlots
  <2>1. CASE r \in ToSet(hits)
    BY <2>1, <1>7, <1>8
  <2>2. CASE r \notin ToSet(hits)
    <3>1. Len(hits) = k /\ \A x \in 1..Len(hits) : FirstAt(hits[x]) < FirstAt(r)
      BY <2>2, <1>1, <1>8 DEF BestHits
    <3>2. Len(Resolved) >= Pool \/ k >= MaxSlots
      BY <3>1, <1>1, <1>8 DEF Enough
    <3>3. \A x \in 1..Len(c) : FirstAt(c[x]) < FirstAt(r)
      <4>1. \A x \in 1..Len(c) : c[x] \in ToSet(hits)
        BY <1>2, <1>3, <1>5
      <4> QED BY <4>1, <3>1, <1>4 DEF ToSet
    <3> QED BY <3>2, <3>3, <1>3, <1>4, <1>1
  <2> QED BY <2>1, <2>2
<1>9. ASSUME NEW r \in held \cap ToSet(ranked), Sees(r), FirstAt(r) <= Pool
      PROVE  c # <<>>
  <2>1. r \in ToSet(hits)
    <3>1. r \notin ToSet(hits) => FirstAt(r) > k
      BY <1>1 DEF BestHits
    <3> QED BY <3>1, <1>1, <1>4, <1>9
  <2>2. PICK x \in 1..Len(Resolved) : Resolved[x] = r
    BY <2>1, <1>2, <1>9
  <2>3. Len(c) # 0
    BY <2>2, <1>1, <1>3, <1>4 DEF Sizes
  <2> QED BY <2>3
<1>10. \A y \in ToSet(c) : \E x \in 1..Len(c) : y = c[x]
  BY <1>4 DEF ToSet
<1>11. ASSUME ShortBodies, gated, NEW r \in Record, LeftOut(r)'
       PROVE  (Len(c) = Pool /\ \A y \in ToSet(c) : FirstAt(y) < FirstAt(r)) \/ k >= MaxSlots
  <2>1. r \in held \cap ToSet(ranked) /\ Sees(r) /\ r \notin ToSet(c)
    BY <1>6, <1>11 DEF LeftOut
  <2> QED BY <2>1, <1>8, <1>10, <1>11
<1>12. ShortBodies /\ gated => Complete'
  BY <1>6, <1>11 DEF Complete
<1> QED BY <1>6, <1>9, <1>12 DEF Found

\* What is found stays found while records go.
LEMMA StaysFound ==
  ASSUME Found, held' \subseteq held, UNCHANGED <<gated, ranked, k, channel>>
  PROVE  Found'
<1>1. /\ (ShortBodies' <=> ShortBodies) /\ (\A r : FirstAt(r)' = FirstAt(r))
      /\ (\A r : Sees(r)' <=> Sees(r))
  BY DEF ShortBodies, FirstAt, SelectInSeq, ToSet, Sees
<1>2. \A r : LeftOut(r)' => LeftOut(r)
  BY <1>1 DEF LeftOut
<1>3. Complete => Complete'
  BY <1>1, <1>2 DEF Complete
<1> QED BY <1>1, <1>3 DEF Found

\* A query near to nothing injects nothing, once the channel is what it ought to be.
LEMMA FuseOffTopic ==
  ASSUME Sizes, InSight, ChannelInv, Fuse, ~failed, floored, ~query.boot, near = 0, ShortBodies,
         NEW r \in held \cap ToSet(ranked), Sees(r), (gated /\ k < MaxSlots) \/ FirstAt(r) <= Pool
  PROVE  seeds' = <<>>
<1>1. Found
  BY DEF ChannelInv, Searched, Fuse
<1>2. Pool \in Nat \ {0} /\ MaxSlots \in Nat /\ k \in Nat /\ Limit \in Nat
  BY DEF Sizes, Inputs, InSight
<1>3. channel # <<>>
  <2>1. CASE FirstAt(r) <= Pool
    BY <2>1, <1>1 DEF Found
  <2>2. CASE gated /\ k < MaxSlots /\ r \in ToSet(channel)
    BY <2>2 DEF ToSet
  <2>3. CASE gated /\ k < MaxSlots /\ r \notin ToSet(channel)
    <3>1. LeftOut(r) /\ r \in Record
      BY <2>3 DEF LeftOut, InSight
    <3>2. Len(channel) = Pool
      BY <1>1, <1>2, <2>3, <3>1 DEF Found, Complete
    <3> QED BY <3>2, <1>2
  <2> QED BY <2>1, <2>2, <2>3
<1>4. \A c : ~Clears(c)
  BY DEF Clears
<1>5. Survivors = {}
  BY <1>3, <1>4 DEF Survivors
<1>6. OnePerUri({c \in Survivors : Uri(c) \notin Skills}) = {}
  BY <1>5 DEF OnePerUri
<1>7. seeds' \in Answers({})
  BY <1>6 DEF Fuse
<1>8. Cardinality({}) = 0
  BY FS_EmptySet
<1>9. seeds' \in [1..0 -> {}]
  <2>1. (IF Cardinality({}) < Limit THEN Cardinality({}) ELSE Limit) = 0
    BY <1>2, <1>8
  <2> QED BY <1>7, <2>1 DEF Answers
<1> QED BY <1>9

\* The hits and the channel through every step of a recall.
LEMMA StepChannel ==
  ASSUME Sizes, InSight, ChannelInv, [Next]_vars PROVE ChannelInv'
<1>1. /\ Pool \in Nat \ {0} /\ MaxSlots \in Nat /\ Over \in Nat \ {0}
      /\ k \in Nat /\ ranked \in Seq(Record)
  BY DEF Sizes, Inputs, InSight
<1>2. CASE Keyword
  BY <1>2 DEF Keyword, ChannelInv, reader, channels, Searched
<1>3. CASE Search
  <2>1. BestHits'
    BY <1>1, <1>3, SearchIsBest
  <2> QED
    BY <1>3, <2>1 DEF Search, ChannelInv, Searched
<1>4. CASE SearchFails
  BY <1>4 DEF SearchFails, ChannelInv, Searched
<1>5. CASE Resolve
  <2>1. pc = "resolve" /\ UNCHANGED <<gated, held, ranked>>
    BY <1>5 DEF Resolve, reader
  <2>2. CASE Enough
    <3>1. pc' = "fuse" /\ channel' = AtMost(Resolved, Pool) /\ UNCHANGED k
      BY <1>5, <2>2 DEF Resolve
    <3>2. Found'
      BY <2>1, <2>2, <3>1, EnoughIsFound
    <3> QED BY <3>1, <3>2 DEF ChannelInv
  <2>3. CASE ~Enough
    <3>1. pc' = "search" /\ k' = IF 4 * k < MaxSlots THEN 4 * k ELSE MaxSlots
      BY <1>5, <2>3 DEF Resolve
    <3>2. k < MaxSlots
      BY <2>3, <1>1 DEF Enough
    <3>3. k' \in Pool..MaxSlots
      BY <3>1, <3>2, <1>1 DEF ChannelInv
    <3> QED BY <3>1, <3>3 DEF ChannelInv, Searched
  <2> QED BY <2>2, <2>3
<1>6. ASSUME Fuse \/ Expand \/ NextHop \/ Hydrate \/ LinksWithin \/ Forget \/ UNCHANGED vars
      PROVE  ChannelInv'
  <2>1. /\ held' \subseteq held /\ UNCHANGED <<gated, ranked, k, hits, channel, failed>>
        /\ (Searched' => Searched) /\ (pc' = "resolve" => pc = "resolve")
    BY <1>6 DEF Fuse, Expand, NextHop, Hydrate, LinksWithin, Forget, vars, reader, channels,
                Searched
  <2>2. Searched' => Found'
    BY <2>1, StaysFound DEF ChannelInv
  <2>3. BestHits' <=> BestHits
    BY <2>1 DEF BestHits, FirstAt, SelectInSeq, ToSet, ShortBodies
  <2> QED BY <2>1, <2>2, <2>3 DEF ChannelInv
<1> QED BY <1>2, <1>3, <1>4, <1>5, <1>6 DEF Next

\* No search has run when the recall starts.
LEMMA InitChannel == ASSUME Sizes, Init PROVE ChannelInv
BY DEF Sizes, Inputs, Init, ChannelInv, Searched

\* Found is what the property asks of the vector channel.
LEMMA ChannelIsEnough == ASSUME InSight, ChannelInv PROVE ShortChannelIsComplete
BY DEF ChannelInv, Found, ShortChannelIsComplete, ChannelIsComplete

\* A query near to nothing stays without an answer.
LEMMA StepOffTopic ==
  ASSUME Sizes, InSight, ChannelInv, OffTopicInjectsNothing, [Next]_vars
  PROVE  OffTopicInjectsNothing'
<1>1. SUFFICES ASSUME Searched', pc' # "fuse", floored', ~query'.boot, near' = 0, ShortBodies',
                      NEW r \in held' \cap ToSet(ranked)', Sees(r)',
                      (gated' /\ k' < MaxSlots) \/ FirstAt(r)' <= Pool
               PROVE  seeds' = <<>>
  BY DEF OffTopicInjectsNothing
<1>2. CASE Fuse
  <2>1. ~failed /\ held' = held /\ UNCHANGED <<reader, k, ranked>>
    BY <1>1, <1>2 DEF Fuse, channels, Searched, reader
  <2>2. /\ floored /\ ~query.boot /\ near = 0 /\ ShortBodies /\ r \in held \cap ToSet(ranked)
        /\ Sees(r) /\ ((gated /\ k < MaxSlots) \/ FirstAt(r) <= Pool)
    BY <1>1, <2>1 DEF reader, FirstAt, SelectInSeq, ToSet, ShortBodies, Sees
  <2> QED BY <1>2, <2>1, <2>2, FuseOffTopic
<1>3. CASE ~Fuse
  <2>1. Searched /\ pc # "fuse" /\ held' \subseteq held /\ UNCHANGED <<reader, k, seeds, ranked>>
    <3>1. ~(Keyword \/ Search \/ SearchFails \/ Resolve)
      BY <1>1 DEF Keyword, Search, SearchFails, Resolve, Searched
    <3>2. CASE Expand \/ NextHop \/ Hydrate \/ LinksWithin
      <4>1. pc \in {"walk", "hydrate"}
        BY <3>2 DEF Expand, NextHop, Hydrate, LinksWithin
      <4>2. held' = held /\ UNCHANGED <<reader, channels, seeds>>
        BY <3>2 DEF Expand, NextHop, Hydrate, LinksWithin
      <4> QED BY <4>1, <4>2, <1>1 DEF reader, channels, Searched
    <3>3. CASE Forget
      BY <3>3, <1>1 DEF Forget, reader, channels, Searched
    <3>4. CASE UNCHANGED vars
      BY <3>4, <1>1 DEF vars, reader, channels, Searched
    <3> QED BY <3>1, <3>2, <3>3, <3>4, <1>3 DEF Next
  <2>2. /\ floored /\ ~query.boot /\ near = 0 /\ ShortBodies /\ r \in held \cap ToSet(ranked)
        /\ Sees(r) /\ ((gated /\ k < MaxSlots) \/ FirstAt(r) <= Pool)
    BY <1>1, <2>1 DEF reader, FirstAt, SelectInSeq, ToSet, ShortBodies, Sees
  <2>3. seeds = <<>>
    BY <2>1, <2>2 DEF OffTopicInjectsNothing
  <2> QED BY <2>1, <2>3
<1> QED BY <1>2, <1>3

\* At the start nothing is injected.
LEMMA InitOffTopic == ASSUME Init PROVE OffTopicInjectsNothing
BY DEF Init, OffTopicInjectsNothing, Searched

-----------------------------------------------------------------------------
(* The walk.                                                               *)

\* Two uris are neighbours by an edge between them, if the reader sees both.
LEMMA Neighbours ==
  ASSUME NEW u
  PROVE  \A v : v \in Adjacent(u) <=>
           /\ ScopeVisible(u) /\ ScopeVisible(v) /\ v # u
           /\ \E e \in edges : Touches(e, u) /\ Touches(e, v)
BY DEF Adjacent, Touches

\* And so after a step.
LEMMA NextNeighbours ==
  ASSUME NEW u
  PROVE  \A v : v \in Adjacent(u)' <=>
           /\ ScopeVisible(u)' /\ ScopeVisible(v)' /\ v # u
           /\ \E e \in edges' : Touches(e, u) /\ Touches(e, v)
BY DEF Adjacent, Touches

\* What goes takes neighbours away and makes none: a uri that comes into sight because the last
\* live version of another room's goes has no edges from then on.
LEMMA ForgetHides ==
  ASSUME Forget, NEW u PROVE Adjacent(u)' \subseteq Adjacent(u)
<1>1. PICK r \in held :
        /\ held' = held \ {r}
        /\ edges' = IF RowsOf(Uri(r)) \cap held = {r}
                    THEN {e \in edges : ~Touches(e, Uri(r))} ELSE edges
  BY DEF Forget
<1>2. gated' = gated
  BY DEF Forget, reader
<1> DEFINE Gone(v) == v = Uri(r) /\ RowsOf(Uri(r)) \cap held = {r}
<1>3. ASSUME NEW v, ScopeVisible(v)', ~Gone(v) PROVE ScopeVisible(v)
  <2>1. CASE ~gated
    BY <2>1 DEF ScopeVisible
  <2>2. CASE gated /\ \E o \in RowsOf(v) \cap held' : Sees(o)'
    BY <1>1, <1>2, <2>2 DEF ScopeVisible, Sees
  <2>3. CASE gated /\ RowsOf(v) \cap held' = {} /\ (RowsOf(v) = {} \/ Sees(Newest(RowsOf(v)))')
    <3>1. v = Uri(r) => RowsOf(v) \cap held \subseteq {r}
      BY <1>1, <2>3
    <3>2. v # Uri(r) => r \notin RowsOf(v)
      BY DEF RowsOf
    <3>3. RowsOf(v) \cap held = {}
      BY <1>1, <1>3, <2>3, <3>1, <3>2
    <3>4. Sees(Newest(RowsOf(v)))' <=> Sees(Newest(RowsOf(v)))
      BY <1>2 DEF Sees, RowsOf, Newest
    <3> QED BY <2>3, <3>3, <3>4 DEF ScopeVisible
  <2> QED
    BY <1>2, <1>3, <2>1, <2>2, <2>3 DEF ScopeVisible, RowsOf
<1>4. ASSUME NEW e \in edges', NEW v, Touches(e, v) PROVE e \in edges /\ ~Gone(v)
  BY <1>1, <1>4
<1>5. ASSUME NEW v \in Adjacent(u)' PROVE v \in Adjacent(u)
  <2>1. /\ ScopeVisible(u)' /\ ScopeVisible(v)' /\ v # u
        /\ \E e \in edges' : Touches(e, u) /\ Touches(e, v)
    BY <1>5, NextNeighbours
  <2>2. PICK e \in edges' : Touches(e, u) /\ Touches(e, v)
    BY <2>1
  <2>4. e \in edges /\ ~Gone(u) /\ ~Gone(v)
    <3> HIDE DEF Gone
    <3> QED BY <1>4, <2>2
  <2>5. ScopeVisible(u) /\ ScopeVisible(v)
    <3> HIDE DEF Gone
    <3> QED BY <1>3, <2>1, <2>4
  <2> QED BY <2>1, <2>2, <2>4, <2>5, Neighbours
<1> QED BY <1>5

\* Neighbours are ends of edges.
LEMMA AdjacentType ==
  ASSUME edges \subseteq UNION Graphs, NEW u PROVE Adjacent(u) \subseteq Uris
BY DEF Adjacent, Uris

\* A weight is a number, and halving its double gives it back.
LEMMA WeightType ==
  ASSUME NEW i \in Nat, i # 0 PROVE Weight(i) \in Nat /\ (2 * Weight(i)) \div 2 = Weight(i)
<1>1. Weight(i) \in Int /\ Weight(i) >= 0
  BY SMTT(30) DEF Weight
<1>2. \A w \in Nat : (2 * w) \div 2 = w
  OBVIOUS
<1> QED BY <1>1, <1>2

\* Before the walk there is nothing of it, and before hydration nothing rides.
NotYet ==
  /\ pc \notin {"walk", "hydrate", "done"} =>
       seeds = <<>> /\ todo = <<>> /\ next = <<>> /\ hop = 1 /\ reached = <<>>
  /\ pc \notin {"hydrate", "done"} => checked = {} /\ riders = <<>>

\* The walk keeps to its uris, its hops and its number of neighbours.
WalkTyped ==
  /\ edges \subseteq UNION Graphs
  /\ todo \in Seq(Uris \X Nat) /\ next \in Seq(Uris \X Nat)
  /\ hop \in 1..(Depth + 1) /\ (pc = "walk" => hop <= Depth)
  /\ DOMAIN reached \subseteq Uris \ SeedUris /\ Cardinality(DOMAIN reached) <= Cands
  /\ \A u \in DOMAIN reached : reached[u].score \in Nat /\ reached[u].hop \in Nat

\* The i-th seed has been walked from.
Walked(i) == pc = "walk" /\ hop = 1 => i <= Len(seeds) - Len(todo)
\* Its neighbours are reached, with its weight or better.
Near(i) ==
  \A u \in Adjacent(Uri(seeds[i])) \ SeedUris :
    u \in DOMAIN reached /\ reached[u].score >= Weight(i)

\* The first hop goes through the seeds in their order, and reaches all that is near to them
\* unless there is no more room.
WalkInv ==
  /\ pc = "walk" /\ hop = 1 =>
       /\ Len(todo) <= Len(seeds)
       /\ \A j \in 1..Len(todo) :
            LET i == Len(seeds) - Len(todo) + j
            IN todo[j] = <<Uri(seeds[i]), 2 * Weight(i)>>
  /\ pc \in {"walk", "hydrate", "done"} /\ Depth # 0 /\ Cardinality(DOMAIN reached) < Cands =>
       \A i \in 1..Len(seeds) : Walked(i) => Near(i)

\* One uri of the frontier: whom it reaches, and with what.
LEMMA ExpandReaches ==
  ASSUME Sizes, WalkTyped, Expand
  PROVE  LET u     == todo[1][1]
             score == todo[1][2] \div 2
             met   == Adjacent(u) \ SeedUris
         IN /\ u \in Uris /\ score \in Nat /\ met \subseteq Uris
            /\ \E new \in SUBSET (met \ DOMAIN reached) :
                 /\ DOMAIN reached' = DOMAIN reached \cup new
                 /\ Cardinality(DOMAIN reached') <= Cands
                 /\ Cardinality(DOMAIN reached') < Cands =>
                      /\ Cardinality(DOMAIN reached) < Cands
                      /\ met \subseteq DOMAIN reached'
                 /\ \A v \in DOMAIN reached' :
                      /\ reached'[v].score \in Nat /\ reached'[v].hop \in Nat
                      /\ v \in met => reached'[v].score >= score
                      /\ v \in DOMAIN reached => reached'[v].score >= reached[v].score
                 /\ next' \in Seq(Uris \X Nat)
<1> DEFINE u     == todo[1][1]
           score == todo[1][2] \div 2
           met   == Adjacent(u) \ SeedUris
           D     == DOMAIN reached
           fresh == met \ D
           room  == Cands - Cardinality(D)
           n     == IF Cardinality(fresh) < room THEN Cardinality(fresh) ELSE room
           hit   == [via |-> u, hop |-> hop, score |-> score]
<1>1. todo # <<>> /\ todo[1] \in Uris \X Nat /\ hop \in Nat /\ Cands \in Nat
  <2>1. todo # <<>> /\ todo \in Seq(Uris \X Nat)
    BY DEF Expand, WalkTyped
  <2>2. 1 \in 1..Len(todo)
    BY <2>1
  <2>3. todo[1] \in Uris \X Nat
    BY <2>1, <2>2, ElementOfSeq
  <2> QED BY <2>1, <2>3 DEF WalkTyped, Sizes
<1>2. u \in Uris /\ score \in Nat
  BY <1>1
<1>3. met \subseteq Uris
  BY AdjacentType DEF WalkTyped
<1>4. PICK new \in SUBSET fresh :
        /\ Cardinality(new) = n
        /\ reached' = [v \in D \cup new |->
                         IF v \in new THEN hit
                         ELSE IF v \in met /\ reached[v].score < score
                         THEN [hit EXCEPT !.hop = reached[v].hop] ELSE reached[v]]
        /\ next' = next \o SetToSeq({<<v, score>> : v \in new})
  BY Zenon DEF Expand
<1>5. /\ D \subseteq Uris /\ Cardinality(D) <= Cands /\ next \in Seq(Uris \X Nat)
      /\ \A v \in D : reached[v].score \in Nat /\ reached[v].hop \in Nat
  BY DEF WalkTyped
<1> HIDE DEF u, score, met, D
<1>6. IsFiniteSet(D) /\ IsFiniteSet(fresh) /\ IsFiniteSet(new)
  <2>1. IsFiniteSet(Uris)
    BY DEF Sizes
  <2>2. D \in SUBSET Uris /\ fresh \in SUBSET Uris /\ new \in SUBSET Uris
    BY <1>3, <1>5
  <2> QED BY <2>1, <2>2, FS_Subset
<1>7. /\ Cardinality(D) \in Nat /\ Cardinality(fresh) \in Nat /\ Cardinality(new) \in Nat
      /\ Cardinality(D \cup new) = Cardinality(D) + Cardinality(new)
  <2>1. D \cap new = {}
    OBVIOUS
  <2>2. Cardinality(D \cap new) = 0
    BY <2>1, FS_EmptySet
  <2>3. Cardinality(D \cup new) = Cardinality(D) + Cardinality(new) - Cardinality(D \cap new)
    BY <1>6, FS_Union
  <2>4. Cardinality(D) \in Nat /\ Cardinality(fresh) \in Nat /\ Cardinality(new) \in Nat
    BY <1>6, FS_CardinalityType
  <2> QED BY <2>2, <2>3, <2>4
<1>8. DOMAIN reached' = D \cup new
  BY <1>4
<1>9. Cardinality(D \cup new) <= Cands
  BY <1>1, <1>4, <1>5, <1>7
<1>10. ASSUME Cardinality(D \cup new) < Cands
       PROVE  Cardinality(D) < Cands /\ met \subseteq D \cup new
  <2>1. Cardinality(D) < Cands /\ Cardinality(new) = Cardinality(fresh)
    BY <1>1, <1>4, <1>5, <1>7, <1>10
  <2>2. new = fresh
    BY <1>6, <2>1, FS_Subset
  <2> QED BY <2>1, <2>2
<1>11. ASSUME NEW v \in D \cup new
       PROVE  /\ reached'[v].score \in Nat /\ reached'[v].hop \in Nat
              /\ v \in met => reached'[v].score >= score
              /\ v \in D => reached'[v].score >= reached[v].score
  <2>1. CASE v \in new
    <3>1. reached'[v] = hit /\ v \notin D
      BY <1>4, <2>1
    <3> QED BY <3>1, <1>1, <1>2
  <2>2. CASE v \notin new /\ v \in met /\ reached[v].score < score
    <3>1. reached'[v] = [hit EXCEPT !.hop = reached[v].hop] /\ v \in D
      BY <1>4, <2>2
    <3> QED BY <3>1, <1>1, <1>2, <1>5, <2>2
  <2>3. CASE v \notin new /\ ~(v \in met /\ reached[v].score < score)
    <3>1. reached'[v] = reached[v] /\ v \in D
      BY <1>4, <2>3
    <3> QED BY <3>1, <1>2, <1>5, <2>3
  <2> QED BY <2>1, <2>2, <2>3
<1>12. next' \in Seq(Uris \X Nat)
  <2> DEFINE P == {<<v, score>> : v \in new}
  <2>1. P \in SUBSET (Uris \X Nat)
    BY <1>2, <1>3
  <2>2. IsFiniteSet(P)
    <3>1. IsFiniteSet({score}) /\ P = new \X {score}
      BY FS_Singleton
    <3> QED BY <1>6, <3>1, FS_Product
  <2> HIDE DEF P
  <2>3. SetToSeq(P) \in Seq(P)
    BY <2>2, SetAsSeq
  <2>4. SetToSeq(P) \in Seq(Uris \X Nat)
    BY <2>1, <2>3, SeqMonotonic
  <2>5. next \o SetToSeq(P) \in Seq(Uris \X Nat)
    BY <1>5, <2>4, ConcatProperties
  <2> QED BY <1>4, <2>5 DEF P
<1> QED
  BY <1>2, <1>3, <1>4, <1>8, <1>9, <1>10, <1>11, <1>12 DEF u, score, met, D

\* An answer has no two copies of a uri.
SeedsOnce ==
  /\ Len(seeds) <= Limit
  /\ \A i, j \in 1..Len(seeds) : Uri(seeds[i]) = Uri(seeds[j]) => i = j

\* One copy of each uri is answered.
LEMMA OneEach ==
  ASSUME Sizes, InSight, Fuse
  PROVE  SeedsOnce' /\ seeds' \in Seq(Record)
<1> DEFINE X == {r \in Survivors : Uri(r) \notin Skills}
           best == OnePerUri(X)
           n == IF Cardinality(best) < Limit THEN Cardinality(best) ELSE Limit
<1>1. X \subseteq Record
  <2>1. ToSet(channel) \subseteq Seen
    BY LenProperties, ElementOfSeq DEF InSight, ToSet
  <2>2. Survivors \subseteq Seen
    BY <2>1 DEF Survivors, KeywordSurvivors, InSight
  <2> QED BY <2>2 DEF Seen
<1>2. ASSUME NEW r \in X PROVE Copy(X, Uri(r)) \in X /\ Uri(Copy(X, Uri(r))) = Uri(r)
  <2> DEFINE of == {o \in X : Uri(o) = Uri(r)}
  <2>1. of \in SUBSET Record /\ of # {} /\ \A a, b \in of : Uri(a) = Uri(b)
    BY <1>1
  <2> HIDE DEF X
  <2>2. Newest(of) \in of
    <3> HIDE DEF of
    <3> QED BY <2>1, NewestIsOne DEF Sizes, Inputs
  <2>3. Copy(X, Uri(r)) \in of
    BY <2>2 DEF Copy
  <2> QED BY <2>3
<1> HIDE DEF X
<1>3. \A a, b \in best : Uri(a) = Uri(b) => a = b
  BY <1>2 DEF OnePerUri
<1>4. best \subseteq Record
  BY <1>1, <1>2 DEF OnePerUri
<1>5. IsFiniteSet(best)
  BY <1>4, FS_Subset DEF Sizes, Inputs
<1>6. Cardinality(best) \in Nat /\ Limit \in Nat
  BY <1>5, FS_CardinalityType DEF Sizes, Inputs
<1> HIDE DEF best
<1>7. n \in Nat /\ n <= Limit
  BY <1>6
<1>8. seeds' \in [1..n -> best] /\ \A i, j \in 1..n : seeds'[i] = seeds'[j] => i = j
  BY DEF Fuse, Answers, best, X
<1> HIDE DEF n
<1>9. Len(seeds') = n /\ seeds' \in Seq(Record)
  BY <1>4, <1>7, <1>8
<1>10. \A i, j \in 1..n : Uri(seeds'[i]) = Uri(seeds'[j]) => i = j
  BY <1>3, <1>8
<1> QED BY <1>7, <1>9, <1>10 DEF SeedsOnce

\* The walk begins at the seeds, with nothing reached.
LEMMA FuseWalk ==
  ASSUME Sizes, InSight, NotYet, WalkTyped, Fuse
  PROVE  NotYet' /\ WalkTyped' /\ WalkInv'
<1>1. /\ pc = "fuse" /\ hop = 1 /\ todo = <<>> /\ next = <<>> /\ reached = <<>>
      /\ checked = {} /\ riders = <<>>
  BY DEF Fuse, NotYet
<1>2. UNCHANGED <<edges, next, hop, reached, checked, riders>>
  BY DEF Fuse
<1>3. seeds' \in Seq(Record) /\ Cands \in Nat /\ Depth \in Nat
  BY OneEach DEF Sizes
<1>4. /\ Len(seeds') \in Nat /\ DOMAIN seeds' = 1..Len(seeds')
      /\ \A i \in 1..Len(seeds') : seeds'[i] \in Record
  BY <1>3, LenProperties, ElementOfSeq
<1>5. DOMAIN reached = {} /\ Cardinality(DOMAIN reached) = 0
  <2>1. DOMAIN reached = {}
    BY <1>1
  <2> QED BY <2>1, FS_EmptySet
<1>6. CASE pc' = "done"
  <2>1. todo' = todo /\ (Depth = 0 \/ seeds' = <<>>)
    BY <1>6 DEF Fuse
  <2>2. NotYet' /\ WalkTyped'
    BY <1>2, <1>3, <1>5, <1>6, <2>1 DEF NotYet, WalkTyped
  <2>3. WalkInv'
    BY <1>6, <2>1 DEF WalkInv
  <2> QED BY <2>2, <2>3
<1>7. CASE pc' = "walk"
  <2>1. Depth # 0 /\ todo' = [i \in 1..Len(seeds') |-> <<Uri(seeds'[i]), 2 * Weight(i)>>]
    BY <1>4, <1>7 DEF Fuse
  <2>2. ASSUME NEW i \in 1..Len(seeds') PROVE <<Uri(seeds'[i]), 2 * Weight(i)>> \in Uris \X Nat
    <3>1. Weight(i) \in Nat
      BY <1>4, WeightType
    <3>2. Uri(seeds'[i]) \in Uris
      BY <1>4 DEF Uris
    <3> QED BY <3>1, <3>2
  <2>3. todo' \in Seq(Uris \X Nat) /\ Len(todo') = Len(seeds')
    <3>1. todo' \in [1..Len(seeds') -> Uris \X Nat]
      BY <2>1, <2>2
    <3> QED BY <1>4, <3>1
  <2>4. NotYet' /\ WalkTyped'
    BY <1>1, <1>2, <1>3, <1>5, <1>7, <2>1, <2>3 DEF NotYet, WalkTyped
  <2>5. ASSUME NEW j \in 1..Len(todo')
        PROVE  LET i == Len(seeds') - Len(todo') + j
               IN todo'[j] = <<Uri(seeds'[i]), 2 * Weight(i)>>
    <3>1. Len(seeds') - Len(todo') + j = j /\ j \in 1..Len(seeds')
      BY <1>4, <2>3
    <3> QED BY <2>1, <3>1
  <2>6. \A i \in 1..Len(seeds') : ~Walked(i)'
    BY <1>1, <1>2, <1>4, <1>7, <2>3 DEF Walked
  <2>7. WalkInv'
    BY <1>4, <2>3, <2>5, <2>6 DEF WalkInv
  <2> QED BY <2>4, <2>7
<1> QED BY <1>6, <1>7 DEF Fuse

\* One uri after the other.
LEMMA ExpandWalk ==
  ASSUME Sizes, InSight, NotYet, WalkTyped, WalkInv, Expand
  PROVE  NotYet' /\ WalkTyped' /\ WalkInv'
<1> DEFINE u     == todo[1][1]
           score == todo[1][2] \div 2
           met   == Adjacent(u) \ SeedUris
<1>1. PICK new \in SUBSET (met \ DOMAIN reached) :
        /\ DOMAIN reached' = DOMAIN reached \cup new
        /\ Cardinality(DOMAIN reached') <= Cands
        /\ Cardinality(DOMAIN reached') < Cands =>
             Cardinality(DOMAIN reached) < Cands /\ met \subseteq DOMAIN reached'
        /\ \A v \in DOMAIN reached' :
             /\ reached'[v].score \in Nat /\ reached'[v].hop \in Nat
             /\ v \in met => reached'[v].score >= score
             /\ v \in DOMAIN reached => reached'[v].score >= reached[v].score
        /\ next' \in Seq(Uris \X Nat)
  BY ExpandReaches
<1>2. met \subseteq Uris \ SeedUris /\ score \in Nat
  BY ExpandReaches
<1>3. /\ pc = "walk" /\ todo # <<>> /\ todo' = Tail(todo)
      /\ UNCHANGED <<pc, hop, seeds, edges, gated, held, checked, riders>>
  BY DEF Expand, reader
<1>4. /\ todo \in Seq(Uris \X Nat) /\ todo' \in Seq(Uris \X Nat) /\ Len(todo') = Len(todo) - 1
      /\ Len(todo) \in Nat \ {0} /\ \A j \in 1..Len(todo') : todo'[j] = todo[j + 1]
  <2>1. todo \in Seq(Uris \X Nat)
    BY DEF WalkTyped
  <2> QED BY <1>3, <2>1, HeadTailProperties, LenProperties
<1>5. seeds \in Seq(Seen) /\ Len(seeds) \in Nat /\ Cands \in Nat
  BY LenProperties DEF InSight, Sizes
<1>6. /\ \A w : Adjacent(w)' = Adjacent(w)
      /\ SeedUris' = SeedUris
  BY <1>3 DEF Adjacent, ScopeVisible, RowsOf, Sees, Newest, SeedUris, ToSet, Touches
<1> HIDE DEF u, score, met
<1>7. NotYet'
  BY <1>3 DEF NotYet
<1>8. WalkTyped'
  BY <1>1, <1>2, <1>3, <1>4, <1>6 DEF WalkTyped
<1>9. ASSUME hop = 1
      PROVE  /\ Len(todo') <= Len(seeds)
             /\ \A j \in 1..Len(todo') :
                  LET i == Len(seeds) - Len(todo') + j
                  IN todo'[j] = <<Uri(seeds[i]), 2 * Weight(i)>>
             /\ LET i == Len(seeds) - Len(todo')
                IN u = Uri(seeds[i]) /\ score = Weight(i) /\ i \in 1..Len(seeds)
  <2>1. /\ Len(todo) <= Len(seeds)
        /\ \A j \in 1..Len(todo) :
             LET i == Len(seeds) - Len(todo) + j
             IN todo[j] = <<Uri(seeds[i]), 2 * Weight(i)>>
    BY <1>3, <1>9 DEF WalkInv
  <2>2. ASSUME NEW j \in 1..Len(todo')
        PROVE  LET i == Len(seeds) - Len(todo') + j
               IN todo'[j] = <<Uri(seeds[i]), 2 * Weight(i)>>
    <3>1. /\ j + 1 \in 1..Len(todo) /\ todo'[j] = todo[j + 1]
          /\ Len(seeds) - Len(todo) + (j + 1) = Len(seeds) - Len(todo') + j
      BY <1>4, <1>5
    <3> QED BY <2>1, <3>1
  <2>3. 1 \in 1..Len(todo) /\ Len(seeds) - Len(todo) + 1 = Len(seeds) - Len(todo')
    BY <1>4, <1>5
  <2>4. Len(seeds) - Len(todo') \in 1..Len(seeds)
    BY <1>4, <1>5, <2>1
  <2>5. u = Uri(seeds[Len(seeds) - Len(todo')]) /\ todo[1][2] = 2 * Weight(Len(seeds) - Len(todo'))
    BY <2>1, <2>3 DEF u
  <2>6. score = Weight(Len(seeds) - Len(todo'))
    <3> DEFINE i == Len(seeds) - Len(todo')
    <3>1. i \in Nat /\ i # 0
      BY <2>4
    <3> HIDE DEF i
    <3>2. (2 * Weight(i)) \div 2 = Weight(i)
      BY <3>1, WeightType
    <3> QED BY <2>5, <3>2 DEF score, i
  <2>7. Len(todo') <= Len(seeds)
    BY <1>4, <1>5, <2>1
  <2> QED BY <2>2, <2>4, <2>5, <2>6, <2>7
<1>10. ASSUME Depth # 0, Cardinality(DOMAIN reached') < Cands, NEW i \in 1..Len(seeds), Walked(i)'
       PROVE  Near(i)'
  <2>1. Cardinality(DOMAIN reached) < Cands /\ met \subseteq DOMAIN reached'
    BY <1>1, <1>10
  <2>2. CASE Walked(i)
    <3>1. Near(i)
      BY <1>3, <1>10, <2>1, <2>2 DEF WalkInv
    <3>2. ASSUME NEW w \in Adjacent(Uri(seeds[i])) \ SeedUris
          PROVE  w \in DOMAIN reached' /\ reached'[w].score >= Weight(i)
      <4>1. w \in DOMAIN reached /\ reached[w].score >= Weight(i)
        BY <3>1, <3>2 DEF Near
      <4>2. w \in DOMAIN reached' /\ reached'[w].score >= reached[w].score
        BY <4>1, <1>1
      <4>3. reached[w].score \in Nat /\ reached'[w].score \in Nat /\ Weight(i) \in Nat
        BY <4>1, <4>2, <1>1, <1>5, WeightType DEF WalkTyped
      <4> QED BY <4>1, <4>2, <4>3
    <3> QED BY <3>2, <1>3, <1>6 DEF Near
  <2>3. CASE ~Walked(i)
    <3>1. hop = 1 /\ i = Len(seeds) - Len(todo')
      BY <1>3, <1>4, <1>5, <1>10, <2>3 DEF Walked
    <3>2. u = Uri(seeds[i]) /\ score = Weight(i)
      BY <3>1, <1>9
    <3>3. met = Adjacent(Uri(seeds[i])) \ SeedUris
      BY <3>2 DEF met
    <3>4. \A w \in met : w \in DOMAIN reached' /\ reached'[w].score >= Weight(i)
      BY <2>1, <3>2, <1>1
    <3> QED BY <3>3, <3>4, <1>3, <1>6 DEF Near
  <2> QED BY <2>2, <2>3
<1>11. WalkInv'
  BY <1>3, <1>9, <1>10 DEF WalkInv
<1> QED BY <1>7, <1>8, <1>11

\* From hop to hop.
LEMMA NextHopWalk ==
  ASSUME Sizes, InSight, NotYet, WalkTyped, WalkInv, NextHop
  PROVE  NotYet' /\ WalkTyped' /\ WalkInv'
<1>1. /\ pc = "walk" /\ todo = <<>> /\ next' = <<>>
      /\ UNCHANGED <<seeds, edges, gated, held, reached, checked, riders>>
      /\ \/ pc' = "hydrate" /\ UNCHANGED <<todo, hop>>
         \/ next # <<>> /\ hop # Depth /\ pc' = "walk" /\ todo' = next /\ hop' = hop + 1
  BY DEF NextHop, reader
<1>2. /\ \A w : Adjacent(w)' = Adjacent(w)
      /\ SeedUris' = SeedUris
  BY <1>1 DEF Adjacent, ScopeVisible, RowsOf, Sees, Newest, SeedUris, ToSet, Touches
<1>3. Depth \in Nat /\ Len(seeds) \in Nat /\ Len(todo) = 0 /\ hop \in 1..(Depth + 1) /\ hop <= Depth
  BY <1>1, LenProperties DEF Sizes, WalkTyped, InSight
<1>4. NotYet'
  BY <1>1 DEF NotYet
<1>5. WalkTyped'
  <2>1. hop' \in 1..(Depth + 1) /\ (pc' = "walk" => hop' <= Depth)
    BY <1>1, <1>3
  <2>2. todo' \in Seq(Uris \X Nat) /\ next' \in Seq(Uris \X Nat)
    BY <1>1 DEF WalkTyped
  <2> QED BY <1>1, <1>2, <2>1, <2>2 DEF WalkTyped
<1>6. \A i \in 1..Len(seeds) : Walked(i)
  BY <1>1, <1>3 DEF Walked
<1>7. \A i \in 1..Len(seeds) : Near(i) => Near(i)'
  BY <1>1, <1>2 DEF Near
<1>8. pc' = "walk" => hop' # 1
  BY <1>1, <1>3
<1>9. WalkInv'
  BY <1>1, <1>6, <1>7, <1>8 DEF WalkInv
<1> QED BY <1>4, <1>5, <1>9

\* Hydration has come to nothing that is worse than what is left.
HydrateInv ==
  /\ checked \subseteq DOMAIN reached /\ {Uri(r) : r \in ToSet(riders)} \subseteq checked
  /\ Len(riders) <= Limit
  /\ \A u \in Left, c \in checked : ~Before(u, c)
  /\ \A u \in checked \cap {Uri(r) : r \in Recallable} : u \in {Uri(r) : r \in ToSet(riders)}
  /\ pc = "done" /\ Depth # 0 /\ seeds # <<>> => Filled \/ Left = {}

\* One step of hydration: it takes the best candidate that is left, and what it resolves rides.
LEMMA HydrateStep ==
  ASSUME Sizes, InSight, NotYet, WalkTyped, WalkInv, HydrateInv, Hydrate
  PROVE  HydrateInv'
<1>1. PICK u \in Left :
        /\ \A v \in Left : ~Before(v, u)
        /\ checked' = checked \cup {u}
        /\ riders' = LET rows == {r \in RowsOf(u) \cap held : Sees(r)}
                     IN IF rows = {} \/ u \in Skills THEN riders ELSE Append(riders, Newest(rows))
  BY DEF Hydrate
<1>2. /\ pc = "hydrate" /\ pc' = pc /\ ~Filled
      /\ UNCHANGED <<gated, held, reached, seeds>>
  BY DEF Hydrate, reader, walk
<1> DEFINE rows == {r \in RowsOf(u) \cap held : Sees(r)}
<1>3. riders \in Seq(Seen) /\ Len(riders) \in Nat /\ Limit \in Nat /\ held \subseteq Record
  BY LenProperties DEF InSight, Sizes, Inputs
<1>4. rows \in SUBSET Record /\ \A r \in rows : Uri(r) = u /\ r \in Seen
  BY <1>3 DEF RowsOf, Seen
<1>5. rows # {} => Newest(rows) \in rows
  <2> HIDE DEF rows
  <2> QED BY <1>4, NewestIsOne DEF Sizes, Inputs
<1>6. /\ Left' = Left \ {u} /\ u \in DOMAIN reached /\ checked' \subseteq DOMAIN reached'
      /\ Left \subseteq DOMAIN reached
  BY <1>1, <1>2 DEF Left, HydrateInv
<1>7. \A v, w : Before(v, w)' <=> Before(v, w)
  BY <1>2 DEF Before
<1>8. Recallable' = Recallable
  BY <1>2 DEF Recallable, Sees
<1>9. \A v \in Left', c \in checked' : ~Before(v, c)'
  BY <1>1, <1>6, <1>7 DEF HydrateInv
<1> DEFINE Rides(q) == {Uri(r) : r \in ToSet(q)}
<1>10. CASE rows = {} \/ u \in Skills
  <2>1. riders' = riders
    BY <1>1, <1>10
  <2>2. u \notin {Uri(r) : r \in Recallable}
    BY <1>10, <1>3 DEF Recallable, RowsOf
  <2>3. Rides(riders') \subseteq checked'
    BY <1>1, <2>1 DEF HydrateInv
  <2>4. \A v \in checked' \cap {Uri(r) : r \in Recallable'} : v \in Rides(riders')
    BY <1>1, <1>8, <2>1, <2>2 DEF HydrateInv
  <2> QED
    BY <1>2, <1>6, <1>9, <2>1, <2>3, <2>4 DEF HydrateInv
<1>11. CASE ~(rows = {} \/ u \in Skills)
  <2> DEFINE x == Newest(rows)
  <2>1. riders' = Append(riders, x) /\ x \in Seen /\ Uri(x) = u
    BY <1>1, <1>4, <1>5, <1>11
  <2> HIDE DEF x
  <2>2. Len(riders') = Len(riders) + 1 /\ ToSet(riders') = ToSet(riders) \cup {x}
    <3>1. riders' \in Seq(Seen) /\ Len(riders') = Len(riders) + 1 /\ riders'[Len(riders) + 1] = x
          /\ \A i \in 1..Len(riders) : riders'[i] = riders[i]
      BY <1>3, <2>1, AppendProperties
    <3>2. DOMAIN riders' = 1..(Len(riders) + 1) /\ DOMAIN riders = 1..Len(riders)
      BY <1>3, <3>1, LenProperties
    <3>3. \A i \in 1..(Len(riders) + 1) : i \in 1..Len(riders) \/ i = Len(riders) + 1
      BY <1>3
    <3> QED BY <3>1, <3>2, <3>3, <1>3 DEF ToSet
  <2>3. Len(riders') <= Limit
    BY <1>2, <1>3, <2>2 DEF Filled
  <2>4. Rides(riders') = Rides(riders) \cup {u}
    BY <2>1, <2>2
  <2>5. Rides(riders') \subseteq checked'
    BY <1>1, <2>4 DEF HydrateInv
  <2>6. \A v \in checked' \cap {Uri(r) : r \in Recallable'} : v \in Rides(riders')
    BY <1>1, <1>8, <2>4 DEF HydrateInv
  <2> QED
    BY <1>2, <1>6, <1>9, <2>3, <2>5, <2>6 DEF HydrateInv
<1> QED BY <1>10, <1>11

\* What is forgotten takes none of this away.
LEMMA ForgetWalk ==
  ASSUME Sizes, InSight, NotYet, WalkTyped, WalkInv, HydrateInv, Forget
  PROVE  NotYet' /\ WalkTyped' /\ WalkInv' /\ HydrateInv'
<1>1. /\ held' \subseteq held /\ edges' \subseteq edges /\ pc # "done"
      /\ UNCHANGED <<gated, pc, seeds, todo, next, hop, reached, checked, riders>>
  BY DEF Forget, reader, channels, walk
<1>2. \A w : Adjacent(w)' \subseteq Adjacent(w)
  BY ForgetHides
<1>3. SeedUris' = SeedUris
  BY <1>1 DEF SeedUris, ToSet
<1>4. NotYet'
  BY <1>1 DEF NotYet
<1>5. WalkTyped'
  BY <1>1, <1>3 DEF WalkTyped
<1>6. \A i \in 1..Len(seeds) : (Near(i) => Near(i)') /\ (Walked(i)' <=> Walked(i))
  BY <1>1, <1>2, <1>3 DEF Near, Walked
<1>7. WalkInv'
  BY <1>1, <1>6 DEF WalkInv
<1>8. /\ Recallable' \subseteq Recallable /\ Left' = Left /\ (Filled' <=> Filled)
      /\ \A v, w : Before(v, w)' <=> Before(v, w)
  BY <1>1 DEF Recallable, Sees, Left, Filled, Before
<1>9. HydrateInv'
  BY <1>1, <1>8 DEF HydrateInv
<1> QED BY <1>4, <1>5, <1>7, <1>9

\* Before the walk nothing of it changes.
LEMMA ChannelWalk ==
  ASSUME Sizes, InSight, NotYet, WalkTyped, WalkInv, HydrateInv, SeedsOnce,
         Keyword \/ Search \/ SearchFails \/ Resolve
  PROVE  NotYet' /\ WalkTyped' /\ WalkInv' /\ HydrateInv' /\ SeedsOnce'
<1>1. /\ pc \in {"keyword", "search", "resolve"} /\ pc' \in {"search", "resolve", "fuse"}
      /\ UNCHANGED <<gated, held, edges, seeds, todo, next, hop, reached, checked, riders>>
  BY DEF Keyword, Search, SearchFails, Resolve, reader, walk
<1>2. SeedUris' = SeedUris /\ Left' = Left
  BY <1>1 DEF SeedUris, ToSet, Left
<1>3. Recallable' = Recallable /\ \A v, w : Before(v, w)' <=> Before(v, w)
  BY <1>1 DEF Recallable, Sees, Before
<1>4. NotYet' /\ WalkTyped' /\ SeedsOnce'
  BY <1>1, <1>2 DEF NotYet, WalkTyped, SeedsOnce
<1>5. WalkInv'
  BY <1>1 DEF WalkInv
<1>6. HydrateInv'
  BY <1>1, <1>2, <1>3 DEF HydrateInv
<1> QED BY <1>4, <1>5, <1>6

\* Hydration and the links change nothing of the walk.
LEMMA AfterWalk ==
  ASSUME Sizes, InSight, NotYet, WalkTyped, WalkInv, SeedsOnce,
         Hydrate \/ LinksWithin \/ UNCHANGED vars
  PROVE  NotYet' /\ WalkTyped' /\ WalkInv' /\ SeedsOnce'
<1>1. /\ UNCHANGED <<gated, held, edges, seeds, todo, next, hop, reached>>
      /\ \/ pc = "hydrate" /\ pc' \in {"hydrate", "done"}
         \/ UNCHANGED <<pc, checked, riders>>
  BY DEF Hydrate, LinksWithin, vars, reader, walk
<1>2. /\ \A w : Adjacent(w)' = Adjacent(w)
      /\ SeedUris' = SeedUris
  BY <1>1 DEF Adjacent, ScopeVisible, RowsOf, Sees, Newest, SeedUris, ToSet, Touches
<1>3. NotYet' /\ WalkTyped' /\ SeedsOnce'
  BY <1>1, <1>2 DEF NotYet, WalkTyped, SeedsOnce
<1>4. \A i \in 1..Len(seeds) : (Near(i)' <=> Near(i)) /\ (Walked(i)' => Walked(i) \/ pc # "walk")
  BY <1>1, <1>2 DEF Near, Walked
<1>5. \A i \in 1..Len(seeds) : Walked(i)' => Walked(i)
  BY <1>1, <1>4 DEF Walked
<1>6. WalkInv'
  BY <1>1, <1>4, <1>5 DEF WalkInv
<1> QED BY <1>3, <1>6

-----------------------------------------------------------------------------
(* What the recall finds.                                                  *)

\* Hydration through the steps that are not its own.
LEMMA StepHydrate ==
  ASSUME Sizes, InSight, NotYet, WalkTyped, WalkInv, HydrateInv,
         Fuse \/ Expand \/ NextHop \/ LinksWithin \/ UNCHANGED vars
  PROVE  HydrateInv'
<1>1. CASE Fuse \/ Expand \/ NextHop
  <2>1. pc \notin {"hydrate", "done"}
    BY <1>1 DEF Fuse, Expand, NextHop
  <2>2. checked' = {} /\ riders' = <<>>
    BY <1>1, <2>1 DEF NotYet, Fuse, Expand, NextHop
  <2>3. pc' = "done" => Depth = 0 \/ seeds' = <<>>
    BY <1>1 DEF Fuse, Expand, NextHop
  <2>4. ToSet(riders') = {} /\ Len(riders') = 0
    BY <2>2 DEF ToSet
  <2>5. Limit \in Nat
    BY DEF Sizes, Inputs
  <2> QED BY <2>2, <2>3, <2>4, <2>5 DEF HydrateInv
<1>2. CASE LinksWithin \/ UNCHANGED vars
  <2>1. /\ UNCHANGED <<gated, held, seeds, reached, checked, riders>>
        /\ pc' = "done" => Filled \/ Left = {} \/ pc = "done"
    BY <1>2 DEF LinksWithin, vars, reader, walk
  <2>2. /\ Recallable' = Recallable /\ Left' = Left /\ (Filled' <=> Filled)
        /\ \A v, w : Before(v, w)' <=> Before(v, w)
    BY <2>1 DEF Recallable, Sees, Left, Filled, Before
  <2> QED BY <2>1, <2>2 DEF HydrateInv
<1> QED BY <1>1, <1>2

\* The lists keep to their limits.
Bounds ==
  /\ forgets \in 0..MaxForgets /\ failed \in BOOLEAN
  /\ pc \in {"keyword", "search", "resolve", "fuse", "walk", "hydrate", "done"}
  /\ Cardinality(kw) <= Pool /\ Len(hits) <= k /\ Len(channel) <= Pool

\* Every step keeps to the limits.
LEMMA StepBounds ==
  ASSUME Sizes, InSight, ChannelInv, Bounds, [Next]_vars PROVE Bounds'
<1>1. /\ Pool \in Nat /\ MaxSlots \in Nat /\ Over \in Nat \ {0} /\ MaxForgets \in Nat
      /\ ranked \in Seq(Record) /\ hits \in Seq(Record) /\ k \in Nat
  BY DEF Sizes, Inputs, InSight
<1>2. CASE Keyword
  <2>1. PICK found : IsFiniteSet(found) /\ kw' \in SUBSET found
                     /\ Cardinality(kw') = IF Cardinality(found) < Pool
                                            THEN Cardinality(found) ELSE Pool
    <3>1. IsFiniteSet(Recallable)
      <4>1. Recallable \in SUBSET Record
        BY DEF Recallable, InSight
      <4> QED BY <4>1, FS_Subset DEF Sizes, Inputs
    <3>2. \A S : IsFiniteSet(Recallable \cap S)
      BY <3>1, FS_Intersection
    <3> DEFINE found == IF query.boot THEN Recallable
                        ELSE Recallable \cap
                               (query.strong \cup (Recallable \cap (query.weak \ query.strong)))
    <3>3. IsFiniteSet(found)
      BY <3>1, <3>2
    <3>4. kw' \in SUBSET found
          /\ Cardinality(kw') = IF Cardinality(found) < Pool THEN Cardinality(found) ELSE Pool
      BY <1>2 DEF Keyword
    <3> HIDE DEF found
    <3> QED BY <3>3, <3>4
  <2>2. Cardinality(kw') <= Pool
    BY <1>1, <2>1, FS_CardinalityType
  <2> QED BY <1>2, <2>2 DEF Keyword, Bounds, channels
<1>3. CASE Search
  <2>1. BestHits'
    BY <1>1, <1>3, SearchIsBest
  <2> QED BY <1>3, <2>1 DEF Search, Bounds, BestHits
<1>4. CASE SearchFails
  BY <1>1, <1>4 DEF SearchFails, Bounds
<1>5. CASE Resolve
  <2>1. CASE Enough
    <3>1. /\ channel' = AtMost(Resolved, Pool) /\ pc' = "fuse"
          /\ UNCHANGED <<forgets, failed, kw, hits, k>>
      BY <1>5, <2>1 DEF Resolve
    <3>2. Resolved \in Seq(Record)
      BY <1>1, EntriesAre DEF Resolved
    <3>3. Len(channel') <= Pool
      BY <1>1, <3>1, <3>2, AtMostIs, LenProperties
    <3> QED BY <3>1, <3>3 DEF Bounds
  <2>2. CASE ~Enough
    <3>1. /\ k' = IF 4 * k < MaxSlots THEN 4 * k ELSE MaxSlots
          /\ pc' = "search" /\ UNCHANGED <<forgets, failed, kw, hits, channel>>
      BY <1>5, <2>2 DEF Resolve
    <3>2. k < MaxSlots
      BY <1>1, <2>2 DEF Enough
    <3>3. k' >= k /\ k' \in Nat /\ Len(hits) \in Nat
      BY <1>1, <3>1, <3>2, LenProperties
    <3> QED BY <1>1, <3>1, <3>3 DEF Bounds
  <2> QED BY <2>1, <2>2
<1>6. CASE Fuse \/ Expand \/ NextHop \/ Hydrate \/ LinksWithin \/ UNCHANGED vars
  <2>1. UNCHANGED <<forgets, channels>> /\ pc' \in {pc, "walk", "hydrate", "done"}
    BY <1>6 DEF Fuse, Expand, NextHop, Hydrate, LinksWithin, vars
  <2> QED BY <2>1 DEF Bounds, channels
<1>7. CASE Forget
  BY <1>1, <1>7 DEF Forget, Bounds, channels
<1> QED BY <1>2, <1>3, <1>4, <1>5, <1>6, <1>7 DEF Next

\* What every step of a recall keeps.
FindInv ==
  /\ InSight /\ ChannelInv /\ OffTopicInjectsNothing
  /\ NotYet /\ WalkTyped /\ WalkInv /\ SeedsOnce /\ HydrateInv /\ Bounds

\* A recall starts with it.
LEMMA InitFinds == ASSUME Sizes, Init PROVE FindInv
<1>1. InSight /\ ChannelInv /\ OffTopicInjectsNothing
  BY InitInSight, InitChannel, InitOffTopic DEF Sizes
<1>2. Cardinality({}) = 0
  BY FS_EmptySet
<1>3. DOMAIN reached = {} /\ ToSet(riders) = {} /\ Len(riders) = 0 /\ Len(seeds) = 0
  BY DEF Init, ToSet
<1>4. NotYet /\ WalkInv /\ Bounds
  <2>1. /\ pc = "keyword" /\ seeds = <<>> /\ todo = <<>> /\ next = <<>> /\ hop = 1 /\ reached = <<>>
        /\ checked = {} /\ riders = <<>> /\ forgets = 0 /\ failed = FALSE
    BY DEF Init
  <2>2. kw = {} /\ Len(hits) = 0 /\ Len(channel) = 0 /\ k = Pool
    BY DEF Init
  <2>3. Pool \in Nat /\ MaxForgets \in Nat
    BY DEF Sizes, Inputs
  <2>4. NotYet /\ WalkInv
    BY <2>1 DEF NotYet, WalkInv
  <2>5. Cardinality(kw) = 0 /\ 0 \in 0..MaxForgets
    BY <1>2, <2>2, <2>3
  <2>6. Bounds
    <3>1. forgets \in 0..MaxForgets /\ failed \in BOOLEAN /\ pc = "keyword"
      BY <2>1, <2>5
    <3>2. Cardinality(kw) <= Pool /\ Len(hits) <= k /\ Len(channel) <= Pool
      BY <2>2, <2>3, <2>5
    <3> QED BY <3>1, <3>2 DEF Bounds
  <2> QED BY <2>4, <2>6
<1>5. WalkTyped
  BY <1>2, <1>3 DEF Init, WalkTyped, Sizes
<1>6. SeedsOnce /\ HydrateInv
  BY <1>3 DEF Init, SeedsOnce, HydrateInv, Sizes, Inputs
<1> QED BY <1>1, <1>4, <1>5, <1>6 DEF FindInv

\* Every step of a recall keeps it.
LEMMA StepFinds == ASSUME Sizes, FindInv, [Next]_vars PROVE FindInv'
<1> USE DEF FindInv
<1>1. InSight' /\ ChannelInv' /\ OffTopicInjectsNothing' /\ Bounds'
  BY StepInSight, StepChannel, StepOffTopic, StepBounds DEF Sizes
<1>2. CASE Keyword \/ Search \/ SearchFails \/ Resolve
  BY <1>1, <1>2, ChannelWalk
<1>3. CASE Fuse
  BY <1>1, <1>3, FuseWalk, OneEach, StepHydrate
<1>4. CASE Expand
  <2>1. SeedsOnce'
    BY <1>4 DEF Expand, SeedsOnce
  <2> QED BY <1>1, <1>4, <2>1, ExpandWalk, StepHydrate
<1>5. CASE NextHop
  <2>1. SeedsOnce'
    BY <1>5 DEF NextHop, SeedsOnce
  <2> QED BY <1>1, <1>5, <2>1, NextHopWalk, StepHydrate
<1>6. CASE Hydrate
  BY <1>1, <1>6, AfterWalk, HydrateStep
<1>7. CASE LinksWithin \/ UNCHANGED vars
  BY <1>1, <1>7, AfterWalk, StepHydrate
<1>8. CASE Forget
  <2>1. SeedsOnce'
    BY <1>8 DEF Forget, SeedsOnce
  <2> QED BY <1>1, <1>8, <2>1, ForgetWalk
<1> QED BY <1>2, <1>3, <1>4, <1>5, <1>6, <1>7, <1>8 DEF Next

\* The riders are what hydration made of what the walk reached.
LEMMA BestOfTheNear == ASSUME Sizes, FindInv PROVE RidersAreTheBest
<1>1. SUFFICES ASSUME pc = "done", Cardinality(DOMAIN reached) < Cands, Depth # 0,
                      NEW i \in DOMAIN seeds,
                      NEW u \in (Adjacent(Uri(seeds[i])) \cap {Uri(r) : r \in Recallable})
                                \ SeedUris,
                      u \notin {Uri(r) : r \in ToSet(riders)}
               PROVE  /\ Len(riders) = Limit
                      /\ \A r \in ToSet(riders) : reached[Uri(r)].score >= Weight(i)
  BY DEF RidersAreTheBest
<1>2. seeds \in Seq(Seen) /\ riders \in Seq(Seen) /\ Limit \in Nat
  BY DEF FindInv, InSight, Sizes, Inputs
<1>3. i \in 1..Len(seeds) /\ i \in Nat /\ i # 0 /\ seeds # <<>> /\ Len(riders) \in Nat
  BY <1>2, LenProperties
<1>4. Walked(i)
  BY <1>1 DEF Walked
<1>5. Near(i)
  BY <1>1, <1>3, <1>4 DEF FindInv, WalkInv
<1>6. u \in DOMAIN reached /\ reached[u].score >= Weight(i)
  BY <1>5 DEF Near
<1>7. u \notin checked
  BY <1>1 DEF FindInv, HydrateInv
<1>8. u \in Left
  BY <1>6, <1>7 DEF Left
<1>9. Len(riders) = Limit
  <2>1. Filled
    BY <1>1, <1>3, <1>8 DEF FindInv, HydrateInv
  <2> QED BY <1>2, <1>3, <2>1 DEF FindInv, HydrateInv, Filled
<1>10. ASSUME NEW r \in ToSet(riders) PROVE reached[Uri(r)].score >= Weight(i)
  <2>1. Uri(r) \in checked /\ Uri(r) \in DOMAIN reached
    BY DEF FindInv, HydrateInv
  <2>2. ~Before(u, Uri(r))
    BY <1>8, <2>1 DEF FindInv, HydrateInv
  <2>3. reached[u].score \in Nat /\ reached[Uri(r)].score \in Nat /\ Weight(i) \in Nat
    BY <1>3, <1>6, <2>1, WeightType DEF FindInv, WalkTyped
  <2> QED BY <1>6, <2>2, <2>3 DEF Before
<1> QED BY <1>9, <1>10

\* The types of the recall, the limits of its lists included.
LEMMA FindsTypes == ASSUME Sizes, FindInv PROVE TypeOK
<1>1. /\ hits \in Seq(Record) /\ channel \in Seq(Seen)
      /\ seeds \in Seq(Seen) /\ riders \in Seq(Seen)
      /\ kw \subseteq Seen /\ held \subseteq Record /\ Seen \subseteq Record
  BY DEF FindInv, InSight, Seen
<1>2. ToSet(hits) \cup ToSet(channel) \cup ToSet(seeds) \cup ToSet(riders) \subseteq Record
  BY <1>1, LenProperties, ElementOfSeq DEF ToSet
<1>3. Cardinality(SeedUris) = Len(seeds)
  <2> DEFINE n == Len(seeds)
             f == [i \in 1..n |-> Uri(seeds[i])]
  <2>1. n \in Nat /\ DOMAIN seeds = 1..n
    BY <1>1, LenProperties
  <2>2. f \in Bijection(1..n, SeedUris)
    <3>1. f \in [1..n -> SeedUris] /\ \A u \in SeedUris : \E i \in 1..n : f[i] = u
      BY <2>1 DEF SeedUris, ToSet
    <3>2. \A i, j \in 1..n : f[i] = f[j] => i = j
      BY DEF FindInv, SeedsOnce
    <3> HIDE DEF f, n
    <3> QED BY <3>1, <3>2 DEF Bijection, Injection, IsInjective, Surjection
  <2> HIDE DEF f, n
  <2>3. IsFiniteSet(1..n) /\ Cardinality(1..n) = n
    BY <2>1, UpTo
  <2>4. Cardinality(SeedUris) = n
    BY <2>2, <2>3, FS_Bijection DEF ExistsBijection
  <2> QED BY <2>4 DEF n
<1> QED
  BY <1>1, <1>2, <1>3 DEF TypeOK, FindInv, Bounds, ChannelInv, WalkTyped, SeedsOnce, HydrateInv

\* What the reader may see is found (recall_hybrid and recall_expanded_graph of tools.rs): the
\* vector channel leaves a record out only for better ones, unless its query failed or the index
\* was exhausted, a query that is near to nothing injects nothing, and the riders are the best of
\* what is linked to the seeds: for any records, edges, rankings and limits.
THEOREM RecallFinds ==
  ASSUME Sizes
  PROVE  Spec => [](TypeOK /\ ShortChannelIsComplete /\ OffTopicInjectsNothing /\ RidersAreTheBest)
<1>1. FindInv => TypeOK /\ ShortChannelIsComplete /\ OffTopicInjectsNothing /\ RidersAreTheBest
  BY FindsTypes, ChannelIsEnough, BestOfTheNear DEF FindInv
<1> QED BY <1>1, InitFinds, StepFinds, PTL DEF Spec
=============================================================================
