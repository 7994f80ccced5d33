------------------------------ MODULE SeqLemmas ------------------------------
(***************************************************************************)
(* Facts about naturals, buffers and the entries counted in them that the  *)
(* proofs about the caches and the programs share.  The induction here     *)
(* ranges over the members of a set, so that no step instantiates an       *)
(* operator: it rests on the library's minimum of a well-founded relation. *)
(***************************************************************************)
EXTENDS Integers, FiniteSetsExt, SequencesExt, SequenceTheorems, FiniteSetTheorems,
        WellFoundedInduction, TLAPS

(* A set of naturals that is not empty has a least member.                 *)
LEMMA LeastOf ==
  ASSUME NEW T, T \subseteq Nat, T # {}
  PROVE  \E x \in T : \A y \in T : x <= y
<1>1. \E R : IsWellFoundedOn(R, Nat) /\ \A x, y \in Nat : x < y => <<x, y>> \in R
  <2>1. \A x, y \in Nat : x < y => <<x, y>> \in OpToRel(<, Nat)
    BY DEF OpToRel
  <2> QED
    BY <2>1, NatLessThanWellFounded
<1>2. PICK R : IsWellFoundedOn(R, Nat) /\ \A x, y \in Nat : x < y => <<x, y>> \in R
  BY <1>1
<1>3. \E x \in T : \A y \in T : ~ (<<y, x>> \in R)
  <2>1. IsWellFoundedOn(R, Nat)
    BY <1>2
  <2> QED
    BY <2>1, WFMin, Zenon
<1>4. PICK x \in T : \A y \in T : ~ (<<y, x>> \in R)
  BY <1>3
<1>5. ASSUME NEW y \in T PROVE x <= y
  <2>1. ~ (<<y, x>> \in R)
    BY <1>4
  <2>2. x \in Nat /\ y \in Nat
    OBVIOUS
  <2>3. ~(y < x)
    BY <1>2, <2>1, <2>2, Zenon
  <2> QED
    BY <2>2, <2>3
<1> QED
  BY <1>5

(* Induction over the members of a set.                                    *)
LEMMA NatsIn ==
  ASSUME NEW S, 0 \in S, \A n \in Nat : n \in S => n + 1 \in S
  PROVE  Nat \subseteq S
<1>1. SUFFICES ASSUME Nat \ S # {} PROVE FALSE
  OBVIOUS
<1>2. PICK x \in Nat \ S : \A y \in Nat \ S : x <= y
  BY <1>1, LeastOf
<1>3. x # 0 /\ x - 1 \in Nat
  BY <1>2
<1>4. x - 1 \in S
  BY <1>2, <1>3
<1> QED
  BY <1>2, <1>3, <1>4

(* A set of naturals with a bound that is not empty has a greatest member. *)
LEMMA GreatestOf ==
  ASSUME NEW n \in Nat, NEW S, S \subseteq 0 .. n, S # {}
  PROVE  \E x \in S : \A y \in S : x >= y
<1> DEFINE T == {k \in 0 .. n : n - k \in S}
<1>1. T \subseteq Nat /\ T # {}
  <2>1. PICK x \in S : TRUE
    OBVIOUS
  <2>2. n - x \in 0 .. n /\ n - (n - x) = x
    BY <2>1
  <2>3. n - x \in T
    BY <2>1, <2>2
  <2>4. T \subseteq Nat
    OBVIOUS
  <2> HIDE DEF T
  <2> QED
    BY <2>3, <2>4
<1>2. PICK k \in T : \A j \in T : k <= j
  BY <1>1, LeastOf
<1>3. n - k \in S
  OBVIOUS
<1>4. ASSUME NEW y \in S PROVE n - k >= y
  <2>1. n - y \in 0 .. n /\ n - (n - y) = y /\ y \in Nat
    OBVIOUS
  <2>2. n - y \in T
    BY <2>1
  <2> QED
    BY <1>2, <2>1, <2>2
<1> QED
  BY <1>3, <1>4

LEMMA MaxFacts ==
  ASSUME NEW n \in Nat, NEW S, S \subseteq 1 .. n, S # {}
  PROVE  /\ Max(S) \in S /\ \A y \in S : Max(S) >= y
         /\ \A m \in S : (\A y \in S : m >= y) => m = Max(S)
<1>1. S \subseteq 0 .. n
  OBVIOUS
<1>2. \E x \in S : \A y \in S : x >= y
  BY <1>1, GreatestOf
<1>3. Max(S) \in S /\ \A y \in S : Max(S) >= y
  BY <1>2 DEF Max
<1>4. ASSUME NEW m \in S, \A y \in S : m >= y PROVE m = Max(S)
  <2>1. m >= Max(S) /\ Max(S) >= m
    BY <1>3, <1>4
  <2>2. m \in Int /\ Max(S) \in Int
    <3>1. m \in 1 .. n /\ Max(S) \in 1 .. n
      BY <1>3, Zenon
    <3> QED
      BY <3>1
  <2> QED
    BY <2>1, <2>2
<1> QED
  BY <1>3, <1>4

-----------------------------------------------------------------------------
(* What RemoveAt leaves.                                                   *)
LEMMA RemoveAtFacts ==
  ASSUME NEW T, NEW s \in Seq(T), NEW i \in DOMAIN s
  PROVE  /\ RemoveAt(s, i) \in Seq(T)
         /\ Len(RemoveAt(s, i)) = Len(s) - 1
         /\ \A j \in 1 .. Len(s) - 1 :
               RemoveAt(s, i)[j] = IF j < i THEN s[j] ELSE s[j + 1]
<1>1. Len(s) \in Nat /\ DOMAIN s = 1 .. Len(s) /\ i \in 1 .. Len(s)
      /\ \A j \in 1 .. Len(s) : s[j] \in T
  BY LenProperties, ElementOfSeq
<1> DEFINE front == SubSeq(s, 1, i - 1)
           back == SubSeq(s, i + 1, Len(s))
<1>2. /\ front \in Seq(T) /\ Len(front) = i - 1
      /\ \A j \in 1 .. i - 1 : front[j] = s[j]
  <2>1. \A j \in 1 .. i - 1 : s[j] \in T
    BY <1>1
  <2>2. /\ front \in Seq(T)
        /\ Len(front) = IF 1 <= i - 1 THEN (i - 1) - 1 + 1 ELSE 0
        /\ \A j \in 1 .. (i - 1) - 1 + 1 : front[j] = s[1 + j - 1]
    BY <1>1, <2>1, SubSeqProperties
  <2> QED
    BY <1>1, <2>2
<1>3. /\ back \in Seq(T) /\ Len(back) = Len(s) - i
      /\ \A j \in 1 .. Len(s) - i : back[j] = s[i + j]
  <2>1. \A j \in i + 1 .. Len(s) : s[j] \in T
    BY <1>1
  <2>2. /\ back \in Seq(T)
        /\ Len(back) = IF i + 1 <= Len(s) THEN Len(s) - (i + 1) + 1 ELSE 0
        /\ \A j \in 1 .. Len(s) - (i + 1) + 1 : back[j] = s[(i + 1) + j - 1]
    BY <1>1, <2>1, SubSeqProperties
  <2> HIDE DEF back
  <2>3. Len(back) = Len(s) - i
    BY <1>1, <2>2
  <2>4. ASSUME NEW j \in 1 .. Len(s) - i PROVE back[j] = s[i + j]
    <3>1. j \in 1 .. Len(s) - (i + 1) + 1 /\ (i + 1) + j - 1 = i + j
      BY <1>1
    <3> QED
      BY <2>2, <3>1
  <2> QED
    BY <2>2, <2>3, <2>4
<1> HIDE DEF front, back
<1>4. /\ front \o back \in Seq(T)
      /\ Len(front \o back) = Len(front) + Len(back)
      /\ \A j \in 1 .. Len(front) + Len(back) : (front \o back)[j] =
             IF j <= Len(front) THEN front[j] ELSE back[j - Len(front)]
  BY <1>2, <1>3, ConcatProperties
<1>5. ASSUME NEW j \in 1 .. Len(s) - 1
      PROVE  (front \o back)[j] = IF j < i THEN s[j] ELSE s[j + 1]
  <2>1. j \in 1 .. Len(front) + Len(back)
    BY <1>1, <1>2, <1>3
  <2>2. CASE j < i
    <3>1. j \in 1 .. i - 1
      BY <2>2
    <3> QED
      BY <1>1, <1>2, <1>4, <2>1, <2>2, <3>1
  <2>3. CASE ~(j < i)
    <3>1. j - (i - 1) \in 1 .. Len(s) - i /\ i + (j - (i - 1)) = j + 1 /\ ~(j <= i - 1)
      BY <1>1, <2>3
    <3>2. (front \o back)[j] = back[j - (i - 1)]
      BY <1>2, <1>4, <2>1, <3>1
    <3>3. back[j - (i - 1)] = s[i + (j - (i - 1))]
      BY <1>3, <3>1
    <3> QED
      BY <2>3, <3>1, <3>2, <3>3
  <2> QED
    BY <2>2, <2>3
<1>6. RemoveAt(s, i) = front \o back
  BY DEF RemoveAt, front, back
<1>7. Len(front \o back) = Len(s) - 1
  BY <1>1, <1>2, <1>3, <1>4
<1> QED
  BY <1>4, <1>5, <1>6, <1>7, Zenon

-----------------------------------------------------------------------------
(* Counting entries of a buffer: P is the set of the positions that count. *)
LEMMA PositionsFinite ==
  ASSUME NEW n \in Nat, NEW P, P \subseteq 1 .. n
  PROVE  IsFiniteSet(P) /\ Cardinality(P) \in Nat /\ Cardinality(P) <= n
<1>1. IsFiniteSet(1 .. n) /\ Cardinality(1 .. n) = n
  BY FS_Interval
<1> QED
  BY <1>1, FS_Subset, FS_CardinalityType

(* The positions that remain when entry i goes away and the others move up *)
(* are one to one with the positions before, but for i.                    *)
PositionsMoveUp(n, i, P, Q) ==
    /\ i \in 1 .. n /\ P \subseteq 1 .. n /\ Q \subseteq 1 .. n - 1
    /\ \A j \in 1 .. n - 1 : j \in Q <=> IF j < i THEN j \in P ELSE j + 1 \in P

LEMMA PositionsWithout ==
  ASSUME NEW n \in Nat, NEW i, NEW P, NEW Q, PositionsMoveUp(n, i, P, Q)
  PROVE  /\ Cardinality(Q) \in Nat
         /\ i \in P => Cardinality(P) = Cardinality(Q) + 1
         /\ i \notin P => Cardinality(Q) = Cardinality(P)
<1>0. /\ i \in 1 .. n /\ P \subseteq 1 .. n /\ Q \subseteq 1 .. n - 1
      /\ \A j \in 1 .. n - 1 : j \in Q <=> IF j < i THEN j \in P ELSE j + 1 \in P
  BY DEF PositionsMoveUp
<1> DEFINE f == [j \in Q |-> IF j < i THEN j ELSE j + 1]
<1>1. IsFiniteSet(P) /\ IsFiniteSet(Q)
  <2>1. n - 1 \in Nat /\ Q \subseteq 1 .. n - 1
    BY <1>0
  <2> QED
    BY <1>0, <2>1, PositionsFinite
<1>2. f \in Bijection(Q, P \ {i})
  <2>1. f \in [Q -> P \ {i}]
    BY <1>0
  <2>2. \A a, b \in Q : f[a] = f[b] => a = b
    BY <1>0
  <2>3. ASSUME NEW p \in P \ {i} PROVE \E q \in Q : f[q] = p
    <3>1. CASE p < i
      <4>1. p \in Q
        BY <1>0, <3>1
      <4> QED
        BY <3>1, <4>1
    <3>2. CASE p > i
      <4>1. p - 1 \in Q /\ ~(p - 1 < i) /\ (p - 1) + 1 = p
        BY <1>0, <3>2
      <4> QED
        BY <4>1
    <3> QED
      BY <1>0, <3>1, <3>2
  <2> QED
    BY <2>1, <2>2, <2>3 DEF Bijection, Injection, Surjection, IsInjective
<1>3. Cardinality(P \ {i}) = Cardinality(Q)
  BY <1>1, <1>2, FS_Bijection DEF ExistsBijection
<1>4. Cardinality(Q) \in Nat
  BY <1>1, FS_CardinalityType
<1>5. CASE i \in P
  <2>1. P = (P \ {i}) \cup {i} /\ i \notin P \ {i} /\ IsFiniteSet(P \ {i})
    BY <1>1, <1>5, FS_Subset
  <2>2. Cardinality(P) = Cardinality(P \ {i}) + 1
    BY <2>1, FS_AddElement
  <2> QED
    BY <1>3, <1>4, <1>5, <2>2
<1>6. CASE i \notin P
  <2>1. P \ {i} = P
    BY <1>6
  <2> QED
    BY <1>3, <1>4, <1>6, <2>1
<1> QED
  BY <1>5, <1>6

(* The positions when an entry joins at the end.                           *)
LEMMA PositionsWith ==
  ASSUME NEW n \in Nat, NEW P, P \subseteq 1 .. n, NEW b \in BOOLEAN, NEW Q,
         Q = IF b THEN P \cup {n + 1} ELSE P
  PROVE  Cardinality(Q) = Cardinality(P) + (IF b THEN 1 ELSE 0)
<1>1. IsFiniteSet(P) /\ Cardinality(P) \in Nat
  BY PositionsFinite
<1>2. CASE b
  <2>1. Q = P \cup {n + 1} /\ n + 1 \notin P
    BY <1>2
  <2> QED
    BY <1>1, <1>2, <2>1, FS_AddElement
<1>3. CASE ~b
  <2>1. Q = P
    BY <1>3
  <2> QED
    BY <1>1, <1>3, <2>1
<1> QED
  BY <1>2, <1>3

-----------------------------------------------------------------------------
(* Concatenation under a name of its own: facts that mention it are then   *)
(* instantiated as they stand, and no prover takes it apart.               *)
Cat(f, g) == f \o g

LEMMA CatType ==
  ASSUME NEW S, NEW f \in Seq(S), NEW g \in Seq(S)
  PROVE  Cat(f, g) \in Seq(S) /\ Len(Cat(f, g)) = Len(f) + Len(g)
BY ConcatProperties DEF Cat

LEMMA CatAssociative ==
  ASSUME NEW S
  PROVE  \A f, g, h \in Seq(S) : Cat(Cat(f, g), h) = Cat(f, Cat(g, h))
<1>1. ASSUME NEW f \in Seq(S), NEW g \in Seq(S), NEW h \in Seq(S)
      PROVE  (f \o g) \o h = f \o (g \o h)
  BY ConcatAssociative, SMTT(30)
<1> QED
  BY <1>1 DEF Cat

LEMMA CatEmpty ==
  ASSUME NEW S, NEW f \in Seq(S)
  PROVE  Cat(f, << >>) = f /\ Cat(<< >>, f) = f
BY ConcatEmptySeq DEF Cat

LEMMA CatElements ==
  ASSUME NEW S, NEW f \in Seq(S), NEW g \in Seq(S)
  PROVE  \A k \in 1 .. Len(f) + Len(g) :
            Cat(f, g)[k] = IF k <= Len(f) THEN f[k] ELSE g[k - Len(f)]
<1>1. ASSUME NEW k \in 1 .. Len(f) + Len(g)
      PROVE  (f \o g)[k] = IF k <= Len(f) THEN f[k] ELSE g[k - Len(f)]
  BY ConcatProperties
<1> QED
  BY <1>1 DEF Cat

LEMMA TailFacts ==
  ASSUME NEW S, NEW f \in Seq(S), f # << >>
  PROVE  /\ Len(f) \in Nat /\ Len(f) >= 1 /\ Head(f) \in S /\ Head(f) = f[1]
         /\ Tail(f) \in Seq(S) /\ Len(Tail(f)) = Len(f) - 1
         /\ \A k \in 1 .. Len(f) - 1 : Tail(f)[k] = f[k + 1]
OBVIOUS

LEMMA HeadThenTail ==
  ASSUME NEW S, NEW f \in Seq(S), f # << >>
  PROVE  Cat(<<Head(f)>>, Tail(f)) = f
<1> DEFINE h == <<Head(f)>>
           t == Tail(f)
<1>1. /\ t \in Seq(S) /\ Len(t) = Len(f) - 1 /\ \A k \in 1 .. Len(f) - 1 : t[k] = f[k + 1]
      /\ Len(f) \in Nat /\ Len(f) >= 1
  BY TailFacts
<1>2. h \in Seq(S) /\ Len(h) = 1 /\ h[1] = f[1]
  OBVIOUS
<1> HIDE DEF h, t
<1>3. Cat(h, t) \in Seq(S) /\ Len(Cat(h, t)) = Len(f)
  <2>1. Cat(h, t) \in Seq(S) /\ Len(Cat(h, t)) = Len(h) + Len(t)
    <3>1. h \in Seq(S) /\ t \in Seq(S)
      BY <1>1, <1>2
    <3> QED
      BY <3>1, CatType
  <2> QED
    BY <1>1, <1>2, <2>1
<1>4. ASSUME NEW k \in 1 .. Len(f) PROVE Cat(h, t)[k] = f[k]
  <2>1. h \in Seq(S) /\ t \in Seq(S) /\ k \in 1 .. Len(h) + Len(t)
    BY <1>1, <1>2
  <2>2. Cat(h, t)[k] = IF k <= Len(h) THEN h[k] ELSE t[k - Len(h)]
    BY <2>1, CatElements
  <2>3. k = 1 \/ (k - 1 \in 1 .. Len(f) - 1 /\ (k - 1) + 1 = k /\ ~(k <= 1))
    <3>1. Len(f) \in Nat
      OBVIOUS
    <3> QED
      BY <3>1
  <2> QED
    BY <1>1, <1>2, <2>2, <2>3
<1>5. Cat(h, t) = f
  BY <1>3, <1>4, SeqEqual
<1> QED
  BY <1>5 DEF h, t

-----------------------------------------------------------------------------
(* g is what the recursive function inside FlattenSeq computes.            *)
Flattens(g, ss, n) == \A k \in 1 .. n : g[k] = IF k = 1 THEN ss[k] ELSE Cat(g[k - 1], ss[k])

LEMMA FlattensExists ==
  ASSUME NEW S, NEW ss \in Seq(Seq(S)), NEW n \in Nat, n = Len(ss), n # 0
  PROVE  \E g \in [1 .. n -> Seq(S)] : Flattens(g, ss, n)
<1> DEFINE Good(m) == \E g \in [1 .. m -> Seq(S)] : Flattens(g, ss, m)
           T == {m \in Nat : m + 1 <= n => Good(m + 1)}
<1>1. \A k \in 1 .. n : ss[k] \in Seq(S)
  OBVIOUS
<1>2. 0 \in T
  <2> DEFINE g == [k \in 1 .. 1 |-> ss[1]]
  <2>1. g \in [1 .. 1 -> Seq(S)] /\ Flattens(g, ss, 1)
    BY <1>1 DEF Flattens
  <2>2. 0 + 1 = 1
    OBVIOUS
  <2> HIDE DEF g
  <2>3. Good(0 + 1)
    BY <2>1, <2>2, Zenon
  <2> QED
    BY <2>3
<1>3. ASSUME NEW m \in Nat, m \in T PROVE m + 1 \in T
  <2>1. SUFFICES ASSUME m + 2 <= n PROVE Good(m + 2)
    <3>1. (m + 1) + 1 = m + 2
      OBVIOUS
    <3> HIDE DEF Good
    <3> QED
      BY <3>1
  <2>2. PICK g \in [1 .. m + 1 -> Seq(S)] : Flattens(g, ss, m + 1)
    <3>1. m + 1 <= n
      BY <2>1
    <3> QED
      BY <3>1, <1>3
  <2> DEFINE h == [k \in 1 .. m + 2 |-> IF k = m + 2 THEN Cat(g[m + 1], ss[m + 2]) ELSE g[k]]
  <2>3. g[m + 1] \in Seq(S) /\ ss[m + 2] \in Seq(S)
    BY <1>1, <2>1, <2>2
  <2>4. Cat(g[m + 1], ss[m + 2]) \in Seq(S)
    BY <2>3, CatType
  <2>5. h \in [1 .. m + 2 -> Seq(S)]
    BY <2>2, <2>4
  <2>6. ASSUME NEW k \in 1 .. m + 2
        PROVE  h[k] = IF k = 1 THEN ss[k] ELSE Cat(h[k - 1], ss[k])
    <3>1. CASE k = m + 2
      <4>1. k # 1 /\ k - 1 = m + 1 /\ h[k - 1] = g[m + 1] /\ h[k] = Cat(g[m + 1], ss[m + 2])
        BY <3>1
      <4> QED
        BY <3>1, <4>1
    <3>2. CASE k # m + 2
      <4>1. k \in 1 .. m + 1 /\ h[k] = g[k] /\ (k # 1 => k - 1 \in 1 .. m + 1 /\ h[k - 1] = g[k - 1])
        BY <3>2
      <4> QED
        BY <2>2, <4>1 DEF Flattens
    <3> QED
      BY <3>1, <3>2
  <2> HIDE DEF h
  <2> QED
    BY <2>5, <2>6 DEF Flattens
<1>4. n - 1 \in T
  <2>1. Nat \subseteq T
    <3> HIDE DEF T
    <3> QED
      BY <1>2, <1>3, NatsIn
  <2>2. n - 1 \in Nat
    OBVIOUS
  <2> HIDE DEF T
  <2> QED
    BY <2>1, <2>2
<1>5. (n - 1) + 1 = n
  OBVIOUS
<1> HIDE DEF Good
<1>6. Good(n)
  BY <1>4, <1>5
<1> QED
  BY <1>6 DEF Good

Agree(f, g, n) == \A k \in 1 .. n : f[k] = g[k]

LEMMA FlattensAgree ==
  ASSUME NEW n \in Nat, NEW ss, NEW tt, NEW g, NEW h,
         Flattens(g, ss, n), Flattens(h, tt, n), Agree(ss, tt, n)
  PROVE  Agree(g, h, n)
<1> USE DEF Agree
<1> DEFINE T == {m \in Nat : m + 1 <= n => g[m + 1] = h[m + 1]}
<1>1. 0 \in T
  BY DEF Flattens
<1>2. ASSUME NEW m \in Nat, m \in T PROVE m + 1 \in T
  <2>1. SUFFICES ASSUME m + 2 <= n PROVE g[m + 2] = h[m + 2]
    OBVIOUS
  <2>2. g[m + 1] = h[m + 1]
    BY <1>2, <2>1
  <2>3. m + 2 \in 1 .. n /\ m + 2 # 1 /\ (m + 2) - 1 = m + 1
    BY <2>1
  <2> QED
    BY <2>2, <2>3 DEF Flattens
<1>3. Nat \subseteq T
  <2> HIDE DEF T
  <2> QED
    BY <1>1, <1>2, NatsIn
<1>4. ASSUME NEW k \in 1 .. n PROVE g[k] = h[k]
  <2>1. k - 1 \in T /\ (k - 1) + 1 = k /\ (k - 1) + 1 <= n
    BY <1>3
  <2> QED
    BY <2>1
<1> QED
  BY <1>4

LEMMA FlattenIs ==
  ASSUME NEW S, NEW ss \in Seq(Seq(S)), NEW n \in Nat, n = Len(ss), n # 0
  PROVE  \E g \in [1 .. n -> Seq(S)] : Flattens(g, ss, n) /\ FlattenSeq(ss) = g[n]
<1> DEFINE F(g) == g = [k \in 1 .. Len(ss) |-> IF k = 1 THEN ss[k] ELSE g[k - 1] \o ss[k]]
           f == CHOOSE g : F(g)
<1>1. FlattenSeq(ss) = f[Len(ss)]
  BY DEF FlattenSeq
<1>2. PICK g \in [1 .. n -> Seq(S)] : Flattens(g, ss, n)
  BY FlattensExists
<1>3. F(g)
  BY <1>2 DEF Flattens, Cat
<1>4. F(f)
  <2> HIDE DEF F
  <2> QED
    BY <1>3
<1>5. Flattens(f, ss, n)
  <2> HIDE DEF f
  <2>1. \A k \in 1 .. n : f[k] = IF k = 1 THEN ss[k] ELSE f[k - 1] \o ss[k]
    BY <1>4, Zenon
  <2> QED
    BY <2>1 DEF Flattens, Cat
<1>6. f[n] = g[n]
  <2> HIDE DEF f
  <2>1. Agree(ss, ss, n)
    BY DEF Agree
  <2>2. Agree(f, g, n)
    BY <1>2, <1>5, <2>1, FlattensAgree
  <2>3. n \in 1 .. n
    OBVIOUS
  <2> QED
    BY <2>2, <2>3 DEF Agree
<1> HIDE DEF f
<1> QED
  BY <1>1, <1>2, <1>6

(* What FlattenSeq gives for no sequence, one more at the end, and the     *)
(* first and the others.                                                   *)
LEMMA FlattenEmpty == FlattenSeq(<< >>) = << >>
BY DEF FlattenSeq

LEMMA FlattenType ==
  ASSUME NEW S, NEW ss \in Seq(Seq(S))
  PROVE  FlattenSeq(ss) \in Seq(S)
<1>1. CASE Len(ss) = 0
  BY <1>1 DEF FlattenSeq
<1>2. CASE Len(ss) # 0
  <2> DEFINE n == Len(ss)
  <2>1. n \in Nat
    OBVIOUS
  <2>2. PICK g \in [1 .. n -> Seq(S)] : FlattenSeq(ss) = g[n]
    BY <1>2, <2>1, FlattenIs
  <2>3. n \in 1 .. n
    BY <1>2, <2>1
  <2> HIDE DEF n
  <2> QED
    BY <2>2, <2>3
<1> QED
  BY <1>1, <1>2

LEMMA FlattenAppend ==
  ASSUME NEW S, NEW ss \in Seq(Seq(S)), NEW s \in Seq(S)
  PROVE  FlattenSeq(Append(ss, s)) = Cat(FlattenSeq(ss), s)
<1> DEFINE n == Len(ss)
           tt == Append(ss, s)
<1>1. /\ n \in Nat /\ tt \in Seq(Seq(S)) /\ Len(tt) = n + 1 /\ tt[n + 1] = s
      /\ \A k \in 1 .. n : tt[k] = ss[k]
  OBVIOUS
<1>2. n = Len(ss)
  OBVIOUS
<1> HIDE DEF n, tt
<1>3. PICK h \in [1 .. n + 1 -> Seq(S)] : Flattens(h, tt, n + 1) /\ FlattenSeq(tt) = h[n + 1]
  <2>1. n + 1 \in Nat /\ n + 1 # 0
    BY <1>1
  <2> QED
    BY <1>1, <2>1, FlattenIs
<1>4. CASE n = 0
  <2>1. ss = << >>
    BY <1>2, <1>4, EmptySeq
  <2>5. FlattenSeq(ss) = << >>
    BY <2>1, FlattenEmpty
  <2>2. h[1] = tt[1]
    BY <1>3, <1>4 DEF Flattens
  <2>3. Cat(<< >>, s) = s
    BY CatEmpty
  <2> QED
    BY <1>1, <1>3, <1>4, <2>5, <2>2, <2>3 DEF tt
<1>5. CASE n # 0
  <2>1. PICK g \in [1 .. n -> Seq(S)] : Flattens(g, ss, n) /\ FlattenSeq(ss) = g[n]
    BY <1>1, <1>2, <1>5, FlattenIs
  <2>2. Flattens(h, tt, n)
    <3>1. \A k \in 1 .. n : k \in 1 .. n + 1
      BY <1>1
    <3> QED
      BY <1>3, <3>1 DEF Flattens
  <2>3. h[n] = g[n]
    <3>1. n \in Nat /\ Agree(ss, tt, n)
      BY <1>1 DEF Agree
    <3>2. Agree(g, h, n)
      BY <2>1, <2>2, <3>1, FlattensAgree
    <3>3. n \in 1 .. n
      BY <1>1, <1>5
    <3> QED
      BY <3>2, <3>3 DEF Agree
  <2>4. h[n + 1] = Cat(h[n], tt[n + 1])
    <3>1. n + 1 \in 1 .. n + 1 /\ n + 1 # 1 /\ (n + 1) - 1 = n
      BY <1>1, <1>5
    <3> QED
      BY <1>3, <3>1 DEF Flattens
  <2> QED
    BY <1>1, <1>3, <2>1, <2>3, <2>4 DEF tt
<1> QED
  BY <1>4, <1>5

LEMMA FlattenHead ==
  ASSUME NEW S, NEW ss \in Seq(Seq(S)), ss # << >>
  PROVE  FlattenSeq(ss) = Cat(Head(ss), FlattenSeq(Tail(ss)))
<1> DEFINE n == Len(ss)
           tt == Tail(ss)
<1>1. /\ n \in Nat /\ n >= 1 /\ tt \in Seq(Seq(S)) /\ Len(tt) = n - 1 /\ Head(ss) = ss[1]
      /\ \A k \in 1 .. n - 1 : tt[k] = ss[k + 1]
      /\ \A k \in 1 .. n : ss[k] \in Seq(S)
  OBVIOUS
<1>2. n = Len(ss)
  OBVIOUS
<1> HIDE DEF n, tt
<1>3. PICK g \in [1 .. n -> Seq(S)] : Flattens(g, ss, n) /\ FlattenSeq(ss) = g[n]
  <2>1. n # 0
    BY <1>1
  <2> QED
    BY <1>1, <1>2, <2>1, FlattenIs, ZenonT(60)
<1>4. g[1] = ss[1] /\ ss[1] \in Seq(S)
  BY <1>1, <1>3 DEF Flattens
<1>5. CASE n = 1
  <2>1. tt = << >> /\ FlattenSeq(tt) = << >>
    BY <1>1, <1>5, FlattenEmpty
  <2>2. Cat(ss[1], << >>) = ss[1]
    BY <1>4, CatEmpty
  <2> QED
    BY <1>1, <1>3, <1>4, <1>5, <2>1, <2>2 DEF tt
<1>6. CASE n # 1
  <2> DEFINE m == n - 1
  <2>0. m \in Nat /\ m # 0 /\ m + 1 = n /\ Len(tt) = m
    BY <1>1, <1>6
  <2> HIDE DEF m
  <2>1. PICK h \in [1 .. m -> Seq(S)] : Flattens(h, tt, m) /\ FlattenSeq(tt) = h[m]
    BY <1>1, <2>0, FlattenIs
  <2> DEFINE T == {k \in Nat : k + 1 <= m => g[k + 2] = Cat(ss[1], h[k + 1])}
  <2>2. 0 \in T
    <3>1. 2 \in 1 .. n /\ 2 # 1 /\ 2 - 1 = 1 /\ 1 \in 1 .. m /\ 1 \in 1 .. n - 1
      BY <1>1, <2>0
    <3>2. g[2] = Cat(g[1], ss[2])
      BY <1>3, <3>1 DEF Flattens
    <3>3. h[1] = tt[1]
      BY <2>1, <3>1 DEF Flattens
    <3>4. tt[1] = ss[2]
      BY <1>1, <3>1
    <3> QED
      BY <1>4, <3>2, <3>3, <3>4
  <2>3. ASSUME NEW k \in Nat, k \in T PROVE k + 1 \in T
    <3>1. SUFFICES ASSUME k + 2 <= m PROVE g[k + 3] = Cat(ss[1], h[k + 2])
      OBVIOUS
    <3>2. g[k + 2] = Cat(ss[1], h[k + 1])
      <4>1. k + 1 <= m
        BY <2>0, <3>1
      <4> QED
        BY <2>3, <4>1
    <3> HIDE DEF T
    <3>3. /\ k + 3 \in 1 .. n /\ k + 3 # 1 /\ (k + 3) - 1 = k + 2
          /\ k + 2 \in 1 .. m /\ k + 2 # 1 /\ (k + 2) - 1 = k + 1 /\ k + 1 \in 1 .. m
          /\ k + 2 \in 1 .. n - 1 /\ (k + 2) + 1 = k + 3
      <4>1. n \in Nat /\ m \in Nat /\ n = m + 1
        BY <1>1, <2>0
      <4> QED
        BY <3>1, <4>1
    <3>4. g[k + 3] = Cat(g[k + 2], ss[k + 3])
      BY <1>3, <3>3 DEF Flattens
    <3>5. h[k + 2] = Cat(h[k + 1], tt[k + 2])
      BY <2>1, <3>3 DEF Flattens
    <3>6. tt[k + 2] = ss[k + 3] /\ ss[k + 3] \in Seq(S) /\ h[k + 1] \in Seq(S)
      BY <1>1, <2>1, <3>3
    <3>7. Cat(Cat(ss[1], h[k + 1]), ss[k + 3]) = Cat(ss[1], Cat(h[k + 1], ss[k + 3]))
      BY <1>4, <3>6, CatAssociative
    <3> QED
      BY <3>2, <3>4, <3>5, <3>6, <3>7
  <2>4. Nat \subseteq T
    <3> HIDE DEF T
    <3> QED
      BY <2>2, <2>3, NatsIn
  <2>5. m - 1 \in Nat /\ (m - 1) + 1 = m /\ (m - 1) + 2 = n /\ m <= m
    BY <2>0
  <2>6. g[n] = Cat(ss[1], h[m])
    <3>1. m - 1 \in T
      <4> HIDE DEF T
      <4> QED
        BY <2>4, <2>5
    <3> QED
      BY <2>5, <3>1
  <2> QED
    BY <1>1, <1>3, <2>1, <2>6 DEF tt
<1> QED
  BY <1>5, <1>6

(* A sequence for each element, one after the other.                       *)
FlatMap(g, q) == FlattenSeq([k \in DOMAIN q |-> g[q[k]]])

LEMMA FlatMapType ==
  ASSUME NEW X, NEW S, NEW g \in [X -> Seq(S)], NEW q \in Seq(X)
  PROVE  FlatMap(g, q) \in Seq(S)
<1> DEFINE ss == [k \in DOMAIN q |-> g[q[k]]]
<1>1. ss \in Seq(Seq(S))
  <2>1. Len(q) \in Nat /\ DOMAIN q = 1 .. Len(q) /\ \A k \in 1 .. Len(q) : q[k] \in X
    OBVIOUS
  <2>2. \A k \in 1 .. Len(q) : g[q[k]] \in Seq(S)
    BY <2>1
  <2> QED
    BY <2>1, <2>2
<1> HIDE DEF ss
<1>2. FlattenSeq(ss) \in Seq(S)
  BY <1>1, FlattenType
<1> QED
  BY <1>2 DEF ss, FlatMap

LEMMA FlatMapEmpty ==
  ASSUME NEW g
  PROVE  FlatMap(g, << >>) = << >>
<1>1. [k \in DOMAIN << >> |-> g[<< >>[k]]] = << >>
  OBVIOUS
<1> QED
  BY <1>1, FlattenEmpty DEF FlatMap

LEMMA FlatMapAppend ==
  ASSUME NEW X, NEW S, NEW g \in [X -> Seq(S)], NEW q \in Seq(X), NEW x \in X
  PROVE  FlatMap(g, Append(q, x)) = Cat(FlatMap(g, q), g[x])
<1> DEFINE ss == [k \in DOMAIN q |-> g[q[k]]]
           p == Append(q, x)
           tt == [k \in DOMAIN p |-> g[p[k]]]
<1>1. /\ Len(q) \in Nat /\ DOMAIN q = 1 .. Len(q) /\ \A k \in 1 .. Len(q) : q[k] \in X
      /\ DOMAIN p = 1 .. Len(q) + 1 /\ p[Len(q) + 1] = x /\ \A k \in 1 .. Len(q) : p[k] = q[k]
  OBVIOUS
<1>2. \A k \in 1 .. Len(q) : g[q[k]] \in Seq(S)
  BY <1>1
<1>3. ss \in Seq(Seq(S)) /\ Len(ss) = Len(q) /\ \A k \in 1 .. Len(q) : ss[k] = g[q[k]]
  BY <1>1, <1>2
<1>4. g[x] \in Seq(S)
  OBVIOUS
<1> HIDE DEF p
<1>5. tt = Append(ss, g[x])
  <2>1. /\ tt \in Seq(Seq(S)) /\ Len(tt) = Len(q) + 1 /\ \A k \in 1 .. Len(q) + 1 : tt[k] = g[p[k]]
    <3>1. \A k \in 1 .. Len(q) + 1 : p[k] \in X
      BY <1>1
    <3>2. \A k \in 1 .. Len(q) + 1 : g[p[k]] \in Seq(S)
      BY <3>1
    <3> QED
      BY <1>1, <3>2
  <2> HIDE DEF ss, tt
  <2>2. /\ Append(ss, g[x]) \in Seq(Seq(S)) /\ Len(Append(ss, g[x])) = Len(q) + 1
        /\ Append(ss, g[x])[Len(q) + 1] = g[x]
        /\ \A k \in 1 .. Len(q) : Append(ss, g[x])[k] = ss[k]
    BY <1>1, <1>3, <1>4, AppendProperties
  <2>3. \A k \in 1 .. Len(q) + 1 : tt[k] = Append(ss, g[x])[k]
    BY <1>1, <1>3, <2>1, <2>2
  <2> QED
    BY <2>1, <2>2, <2>3, SeqEqual
<1> HIDE DEF ss, tt
<1>6. FlattenSeq(tt) = Cat(FlattenSeq(ss), g[x])
  BY <1>3, <1>4, <1>5, FlattenAppend
<1> QED
  BY <1>6 DEF ss, tt, p, FlatMap

LEMMA FlatMapHead ==
  ASSUME NEW X, NEW S, NEW g \in [X -> Seq(S)], NEW q \in Seq(X), q # << >>
  PROVE  FlatMap(g, q) = Cat(g[Head(q)], FlatMap(g, Tail(q)))
<1> DEFINE ss == [k \in DOMAIN q |-> g[q[k]]]
           p == Tail(q)
           tt == [k \in DOMAIN p |-> g[p[k]]]
<1>1. /\ Len(q) \in Nat /\ Len(q) >= 1 /\ DOMAIN q = 1 .. Len(q) /\ \A k \in 1 .. Len(q) : q[k] \in X
      /\ p \in Seq(X) /\ Len(p) = Len(q) - 1 /\ DOMAIN p = 1 .. Len(q) - 1
      /\ \A k \in 1 .. Len(q) - 1 : p[k] = q[k + 1]
      /\ Head(q) = q[1]
  OBVIOUS
<1> HIDE DEF p
<1>2. \A k \in 1 .. Len(q) : g[q[k]] \in Seq(S)
  BY <1>1
<1>3. ss \in Seq(Seq(S)) /\ Len(ss) = Len(q) /\ \A k \in 1 .. Len(q) : ss[k] = g[q[k]]
  BY <1>1, <1>2
<1>4. ss # << >> /\ Head(ss) = g[Head(q)]
  <2> HIDE DEF ss
  <2> QED
    BY <1>1, <1>3
<1>5. tt = Tail(ss)
  <2>1. /\ tt \in Seq(Seq(S)) /\ Len(tt) = Len(q) - 1 /\ \A k \in 1 .. Len(q) - 1 : tt[k] = g[q[k + 1]]
    <3>1. \A k \in 1 .. Len(q) - 1 : k + 1 \in 1 .. Len(q)
      BY <1>1
    <3>2. \A k \in 1 .. Len(q) - 1 : g[p[k]] = g[q[k + 1]] /\ g[p[k]] \in Seq(S)
      BY <1>1, <1>2, <3>1
    <3> QED
      BY <1>1, <3>2
  <2> HIDE DEF ss, tt
  <2>2. /\ Tail(ss) \in Seq(Seq(S)) /\ Len(Tail(ss)) = Len(q) - 1
        /\ \A k \in 1 .. Len(q) - 1 : Tail(ss)[k] = ss[k + 1]
    BY <1>3, <1>4, TailFacts
  <2>3. \A k \in 1 .. Len(q) - 1 : tt[k] = Tail(ss)[k]
    <3>1. \A k \in 1 .. Len(q) - 1 : k + 1 \in 1 .. Len(q)
      BY <1>1
    <3> QED
      BY <1>3, <2>1, <2>2, <3>1
  <2> QED
    BY <2>1, <2>2, <2>3, SeqEqual
<1> HIDE DEF ss, tt
<1>6. FlattenSeq(ss) = Cat(Head(ss), FlattenSeq(Tail(ss)))
  BY <1>3, <1>4, FlattenHead
<1> QED
  BY <1>4, <1>5, <1>6 DEF ss, tt, p, FlatMap
=============================================================================
