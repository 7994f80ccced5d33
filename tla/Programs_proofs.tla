-------------------------- MODULE Programs_proofs --------------------------
(***************************************************************************)
(* The test programs and the host's memory, for any size.                  *)
(*                                                                         *)
(* sort of qsort_main.c, for any data: the scans stop inside their         *)
(* segment, the segments on the stack and the current one are all that is  *)
(* not in order, the stack suffices, and in the end the data are sorted,   *)
(* all of them, and main says so.                                          *)
(*                                                                         *)
(* towers_main.c, for any number of discs: no node of the pool is lost or  *)
(* on two lists, the moves are moves of the puzzle, and in the end it is   *)
(* solved in the fewest moves, and towers_verify says so.                  *)
(*                                                                         *)
(* C_mem_model.c, for any size and accesses: what is written is read back. *)
(*                                                                         *)
(* multiply and divide of filters.c, for any width and arguments: each     *)
(* result is right, although every step may overflow.                      *)
(*                                                                         *)
(* vvadd, multiply, median and sharpen, for data of any size: every result *)
(* is right when it is compared, and the verdict is true.                  *)
(***************************************************************************)
EXTENDS Programs, SeqLemmas, FunctionTheorems, TLAPS

(* Halving the data so often that a segment is small leaves room for two   *)
(* words a time on the stack ("at least 2*lg(DATA_SIZE)", says the code).  *)
IsHalving(h, d) ==
    /\ d \in Nat /\ 2 * d < NSTACK /\ h \in [0 .. d -> Nat]
    /\ \A f \in Inputs : Cardinality(DOMAIN f) <= h[0]
    /\ \A k \in 0 .. d - 1 : h[k] <= 2 * h[k + 1] + 1
    /\ h[d] <= INSERTION_THRESHOLD

HalvingsFit == \E d, h : IsHalving(h, d)

(* For the constants of the code, and its 250 data or up to 4096, it does. *)
LEMMA CodeFits ==
  ASSUME INSERTION_THRESHOLD = 7, NSTACK = 50,
         \A f \in Inputs : Cardinality(DOMAIN f) \in Nat /\ Cardinality(DOMAIN f) <= 4096
  PROVE  HalvingsFit
<1> DEFINE h == [k \in 0 .. 10 |-> CASE k = 0 -> 4096 [] k = 1 -> 2048 [] k = 2 -> 1024
                   [] k = 3 -> 512 [] k = 4 -> 256 [] k = 5 -> 128 [] k = 6 -> 64 [] k = 7 -> 32
                   [] k = 8 -> 16 [] k = 9 -> 8 [] OTHER -> 4]
<1>1. h \in [0 .. 10 -> Nat] /\ h[0] = 4096 /\ h[10] = 4
  OBVIOUS
<1>2. \A k \in 0 .. 9 : h[k] <= 2 * h[k + 1] + 1
  OBVIOUS
<1> HIDE DEF h
<1>3. IsHalving(h, 10)
  BY <1>1, <1>2 DEF IsHalving
<1> QED
  BY <1>3 DEF HalvingsFit

-----------------------------------------------------------------------------
(* g is f with the elements lo .. hi (counted from 1) in another order.    *)
Rearranged(f, g, lo, hi) ==
    \E p \in Bijection(DOMAIN f, DOMAIN f) :
       /\ g = [m \in DOMAIN f |-> f[p[m]]]
       /\ \A m \in DOMAIN f : m + 1 \notin lo .. hi => p[m] = m

Data(n) == [0 .. n - 1 -> Int]
SameBut(n, f, g, x, y) == \A m \in 0 .. n - 1 : m # x /\ m # y => g[m] = f[m]
Between(n, lo, hi, x) == x \in 0 .. n - 1 /\ x + 1 \in lo .. hi

LEMMA RearrangedValues ==
  ASSUME NEW n \in Nat, NEW f \in Data(n), NEW g, NEW lo \in Int, NEW hi \in Int,
         Rearranged(f, g, lo, hi)
  PROVE  /\ g \in Data(n)
         /\ \A m \in 0 .. n - 1 : m + 1 \notin lo .. hi => g[m] = f[m]
         /\ \A m \in 0 .. n - 1 : m + 1 \in lo .. hi =>
               \E q \in 0 .. n - 1 : q + 1 \in lo .. hi /\ g[m] = f[q]
<1> USE DEF Data
<1>1. PICK p \in Bijection(0 .. n - 1, 0 .. n - 1) :
            /\ g = [m \in 0 .. n - 1 |-> f[p[m]]]
            /\ \A m \in 0 .. n - 1 : m + 1 \notin lo .. hi => p[m] = m
  BY DEF Rearranged
<1>2. /\ p \in [0 .. n - 1 -> 0 .. n - 1]
      /\ \A m, q \in 0 .. n - 1 : p[m] = p[q] => m = q
  BY DEF Bijection, Injection, IsInjective
<1>3. ASSUME NEW m \in 0 .. n - 1, m + 1 \in lo .. hi
      PROVE  p[m] + 1 \in lo .. hi
  BY <1>1, <1>2, <1>3
<1> QED
  BY <1>1, <1>2, <1>3

LEMMA NotRearranged ==
  ASSUME NEW n \in Nat, NEW f \in Data(n), NEW lo \in Int, NEW hi \in Int
  PROVE  Rearranged(f, f, lo, hi)
<1> USE DEF Data
<1> DEFINE p == [m \in 0 .. n - 1 |-> m]
<1>1. p \in Bijection(0 .. n - 1, 0 .. n - 1)
  BY DEF Bijection, Injection, Surjection, IsInjective
<1>2. f = [m \in 0 .. n - 1 |-> f[p[m]]] /\ DOMAIN f = 0 .. n - 1
  OBVIOUS
<1>3. \A m \in 0 .. n - 1 : p[m] = m
  OBVIOUS
<1> HIDE DEF p
<1> QED
  BY <1>1, <1>2, <1>3 DEF Rearranged

LEMMA RearrangedTwice ==
  ASSUME NEW n \in Nat, NEW f \in Data(n), NEW g, NEW e,
         NEW lo \in Int, NEW hi \in Int, NEW lo2 \in Int, NEW hi2 \in Int,
         lo <= lo2, hi2 <= hi,
         Rearranged(f, g, lo, hi), Rearranged(g, e, lo2, hi2)
  PROVE  Rearranged(f, e, lo, hi)
<1> USE DEF Data
<1>1. PICK p \in Bijection(0 .. n - 1, 0 .. n - 1) :
            /\ g = [m \in 0 .. n - 1 |-> f[p[m]]]
            /\ \A m \in 0 .. n - 1 : m + 1 \notin lo .. hi => p[m] = m
  BY DEF Rearranged
<1>2. DOMAIN g = 0 .. n - 1
  BY <1>1
<1>3. PICK q \in Bijection(0 .. n - 1, 0 .. n - 1) :
            /\ e = [m \in 0 .. n - 1 |-> g[q[m]]]
            /\ \A m \in 0 .. n - 1 : m + 1 \notin lo2 .. hi2 => q[m] = m
  BY <1>2 DEF Rearranged
<1> DEFINE r == [m \in 0 .. n - 1 |-> p[q[m]]]
<1>4. p \in [0 .. n - 1 -> 0 .. n - 1] /\ q \in [0 .. n - 1 -> 0 .. n - 1]
  BY DEF Bijection, Injection
<1>5. r \in Bijection(0 .. n - 1, 0 .. n - 1)
  <2> DEFINE D == 0 .. n - 1
  <2> HIDE DEF D
  <2>1. ASSUME NEW b \in Bijection(D, D), NEW c \in Bijection(D, D)
        PROVE  [m \in D |-> b[c[m]]] \in Bijection(D, D)
    BY Fun_BijTransitive
  <2> QED
    BY <2>1 DEF D
<1>6. e = [m \in 0 .. n - 1 |-> f[r[m]]]
  BY <1>1, <1>3, <1>4
<1>7. \A m \in 0 .. n - 1 : m + 1 \notin lo .. hi => r[m] = m
  <2> SUFFICES ASSUME NEW m \in 0 .. n - 1, m + 1 \notin lo .. hi PROVE p[q[m]] = m
    OBVIOUS
  <2>1. m + 1 \notin lo2 .. hi2
    OBVIOUS
  <2> QED
    BY <1>1, <1>3, <2>1
<1> HIDE DEF r
<1> QED
  BY <1>5, <1>6, <1>7, ZenonT(60) DEF Rearranged

-----------------------------------------------------------------------------
(* Operators of the sort.  An exchange in the range rearranges it.         *)
LEMMA SwapFacts ==
  ASSUME NEW n \in Nat, NEW f \in Data(n), NEW lo \in Int, NEW hi \in Int,
         NEW x, NEW y, Between(n, lo, hi, x), Between(n, lo, hi, y)
  PROVE  /\ Swap(f, x, y) \in Data(n)
         /\ Swap(f, x, y)[x] = f[y] /\ Swap(f, x, y)[y] = f[x]
         /\ \A m \in 0 .. n - 1 : m # x /\ m # y => Swap(f, x, y)[m] = f[m]
         /\ Rearranged(f, Swap(f, x, y), lo, hi)
<1> USE DEF Data, Between
<1> DEFINE p == [m \in 0 .. n - 1 |-> IF m = x THEN y ELSE IF m = y THEN x ELSE m]
<1>1. p \in Bijection(0 .. n - 1, 0 .. n - 1)
  <2>1. p \in [0 .. n - 1 -> 0 .. n - 1]
    OBVIOUS
  <2>2. \A m \in 0 .. n - 1 : p[p[m]] = m
    OBVIOUS
  <2> HIDE DEF p
  <2> QED
    BY <2>1, <2>2 DEF Bijection, Injection, Surjection, IsInjective
<1>2. Swap(f, x, y) = [m \in 0 .. n - 1 |-> f[p[m]]]
  BY DEF Swap
<1>3. \A m \in 0 .. n - 1 : m + 1 \notin lo .. hi => p[m] = m
  OBVIOUS
<1>4. /\ Swap(f, x, y) \in Data(n)
      /\ Swap(f, x, y)[x] = f[y] /\ Swap(f, x, y)[y] = f[x]
      /\ \A m \in 0 .. n - 1 : m # x /\ m # y => Swap(f, x, y)[m] = f[m]
  BY DEF Swap
<1>5. DOMAIN f = 0 .. n - 1
  OBVIOUS
<1> HIDE DEF p
<1> QED
  BY <1>1, <1>2, <1>3, <1>4, <1>5 DEF Rearranged

LEMMA OrderedSwapFacts ==
  ASSUME NEW n \in Nat, NEW f \in Data(n), NEW lo \in Int, NEW hi \in Int,
         NEW x, NEW y, Between(n, lo, hi, x), Between(n, lo, hi, y)
  PROVE  /\ OrderedSwap(f, x, y) \in Data(n)
         /\ OrderedSwap(f, x, y)[x] <= OrderedSwap(f, x, y)[y]
         /\ \/ OrderedSwap(f, x, y)[x] = f[x] /\ OrderedSwap(f, x, y)[y] = f[y]
            \/ OrderedSwap(f, x, y)[x] = f[y] /\ OrderedSwap(f, x, y)[y] = f[x]
         /\ SameBut(n, f, OrderedSwap(f, x, y), x, y)
         /\ Rearranged(f, OrderedSwap(f, x, y), lo, hi)
<1>0. f[x] \in Int /\ f[y] \in Int
  BY DEF Data, Between
<1>1. CASE f[x] > f[y]
  <2>1. OrderedSwap(f, x, y) = Swap(f, x, y)
    BY <1>1 DEF OrderedSwap
  <2> QED
    BY <1>0, <1>1, <2>1, SwapFacts DEF SameBut
<1>2. CASE ~(f[x] > f[y])
  <2>1. OrderedSwap(f, x, y) = f
    BY <1>2 DEF OrderedSwap
  <2> QED
    BY <1>0, <1>2, <2>1, NotRearranged DEF SameBut
<1> QED
  BY <1>1, <1>2

(* The median is between the ends of the segment.                          *)
LEMMA MedianFacts ==
  ASSUME NEW n \in Nat, NEW f \in Data(n),
         l \in Int, ir \in Int, 1 <= l, l + 2 <= ir, ir <= n
  PROVE  /\ MedianOfThree(f) \in Data(n)
         /\ Rearranged(f, MedianOfThree(f), l, ir)
         /\ MedianOfThree(f)[l - 1] <= MedianOfThree(f)[l]
         /\ MedianOfThree(f)[l] <= MedianOfThree(f)[ir - 1]
<1> DEFINE k == (l + ir) \div 2
           f0 == Swap(f, k - 1, l)
           f1 == OrderedSwap(f0, l - 1, ir - 1)
           f2 == OrderedSwap(f1, l, ir - 1)
           f3 == OrderedSwap(f2, l - 1, l)
<1>0. MedianOfThree(f) = f3
  BY DEF MedianOfThree
<1>1. /\ Between(n, l, ir, k - 1) /\ Between(n, l, ir, l - 1)
      /\ Between(n, l, ir, ir - 1) /\ Between(n, l, ir, l)
      /\ l - 1 # l /\ l - 1 # ir - 1 /\ l # ir - 1
      /\ l - 1 \in 0 .. n - 1 /\ l \in 0 .. n - 1 /\ ir - 1 \in 0 .. n - 1
  BY DEF Between
<1> HIDE DEF k
<1>2. f0 \in Data(n) /\ Rearranged(f, f0, l, ir)
  BY <1>1, SwapFacts
<1> HIDE DEF f0
<1>3. /\ f1 \in Data(n) /\ Rearranged(f0, f1, l, ir)
      /\ f1[l - 1] <= f1[ir - 1]
  BY <1>1, <1>2, OrderedSwapFacts
<1> HIDE DEF f1
<1>4. /\ f2 \in Data(n) /\ Rearranged(f1, f2, l, ir)
      /\ f2[l] <= f2[ir - 1] /\ f2[l - 1] = f1[l - 1]
      /\ \/ f2[l] = f1[l] /\ f2[ir - 1] = f1[ir - 1]
         \/ f2[l] = f1[ir - 1] /\ f2[ir - 1] = f1[l]
  <2>1. /\ f2 \in Data(n) /\ Rearranged(f1, f2, l, ir)
        /\ f2[l] <= f2[ir - 1]
        /\ \/ f2[l] = f1[l] /\ f2[ir - 1] = f1[ir - 1]
           \/ f2[l] = f1[ir - 1] /\ f2[ir - 1] = f1[l]
        /\ SameBut(n, f1, f2, l, ir - 1)
    <3> DEFINE y == ir - 1
    <3>1. f1 \in Data(n) /\ Between(n, l, ir, l) /\ Between(n, l, ir, y)
      BY <1>1, <1>3
    <3> HIDE DEF y
    <3> DEFINE g == OrderedSwap(f1, l, y)
    <3>2. /\ g \in Data(n) /\ Rearranged(f1, g, l, ir)
          /\ g[l] <= g[y]
          /\ \/ g[l] = f1[l] /\ g[y] = f1[y]
             \/ g[l] = f1[y] /\ g[y] = f1[l]
          /\ SameBut(n, f1, g, l, y)
      BY <3>1, OrderedSwapFacts
    <3> QED
      BY <3>2 DEF y
  <2> HIDE DEF f2
  <2> QED
    BY <1>1, <2>1 DEF SameBut
<1>5. f2[l - 1] <= f2[ir - 1]
  <2>1. {f1[l], f1[ir - 1], f1[l - 1], f2[l], f2[ir - 1]} \subseteq Int
    BY <1>1, <1>3, <1>4 DEF Data
  <2> QED
    BY <1>3, <1>4, <2>1
<1> HIDE DEF f2
<1>6. /\ f3 \in Data(n) /\ Rearranged(f2, f3, l, ir)
      /\ f3[l - 1] <= f3[l] /\ f3[ir - 1] = f2[ir - 1]
      /\ \/ f3[l - 1] = f2[l - 1] /\ f3[l] = f2[l]
         \/ f3[l - 1] = f2[l] /\ f3[l] = f2[l - 1]
  <2>1. /\ f3 \in Data(n) /\ Rearranged(f2, f3, l, ir)
        /\ f3[l - 1] <= f3[l]
        /\ \/ f3[l - 1] = f2[l - 1] /\ f3[l] = f2[l]
           \/ f3[l - 1] = f2[l] /\ f3[l] = f2[l - 1]
        /\ SameBut(n, f2, f3, l - 1, l)
    <3>1. f2 \in Data(n) /\ Between(n, l, ir, l - 1) /\ Between(n, l, ir, l)
      BY <1>1, <1>4
    <3> QED
      BY <3>1, OrderedSwapFacts
  <2> HIDE DEF f3
  <2> QED
    BY <1>1, <2>1 DEF SameBut
<1> HIDE DEF f3
<1>7. f3[l] <= f3[ir - 1]
  BY <1>4, <1>5, <1>6
<1>8. Rearranged(f, f1, l, ir)
  BY <1>2, <1>3, RearrangedTwice
<1>9. Rearranged(f, f2, l, ir)
  BY <1>4, <1>8, RearrangedTwice
<1>10. Rearranged(f, f3, l, ir)
  BY <1>6, <1>9, RearrangedTwice
<1> QED
  BY <1>0, <1>6, <1>7, <1>10

(* The elements lo .. hi are in order.                                     *)
InOrder(f, lo, hi) == \A x, y \in lo .. hi : x <= y => f[x - 1] <= f[y - 1]

(* Where an element is inserted is found: left of it everything is smaller *)
(* or equal, right of it everything is greater.                            *)
LEMMA PlaceToInsert ==
  ASSUME NEW f, NEW lo \in Nat, NEW from \in Nat, lo <= from, NEW x
  PROVE  \E k \in lo .. from : /\ k = lo \/ ~(\A m \in k - 1 .. from - 1 : f[m] > x)
                               /\ \A m \in k .. from - 1 : f[m] > x
<1> DEFINE U == {k \in lo .. from : \A m \in k .. from - 1 : f[m] > x}
<1>1. U \subseteq Nat /\ U # {}
  <2>1. from \in U
    OBVIOUS
  <2> QED
    BY <2>1
<1>2. PICK k \in U : \A q \in U : k <= q
  BY <1>1, LeastOf
<1>3. CASE k = lo
  BY <1>2, <1>3
<1>4. CASE k # lo
  <2>1. k - 1 \in lo .. from /\ ~(k <= k - 1)
    BY <1>2, <1>4
  <2>2. k - 1 \notin U
    BY <1>2, <2>1
  <2> QED
    BY <1>2, <2>1, <2>2
<1> QED
  BY <1>3, <1>4

LEMMA InsertedFacts ==
  ASSUME NEW n \in Nat, NEW f \in Data(n), NEW from \in Int,
         l \in Int, ir \in Int, 1 <= l, l < from, from <= ir, ir <= n,
         InOrder(f, l, from - 1)
  PROVE  /\ Inserted(f, from) \in Data(n)
         /\ Rearranged(f, Inserted(f, from), l, ir)
         /\ InOrder(Inserted(f, from), l, from)
<1> USE DEF Data
<1> DEFINE x == f[from - 1]
           OK(k) == /\ k = l - 1 \/ f[k - 1] <= x
                    /\ \A m \in k .. from - 2 : f[m] > x
           to == CHOOSE k \in l - 1 .. from - 1 : OK(k)
           g == [m \in 0 .. n - 1 |-> CASE m = to -> x
                                        [] to < m /\ m <= from - 1 -> f[m - 1]
                                        [] OTHER -> f[m]]
<1>1. Inserted(f, from) = g
  BY DEF Inserted
<1>2. \E k \in l - 1 .. from - 1 : OK(k)
  <2>1. l - 1 \in Nat /\ from - 1 \in Nat /\ l - 1 <= from - 1 /\ (from - 1) - 1 = from - 2
    OBVIOUS
  <2>2. PICK k \in l - 1 .. from - 1 :
              /\ k = l - 1 \/ ~(\A m \in k - 1 .. (from - 1) - 1 : f[m] > x)
              /\ \A m \in k .. (from - 1) - 1 : f[m] > x
    <3> DEFINE lo == l - 1
               end == from - 1
    <3>1. lo \in Nat /\ end \in Nat /\ lo <= end
      BY <2>1
    <3> HIDE DEF lo, end, x
    <3>2. \E k \in lo .. end : /\ k = lo \/ ~(\A m \in k - 1 .. end - 1 : f[m] > x)
                               /\ \A m \in k .. end - 1 : f[m] > x
      BY <3>1, PlaceToInsert
    <3> QED
      BY <3>2 DEF lo, end
  <2>3. k = l - 1 \/ f[k - 1] <= x
    <3>1. CASE k # l - 1
      <4>1. PICK m \in k - 1 .. (from - 1) - 1 : ~(f[m] > x)
        BY <2>2, <3>1
      <4>2. m = k - 1
        BY <2>2, <4>1
      <4>3. f[k - 1] \in Int /\ x \in Int
        BY <2>2, <3>1
      <4> QED
        BY <4>1, <4>2, <4>3
    <3> QED
      BY <3>1
  <2> QED
    BY <2>1, <2>2, <2>3
<1>3. to \in l - 1 .. from - 1 /\ OK(to)
  BY <1>2
<1> HIDE DEF to
<1>4. g \in Data(n)
  BY <1>3
<1> DEFINE p == [m \in 0 .. n - 1 |-> IF m = to THEN from - 1
                     ELSE IF to < m /\ m <= from - 1 THEN m - 1 ELSE m]
<1>5. p \in Bijection(0 .. n - 1, 0 .. n - 1)
  <2>1. p \in [0 .. n - 1 -> 0 .. n - 1]
    BY <1>3
  <2>2. \A m, q \in 0 .. n - 1 : p[m] = p[q] => m = q
    BY <1>3
  <2>3. ASSUME NEW q \in 0 .. n - 1 PROVE \E m \in 0 .. n - 1 : p[m] = q
    <3>1. CASE q = from - 1
      <4>1. to \in 0 .. n - 1 /\ p[to] = q
        BY <1>3, <3>1
      <4> QED
        BY <4>1
    <3>2. CASE to <= q /\ q < from - 1
      <4>1. q + 1 \in 0 .. n - 1 /\ p[q + 1] = q
        BY <1>3, <3>2
      <4> QED
        BY <4>1
    <3>3. CASE ~(q = from - 1) /\ ~(to <= q /\ q < from - 1)
      <4>1. p[q] = q
        BY <1>3, <3>3
      <4> QED
        BY <4>1
    <3> QED
      BY <3>1, <3>2, <3>3
  <2> HIDE DEF p
  <2> QED
    BY <2>1, <2>2, <2>3 DEF Bijection, Injection, Surjection, IsInjective
<1>6. g = [m \in 0 .. n - 1 |-> f[p[m]]]
  <2>1. ASSUME NEW m \in 0 .. n - 1
        PROVE  (CASE m = to -> x [] to < m /\ m <= from - 1 -> f[m - 1] [] OTHER -> f[m]) = f[p[m]]
    <3>1. CASE m = to
      BY <1>3, <3>1
    <3>2. CASE m # to /\ to < m /\ m <= from - 1
      BY <1>3, <3>2
    <3>3. CASE m # to /\ ~(to < m /\ m <= from - 1)
      BY <1>3, <3>3
    <3> QED
      BY <3>1, <3>2, <3>3
  <2> HIDE DEF p
  <2> QED
    BY <2>1
<1>7. \A m \in 0 .. n - 1 : m + 1 \notin l .. ir => p[m] = m
  BY <1>3
<1>8. InOrder(g, l, from)
  <2> SUFFICES ASSUME NEW u \in l .. from, NEW v \in l .. from, u <= v
               PROVE  g[u - 1] <= g[v - 1]
    BY DEF InOrder
  <2>0. /\ u - 1 \in 0 .. n - 1 /\ v - 1 \in 0 .. n - 1 /\ u - 1 <= v - 1
        /\ u - 1 <= from - 1 /\ v - 1 <= from - 1 /\ l - 1 <= u - 1
    OBVIOUS
  <2>1. \A b, c \in l - 1 .. from - 2 : b <= c => f[b] <= f[c]
    <3> SUFFICES ASSUME NEW b \in l - 1 .. from - 2, NEW c \in l - 1 .. from - 2, b <= c
                 PROVE  f[b] <= f[c]
      OBVIOUS
    <3>1. /\ b + 1 \in l .. from - 1 /\ c + 1 \in l .. from - 1 /\ b + 1 <= c + 1
          /\ (b + 1) - 1 = b /\ (c + 1) - 1 = c
      OBVIOUS
    <3>2. f[(b + 1) - 1] <= f[(c + 1) - 1]
      BY <3>1 DEF InOrder
    <3> QED
      BY <3>1, <3>2
  <2>2. \A b \in l - 1 .. to - 1 : f[b] <= x
    <3> SUFFICES ASSUME NEW b \in l - 1 .. to - 1 PROVE f[b] <= x
      OBVIOUS
    <3>1. to # l - 1 /\ to - 1 \in l - 1 .. from - 2 /\ b \in l - 1 .. from - 2 /\ b <= to - 1
      BY <1>3
    <3>2. f[b] <= f[to - 1] /\ f[to - 1] <= x
      BY <1>3, <2>1, <3>1
    <3>3. f[b] \in Int /\ f[to - 1] \in Int /\ x \in Int
      BY <3>1, SMTT(30)
    <3> QED
      BY <3>2, <3>3
  <2>3. \A b \in to .. from - 2 : f[b] > x
    BY <1>3
  <2>4. /\ \A m \in 0 .. n - 1 : m < to => g[m] = f[m]
        /\ g[to] = x
        /\ \A m \in 0 .. n - 1 : to < m /\ m <= from - 1 => g[m] = f[m - 1]
    BY <1>3
  <2>5. \A m \in 0 .. n - 1 : f[m] \in Int
    OBVIOUS
  <2>6. x \in Int
    OBVIOUS
  <2> HIDE DEF g, x
  <2>7. CASE v - 1 < to
    BY <1>3, <2>0, <2>1, <2>4, <2>7, SMTT(30)
  <2>8. CASE v - 1 = to
    <3>1. CASE u - 1 = to
      BY <2>4, <2>6, <2>8, <3>1
    <3>2. CASE u - 1 < to
      BY <1>3, <2>0, <2>2, <2>4, <2>8, <3>2
    <3> QED
      BY <2>0, <2>8, <3>1, <3>2, SMTT(30)
  <2>9. CASE v - 1 > to
    <3>0. g[v - 1] = f[v - 2] /\ v - 2 \in to .. from - 2 /\ f[v - 2] > x /\ f[v - 2] \in Int
      <4>1. (v - 1) - 1 = v - 2 /\ v - 2 \in to .. from - 2 /\ v - 2 \in 0 .. n - 1
        BY <1>3, <2>0, <2>9
      <4> QED
        BY <2>0, <2>3, <2>4, <2>5, <2>9, <4>1
    <3>1. CASE u - 1 = to
      BY <2>4, <2>6, <3>0, <3>1
    <3>2. CASE u - 1 < to
      <4>1. g[u - 1] = f[u - 1] /\ f[u - 1] <= x /\ f[u - 1] \in Int
        <5>1. u - 1 \in l - 1 .. to - 1
          BY <1>3, <2>0, <3>2
        <5> QED
          BY <2>0, <2>2, <2>4, <2>5, <3>2, <5>1
      <4> QED
        BY <2>6, <3>0, <4>1
    <3>3. CASE u - 1 > to
      <4>1. (u - 1) - 1 = u - 2 /\ u - 2 \in to .. from - 2 /\ u - 2 <= v - 2
            /\ u - 2 \in l - 1 .. from - 2 /\ v - 2 \in l - 1 .. from - 2
        BY <1>3, <2>0, <2>9, <3>3
      <4>2. g[u - 1] = f[u - 2]
        BY <2>0, <2>4, <3>3, <4>1
      <4> QED
        BY <2>1, <3>0, <4>1, <4>2
    <3> QED
      BY <1>3, <2>0, <3>1, <3>2, <3>3
  <2> QED
    BY <1>3, <2>0, <2>7, <2>8, <2>9
<1> HIDE DEF g, p
<1> QED
  BY <1>1, <1>4, <1>5, <1>6, <1>7, <1>8 DEF Rearranged

-----------------------------------------------------------------------------
(* The inductive invariant.  The segments of the stack and the current one *)
(* are not empty, lie apart, and at each depth have been halved as often;  *)
(* the phase says how far the current one is.                              *)
Depth == jstack \div 2
Lo(k) == istack[2 * k - 1]
Hi(k) == istack[2 * k]

TypeInv ==
    /\ input_data \in Inputs /\ DATA_SIZE \in Nat /\ input_data \in Data(DATA_SIZE)
    /\ arr \in Data(DATA_SIZE)
    /\ pc \in {"segment", "insert", "scan_up", "scan_down", "met", "done"}
    /\ l \in Int /\ ir \in Int /\ i \in Int /\ j \in Int /\ a \in Int
    /\ jstack \in Nat /\ jstack = 2 * Depth
    /\ istack \in [0 .. NSTACK - 1 -> Int]

SegmentsInv ==
    /\ 1 <= l /\ l <= ir /\ ir <= DATA_SIZE
    /\ \A k \in 1 .. Depth : Lo(k) \in 1 .. DATA_SIZE /\ Hi(k) \in Lo(k) .. DATA_SIZE
    /\ \A k \in 1 .. Depth : Hi(k) < l \/ ir < Lo(k)
    /\ \A k, m \in 1 .. Depth : k # m => Hi(k) < Lo(m) \/ Hi(m) < Lo(k)

SizesInv(h, d) ==
    /\ Depth \in 0 .. d
    /\ ir - l + 1 <= h[Depth]
    /\ \A k \in 1 .. Depth : Hi(k) - Lo(k) + 1 <= h[k - 1]

Together(x, y) == \/ l <= x /\ y <= ir
                  \/ \E k \in 1 .. Depth : Lo(k) <= x /\ y <= Hi(k)

OrderIn(f) == \A x, y \in 1 .. DATA_SIZE : x < y => f[x - 1] <= f[y - 1] \/ Together(x, y)
OrderInv == OrderIn(arr)

AtMost(lo, hi) == \A x \in lo .. hi : arr[x - 1] <= a
AtLeast(lo, hi) == \A x \in lo .. hi : arr[x - 1] >= a

PhaseInv ==
    /\ pc = "insert" => l < j /\ j <= ir + 1 /\ InOrder(arr, l, j - 1)
    /\ pc = "scan_up" => /\ l < i /\ i < ir /\ l + 1 < j /\ j <= ir /\ arr[l] = a
                         /\ AtMost(l, i) /\ AtLeast(j, ir)
    /\ pc = "scan_down" => /\ l + 1 < i /\ i <= ir /\ l + 1 < j /\ j <= ir /\ arr[l] = a
                           /\ AtMost(l, i - 1) /\ AtLeast(i, i) /\ AtLeast(j, ir)
    /\ pc = "met" => /\ l + 1 < i /\ i <= ir /\ l < j /\ j < ir /\ arr[l] = a
                     /\ AtMost(l, i - 1) /\ AtLeast(i, i) /\ AtMost(j, j) /\ AtLeast(j + 1, ir)

LargeInv == pc \in {"scan_up", "scan_down", "met"} => ~Small

DoneInv == pc = "done" => InOrder(arr, 1, DATA_SIZE) /\ verdict = 1

SortInv(h, d) ==
    /\ TypeInv /\ SegmentsInv /\ SizesInv(h, d) /\ PhaseInv /\ LargeInv /\ DoneInv
    /\ pc # "done" => OrderInv
    /\ Rearranged(input_data, arr, 1, DATA_SIZE)

SameStack == /\ l' = l /\ ir' = ir /\ jstack' = jstack /\ istack' = istack
             /\ input_data' = input_data

(* What only rearranges the current segment disturbs nothing outside it.   *)
LEMMA OutsideUndisturbed ==
  ASSUME NEW h, NEW d, SortInv(h, d), pc # "done", NEW g, Rearranged(arr, g, l, ir)
  PROVE  g \in Data(DATA_SIZE) /\ OrderIn(g) /\ Rearranged(input_data, g, 1, DATA_SIZE)
<1>2. TypeInv /\ SegmentsInv /\ OrderInv /\ Rearranged(input_data, arr, 1, DATA_SIZE)
  BY DEF SortInv
<1> DEFINE n == DATA_SIZE
<1>4. /\ n \in Nat /\ arr \in Data(n) /\ input_data \in Data(n)
      /\ l \in Int /\ ir \in Int /\ 1 <= l /\ ir <= n
  <2>1. TypeInv /\ 1 <= l /\ ir <= DATA_SIZE
    BY <1>2 DEF SegmentsInv
  <2> QED
    BY <2>1 DEF TypeInv
<1> HIDE DEF n
<1>5. /\ g \in Data(n)
      /\ \A m \in 0 .. n - 1 : m + 1 \notin l .. ir => g[m] = arr[m]
      /\ \A m \in 0 .. n - 1 : m + 1 \in l .. ir =>
               \E q \in 0 .. n - 1 : q + 1 \in l .. ir /\ g[m] = arr[q]
  BY <1>4, RearrangedValues
<1>6. Rearranged(input_data, g, 1, n)
  BY <1>2, <1>4, RearrangedTwice DEF n
<1>7. OrderIn(g)
  <2> SUFFICES ASSUME NEW x \in 1 .. n, NEW y \in 1 .. n, x < y
               PROVE  g[x - 1] <= g[y - 1] \/ Together(x, y)
    BY DEF OrderIn, n
  <2>1. x - 1 \in 0 .. n - 1 /\ y - 1 \in 0 .. n - 1 /\ (x - 1) + 1 = x /\ (y - 1) + 1 = y
    BY <1>4
  <2>2. \A u, v \in 1 .. n : u < v => arr[u - 1] <= arr[v - 1] \/ Together(u, v)
    BY <1>2 DEF OrderInv, OrderIn, n
  <2>3. \A k \in 1 .. Depth : Lo(k) \in Int /\ Hi(k) \in Int /\ (Hi(k) < l \/ ir < Lo(k))
    BY <1>2 DEF SegmentsInv
  <2>4. CASE x \in l .. ir /\ y \in l .. ir
    BY <2>4 DEF Together
  <2>5. CASE x \notin l .. ir /\ y \notin l .. ir
    <3>1. g[x - 1] = arr[x - 1] /\ g[y - 1] = arr[y - 1]
      BY <1>5, <2>1, <2>5
    <3> QED
      BY <2>2, <3>1
  <2>6. CASE x \notin l .. ir /\ y \in l .. ir
    <3>1. PICK q \in 0 .. n - 1 : q + 1 \in l .. ir /\ g[y - 1] = arr[q]
      BY <1>5, <2>1, <2>6
    <3>2. g[x - 1] = arr[x - 1]
      BY <1>5, <2>1, <2>6
    <3>3. x < l /\ q + 1 \in 1 .. n /\ x < q + 1 /\ (q + 1) - 1 = q
      BY <1>4, <2>6, <3>1
    <3>4. ~Together(x, q + 1)
      BY <1>4, <2>3, <3>1, <3>3 DEF Together
    <3> QED
      BY <2>2, <3>1, <3>2, <3>3, <3>4
  <2>7. CASE x \in l .. ir /\ y \notin l .. ir
    <3>1. PICK q \in 0 .. n - 1 : q + 1 \in l .. ir /\ g[x - 1] = arr[q]
      BY <1>5, <2>1, <2>7
    <3>2. g[y - 1] = arr[y - 1]
      BY <1>5, <2>1, <2>7
    <3>3. ir < y /\ q + 1 \in 1 .. n /\ q + 1 < y /\ (q + 1) - 1 = q
      BY <1>4, <2>7, <3>1
    <3>4. ~Together(q + 1, y)
      BY <1>4, <2>3, <3>1, <3>3 DEF Together
    <3> QED
      BY <2>2, <3>1, <3>2, <3>3, <3>4
  <2> QED
    BY <2>4, <2>5, <2>6, <2>7
<1> QED
  BY <1>5, <1>6, <1>7 DEF n

(* The rest of the invariant after such a step.                            *)
LEMMA SegmentStep ==
  ASSUME NEW h, NEW d, SortInv(h, d), pc # "done", SameStack,
         Rearranged(arr, arr', l, ir),
         pc' \in {"segment", "insert", "scan_up", "scan_down", "met"},
         i' \in Int, j' \in Int, a' \in Int, PhaseInv',
         pc' \in {"scan_up", "scan_down", "met"} => ~Small
  PROVE  SortInv(h, d)'
<1>0. DATA_SIZE' = DATA_SIZE /\ Depth' = Depth
  BY DEF SameStack, DATA_SIZE, Depth
<1>1. /\ arr' \in Data(DATA_SIZE) /\ OrderIn(arr') /\ Rearranged(input_data, arr', 1, DATA_SIZE)
  BY OutsideUndisturbed
<1>2. OrderInv' /\ Rearranged(input_data, arr, 1, DATA_SIZE)'
  BY <1>0, <1>1 DEF OrderInv, OrderIn, Together, SameStack, Lo, Hi
<1>3. SegmentsInv' /\ SizesInv(h, d)'
  BY <1>0 DEF SortInv, SegmentsInv, SizesInv, SameStack, Lo, Hi
<1>4. TypeInv'
  BY <1>0, <1>1 DEF SortInv, TypeInv, SameStack
<1>5. DoneInv' /\ LargeInv'
  BY DEF DoneInv, LargeInv, Small, SameStack
<1> QED
  BY <1>2, <1>3, <1>4, <1>5 DEF SortInv

(* The same when the array is left alone.                                  *)
LEMMA SameArray ==
  ASSUME NEW h, NEW d, SortInv(h, d)
  PROVE  Rearranged(arr, arr, l, ir)
<1> DEFINE n == DATA_SIZE
<1>1. n \in Nat /\ arr \in Data(n) /\ l \in Int /\ ir \in Int
  BY DEF SortInv, TypeInv
<1> HIDE DEF n
<1> QED
  BY <1>1, NotRearranged

(* What the proofs about one action need of the types.                     *)
LEMMA SortTypes ==
  ASSUME NEW h, NEW d, SortInv(h, d)
  PROVE  /\ DATA_SIZE \in Nat /\ DATA_SIZE >= 1 /\ arr \in Data(DATA_SIZE)
         /\ \A x \in 1 .. DATA_SIZE : arr[x - 1] \in Int
         /\ l \in Int /\ ir \in Int /\ i \in Int /\ j \in Int /\ a \in Int
         /\ 1 <= l /\ l <= ir /\ ir <= DATA_SIZE
         /\ DOMAIN arr = 0 .. DATA_SIZE - 1
<1>1. TypeInv /\ SegmentsInv
  BY DEF SortInv
<1>2. 1 <= l /\ l <= ir /\ ir <= DATA_SIZE
  BY <1>1 DEF SegmentsInv
<1>3. /\ DATA_SIZE \in Nat /\ arr \in Data(DATA_SIZE)
      /\ l \in Int /\ ir \in Int /\ i \in Int /\ j \in Int /\ a \in Int
  BY <1>1 DEF TypeInv
<1> DEFINE n == DATA_SIZE
<1>4. n \in Nat /\ arr \in Data(n)
  BY <1>3
<1> HIDE DEF n
<1>5. DOMAIN arr = 0 .. n - 1 /\ \A x \in 1 .. n : arr[x - 1] \in Int
  BY <1>4 DEF Data
<1> QED
  BY <1>2, <1>3, <1>5 DEF n

LEMMA StartInsertionStep ==
  ASSUME NEW h, NEW d, SortInv(h, d), StartInsertion PROVE SortInv(h, d)'
<1>0. /\ DATA_SIZE \in Nat /\ DATA_SIZE >= 1
      /\ l \in Int /\ ir \in Int /\ i \in Int /\ j \in Int /\ a \in Int
      /\ 1 <= l /\ l <= ir /\ ir <= DATA_SIZE
  BY SortTypes
<1>00. /\ arr \in Data(DATA_SIZE) /\ DOMAIN arr = 0 .. DATA_SIZE - 1
       /\ \A x \in 1 .. DATA_SIZE : arr[x - 1] \in Int
  BY SortTypes
<1>1. /\ pc = "segment" /\ pc' = "insert" /\ j' = l + 1 /\ arr' = arr /\ i' = i /\ a' = a /\ SameStack
      /\ l' = l /\ ir' = ir
  BY DEF StartInsertion, scanVars, SameStack
<1>2. InOrder(arr, l, (l + 1) - 1)
  <2> SUFFICES ASSUME NEW x \in l .. (l + 1) - 1, NEW y \in l .. (l + 1) - 1
               PROVE  arr[x - 1] <= arr[y - 1]
    BY DEF InOrder
  <2>1. x = y /\ x \in 1 .. DATA_SIZE
    BY <1>0
  <2> QED
    BY <1>00, <2>1
<1>3. PhaseInv'
  BY <1>1, <1>2, <1>0 DEF PhaseInv
<1> QED
  BY <1>1, <1>3, SameArray, <1>0, SegmentStep

LEMMA InsertStep ==
  ASSUME NEW h, NEW d, SortInv(h, d), Insert PROVE SortInv(h, d)'
<1>0. /\ DATA_SIZE \in Nat /\ DATA_SIZE >= 1
      /\ l \in Int /\ ir \in Int /\ i \in Int /\ j \in Int /\ a \in Int
      /\ 1 <= l /\ l <= ir /\ ir <= DATA_SIZE
  BY SortTypes
<1>00. /\ arr \in Data(DATA_SIZE) /\ DOMAIN arr = 0 .. DATA_SIZE - 1
       /\ \A x \in 1 .. DATA_SIZE : arr[x - 1] \in Int
  BY SortTypes
<1>1. /\ pc = "insert" /\ pc' = "insert" /\ j <= ir /\ j' = j + 1 /\ arr' = Inserted(arr, j)
      /\ i' = i /\ a' = a /\ SameStack /\ l' = l /\ ir' = ir
  BY DEF Insert, scanVars, SameStack
<1>2. l < j /\ InOrder(arr, l, j - 1)
  BY <1>1 DEF SortInv, PhaseInv
<1> DEFINE n == DATA_SIZE
<1>3. /\ n \in Nat /\ arr \in Data(n) /\ j \in Int /\ l \in Int /\ ir \in Int
      /\ 1 <= l /\ l < j /\ j <= ir /\ ir <= n
  BY <1>1, <1>2, <1>0, <1>00
<1> HIDE DEF n
<1>4. Rearranged(arr, arr', l, ir) /\ InOrder(arr', l, j)
  BY <1>1, <1>2, <1>3, InsertedFacts
<1>5. InOrder(arr', l', j' - 1)
  <2>1. j' - 1 = j
    BY <1>1, <1>3
  <2> QED
    BY <1>1, <1>4, <2>1
<1>6. l' < j' /\ j' <= ir' + 1 /\ i' \in Int /\ j' \in Int /\ a' \in Int
  BY <1>1, <1>2, <1>0
<1>7. PhaseInv'
  BY <1>1, <1>5, <1>6 DEF PhaseInv
<1> QED
  BY <1>1, <1>4, <1>6, <1>7, SegmentStep

LEMMA StartPartitionStep ==
  ASSUME NEW h, NEW d, SortInv(h, d), StartPartition PROVE SortInv(h, d)'
<1>0. /\ DATA_SIZE \in Nat /\ DATA_SIZE >= 1
      /\ l \in Int /\ ir \in Int /\ i \in Int /\ j \in Int /\ a \in Int
      /\ 1 <= l /\ l <= ir /\ ir <= DATA_SIZE
  BY SortTypes
<1>00. /\ arr \in Data(DATA_SIZE) /\ DOMAIN arr = 0 .. DATA_SIZE - 1
       /\ \A x \in 1 .. DATA_SIZE : arr[x - 1] \in Int
  BY SortTypes
<1>1. /\ pc = "segment" /\ pc' = "scan_up" /\ ~Small /\ i' = l + 1 /\ j' = ir
      /\ arr' = MedianOfThree(arr) /\ a' = arr'[l]
      /\ SameStack /\ l' = l /\ ir' = ir
  BY DEF StartPartition, scanVars, SameStack
<1> DEFINE n == DATA_SIZE
<1>2. /\ n \in Nat /\ arr \in Data(n) /\ l \in Int /\ ir \in Int
      /\ 1 <= l /\ l + 2 <= ir /\ ir <= n
  <2>1. INSERTION_THRESHOLD \in Nat /\ INSERTION_THRESHOLD >= 2
    BY SortAssumption
  <2>2. ~(ir - l < INSERTION_THRESHOLD)
    BY <1>1 DEF Small
  <2> QED
    BY <1>0, <1>00, <2>1, <2>2
<1> HIDE DEF n
<1>3. /\ arr' \in Data(n) /\ Rearranged(arr, arr', l, ir)
      /\ arr'[l - 1] <= arr'[l] /\ arr'[l] <= arr'[ir - 1]
  BY <1>1, <1>2, MedianFacts
<1>4. /\ arr'[l - 1] \in Int /\ arr'[l] \in Int /\ arr'[ir - 1] \in Int
  BY <1>2, <1>3 DEF Data
<1>5. i' \in Int /\ j' \in Int /\ a' \in Int
  BY <1>1, <1>2, <1>4
<1>6. AtMost(l, i)' /\ AtLeast(j, ir)'
  <2>1. ASSUME NEW x \in l .. l + 1 PROVE arr'[x - 1] <= a'
    <3>1. x = l \/ (x = l + 1 /\ x - 1 = l)
      BY <1>2
    <3> QED
      BY <1>1, <1>3, <1>4, <3>1
  <2>2. ASSUME NEW x \in ir .. ir PROVE arr'[x - 1] >= a'
    <3>1. x = ir
      BY <1>2
    <3> QED
      BY <1>1, <1>3, <1>4, <3>1
  <2> QED
    BY <1>1, <2>1, <2>2 DEF AtMost, AtLeast
<1>7. PhaseInv'
  BY <1>1, <1>2, <1>6 DEF PhaseInv
<1> QED
  BY <1>1, <1>3, <1>5, <1>7, SegmentStep

LEMMA ScanUpStep ==
  ASSUME NEW h, NEW d, SortInv(h, d), ScanUp PROVE SortInv(h, d)'
<1>0. /\ DATA_SIZE \in Nat /\ DATA_SIZE >= 1
      /\ l \in Int /\ ir \in Int /\ i \in Int /\ j \in Int /\ a \in Int
      /\ 1 <= l /\ l <= ir /\ ir <= DATA_SIZE
  BY SortTypes
<1>00. /\ arr \in Data(DATA_SIZE) /\ DOMAIN arr = 0 .. DATA_SIZE - 1
       /\ \A x \in 1 .. DATA_SIZE : arr[x - 1] \in Int
  BY SortTypes
<1>1. /\ pc = "scan_up" /\ i' = i + 1
      /\ pc' = (IF At(i + 1) < a THEN "scan_up" ELSE "scan_down")
      /\ arr' = arr /\ j' = j /\ a' = a /\ SameStack /\ l' = l /\ ir' = ir
  BY DEF ScanUp, At, scanVars, SameStack
<1>2. /\ l < i /\ i < ir /\ l + 1 < j /\ j <= ir /\ arr[l] = a
      /\ AtMost(l, i) /\ AtLeast(j, ir)
  BY <1>1 DEF SortInv, PhaseInv
<1>3. i + 1 \in 1 .. DATA_SIZE /\ arr[(i + 1) - 1] \in Int /\ At(i + 1) = arr[(i + 1) - 1]
  <2>1. i + 1 \in 1 .. DATA_SIZE
    BY <1>2, <1>0
  <2>2. (i + 1) - 1 \in 0 .. DATA_SIZE - 1
    BY <1>0, <2>1
  <2> QED
    BY <1>00, <2>1, <2>2 DEF At
<1>4. CASE At(i + 1) < a
  <2>1. AtMost(l, i + 1)
    <3> SUFFICES ASSUME NEW x \in l .. i + 1 PROVE arr[x - 1] <= a
      BY DEF AtMost
    <3>1. CASE x = i + 1
      BY <1>3, <1>4, <3>1, <1>0
    <3>2. CASE x # i + 1
      BY <1>2, <3>2, <1>0 DEF AtMost
    <3> QED
      BY <3>1, <3>2
  <2>2. i + 1 # ir
    <3> SUFFICES ASSUME i + 1 = ir PROVE FALSE
      OBVIOUS
    <3>1. arr[ir - 1] >= a
      BY <1>2, <1>0 DEF AtLeast
    <3> QED
      BY <1>3, <1>4, <3>1, <1>0
  <2>3. PhaseInv'
    <3>1. pc' = "scan_up" /\ i' \in Int /\ j' \in Int
      BY <1>0, <1>1, <1>4
    <3>2. AtMost(l, i)' /\ AtLeast(j, ir)'
      BY <1>1, <1>2, <2>1, <2>2 DEF AtMost, AtLeast
    <3>3. l < i' /\ i' < ir /\ l + 1 < j' /\ j' <= ir /\ arr'[l'] = a'
      BY <1>0, <1>1, <1>2, <2>2
    <3> QED
      BY <1>1, <3>1, <3>2, <3>3 DEF PhaseInv
  <2>4. pc' = "scan_up" /\ i' \in Int /\ j' \in Int /\ a' \in Int /\ pc # "done"
        /\ SameStack /\ ~Small
    BY <1>0, <1>1, <1>4 DEF SortInv, LargeInv
  <2>5. Rearranged(arr, arr', l, ir)
    BY <1>1, SameArray
  <2> QED
    BY <2>3, <2>4, <2>5, SegmentStep
<1>5. CASE ~(At(i + 1) < a)
  <2>1. AtLeast(i + 1, i + 1)
    <3> SUFFICES ASSUME NEW x \in i + 1 .. i + 1 PROVE arr[x - 1] >= a
      BY DEF AtLeast
    <3>1. x = i + 1
      BY <1>0
    <3> QED
      BY <1>3, <1>5, <3>1, <1>0
  <2>2. AtMost(l, (i + 1) - 1)
    BY <1>2, <1>0 DEF AtMost
  <2>3. PhaseInv'
    <3>1. pc' = "scan_down" /\ i' \in Int /\ j' \in Int
      BY <1>0, <1>1, <1>5
    <3>2. AtMost(l, i - 1)' /\ AtLeast(i, i)' /\ AtLeast(j, ir)'
      BY <1>1, <1>2, <2>1, <2>2 DEF AtMost, AtLeast
    <3>3. l + 1 < i' /\ i' <= ir /\ l + 1 < j' /\ j' <= ir /\ arr'[l'] = a'
      BY <1>0, <1>1, <1>2, <2>2
    <3> QED
      BY <1>1, <3>1, <3>2, <3>3 DEF PhaseInv
  <2>4. pc' = "scan_down" /\ i' \in Int /\ j' \in Int /\ a' \in Int /\ pc # "done"
        /\ SameStack /\ ~Small
    BY <1>0, <1>1, <1>5 DEF SortInv, LargeInv
  <2>5. Rearranged(arr, arr', l, ir)
    BY <1>1, SameArray
  <2> QED
    BY <2>3, <2>4, <2>5, SegmentStep
<1> QED
  BY <1>4, <1>5

LEMMA ScanDownStep ==
  ASSUME NEW h, NEW d, SortInv(h, d), ScanDown PROVE SortInv(h, d)'
<1>0. /\ DATA_SIZE \in Nat /\ DATA_SIZE >= 1
      /\ l \in Int /\ ir \in Int /\ i \in Int /\ j \in Int /\ a \in Int
      /\ 1 <= l /\ l <= ir /\ ir <= DATA_SIZE
  BY SortTypes
<1>00. /\ arr \in Data(DATA_SIZE) /\ DOMAIN arr = 0 .. DATA_SIZE - 1
       /\ \A x \in 1 .. DATA_SIZE : arr[x - 1] \in Int
  BY SortTypes
<1>1. /\ pc = "scan_down" /\ j' = j - 1
      /\ pc' = (IF At(j - 1) > a THEN "scan_down" ELSE "met")
      /\ arr' = arr /\ i' = i /\ a' = a /\ SameStack /\ l' = l /\ ir' = ir
  BY DEF ScanDown, At, scanVars, SameStack
<1>2. /\ l + 1 < i /\ i <= ir /\ l + 1 < j /\ j <= ir /\ arr[l] = a
      /\ AtMost(l, i - 1) /\ AtLeast(i, i) /\ AtLeast(j, ir)
  BY <1>1 DEF SortInv, PhaseInv
<1>3. j - 1 \in 1 .. DATA_SIZE /\ arr[(j - 1) - 1] \in Int /\ At(j - 1) = arr[(j - 1) - 1]
  <2>1. j - 1 \in 1 .. DATA_SIZE
    BY <1>2, <1>0
  <2>2. (j - 1) - 1 \in 0 .. DATA_SIZE - 1
    BY <1>0, <2>1
  <2> QED
    BY <1>00, <2>1, <2>2 DEF At
<1>4. CASE At(j - 1) > a
  <2>1. AtLeast(j - 1, ir)
    <3> SUFFICES ASSUME NEW x \in j - 1 .. ir PROVE arr[x - 1] >= a
      BY DEF AtLeast
    <3>1. CASE x = j - 1
      BY <1>3, <1>4, <3>1, <1>0
    <3>2. CASE x # j - 1
      BY <1>2, <3>2, <1>0 DEF AtLeast
    <3> QED
      BY <3>1, <3>2
  <2>2. j - 1 # l + 1
    <3> SUFFICES ASSUME j - 1 = l + 1 PROVE FALSE
      OBVIOUS
    <3>1. (j - 1) - 1 = l
      BY <1>0
    <3> QED
      BY <1>2, <1>3, <1>4, <3>1, <1>0
  <2>3. PhaseInv'
    <3>1. pc' = "scan_down" /\ i' \in Int /\ j' \in Int
      BY <1>0, <1>1, <1>4
    <3>2. AtMost(l, i - 1)' /\ AtLeast(i, i)' /\ AtLeast(j, ir)'
      BY <1>1, <1>2, <2>1, <2>2 DEF AtMost, AtLeast
    <3>3. l + 1 < i' /\ i' <= ir /\ l + 1 < j' /\ j' <= ir /\ arr'[l'] = a'
      BY <1>0, <1>1, <1>2, <2>2
    <3> QED
      BY <1>1, <3>1, <3>2, <3>3 DEF PhaseInv
  <2>4. pc' = "scan_down" /\ i' \in Int /\ j' \in Int /\ a' \in Int /\ pc # "done"
        /\ SameStack /\ ~Small
    BY <1>0, <1>1, <1>4 DEF SortInv, LargeInv
  <2>5. Rearranged(arr, arr', l, ir)
    BY <1>1, SameArray
  <2> QED
    BY <2>3, <2>4, <2>5, SegmentStep
<1>5. CASE ~(At(j - 1) > a)
  <2>1. AtMost(j - 1, j - 1)
    <3> SUFFICES ASSUME NEW x \in j - 1 .. j - 1 PROVE arr[x - 1] <= a
      BY DEF AtMost
    <3>1. x = j - 1
      BY <1>0
    <3> QED
      BY <1>3, <1>5, <3>1, <1>0
  <2>2. AtLeast((j - 1) + 1, ir)
    BY <1>2, <1>0 DEF AtLeast
  <2>3. PhaseInv'
    <3>1. pc' = "met" /\ i' \in Int /\ j' \in Int
      BY <1>0, <1>1, <1>5
    <3>2. AtMost(l, i - 1)' /\ AtLeast(i, i)' /\ AtMost(j, j)' /\ AtLeast(j + 1, ir)'
      BY <1>1, <1>2, <2>1, <2>2 DEF AtMost, AtLeast
    <3>3. l + 1 < i' /\ i' <= ir /\ l < j' /\ j' < ir /\ arr'[l'] = a'
      BY <1>0, <1>1, <1>2, <2>2
    <3> QED
      BY <1>1, <3>1, <3>2, <3>3 DEF PhaseInv
  <2>4. pc' = "met" /\ i' \in Int /\ j' \in Int /\ a' \in Int /\ pc # "done"
        /\ SameStack /\ ~Small
    BY <1>0, <1>1, <1>5 DEF SortInv, LargeInv
  <2>5. Rearranged(arr, arr', l, ir)
    BY <1>1, SameArray
  <2> QED
    BY <2>3, <2>4, <2>5, SegmentStep
<1> QED
  BY <1>4, <1>5

LEMMA ExchangeStep ==
  ASSUME NEW h, NEW d, SortInv(h, d), Exchange PROVE SortInv(h, d)'
<1>0. /\ DATA_SIZE \in Nat /\ DATA_SIZE >= 1
      /\ l \in Int /\ ir \in Int /\ i \in Int /\ j \in Int /\ a \in Int
      /\ 1 <= l /\ l <= ir /\ ir <= DATA_SIZE
  BY SortTypes
<1>00. /\ arr \in Data(DATA_SIZE) /\ DOMAIN arr = 0 .. DATA_SIZE - 1
       /\ \A x \in 1 .. DATA_SIZE : arr[x - 1] \in Int
  BY SortTypes
<1>1. /\ pc = "met" /\ pc' = "scan_up" /\ ~(j < i) /\ arr' = Swap(arr, i - 1, j - 1)
      /\ i' = i /\ j' = j /\ a' = a /\ SameStack /\ l' = l /\ ir' = ir
  BY DEF Exchange, Crossed, scanVars, SameStack
<1>2. /\ l + 1 < i /\ i <= ir /\ l < j /\ j < ir /\ arr[l] = a
      /\ AtMost(l, i - 1) /\ AtLeast(i, i) /\ AtMost(j, j) /\ AtLeast(j + 1, ir)
  BY <1>1 DEF SortInv, PhaseInv
<1> DEFINE n == DATA_SIZE
           x == i - 1
           y == j - 1
<1>3. /\ n \in Nat /\ arr \in Data(n) /\ l \in Int /\ ir \in Int
      /\ Between(n, l, ir, x) /\ Between(n, l, ir, y)
  BY <1>1, <1>2, <1>0, <1>00 DEF Between
<1> HIDE DEF n, x, y
<1>4. /\ Rearranged(arr, arr', l, ir)
      /\ arr'[x] = arr[y] /\ arr'[y] = arr[x]
      /\ SameBut(n, arr, arr', x, y)
  BY <1>1, <1>3, SwapFacts DEF SameBut, x, y
<1>5. arr[y] <= a /\ arr[x] >= a
  BY <1>2, <1>0 DEF AtMost, AtLeast, x, y
<1>6. \A z \in 1 .. DATA_SIZE : z # i /\ z # j => arr'[z - 1] = arr[z - 1]
  <2> SUFFICES ASSUME NEW z \in 1 .. DATA_SIZE, z # i, z # j PROVE arr'[z - 1] = arr[z - 1]
    OBVIOUS
  <2>1. z - 1 \in 0 .. n - 1 /\ z - 1 # x /\ z - 1 # y
    BY <1>0 DEF n, x, y
  <2> QED
    BY <1>4, <2>1 DEF SameBut
<1>7. \A z \in l .. i : arr'[z - 1] <= a
  <2> SUFFICES ASSUME NEW z \in l .. i PROVE arr'[z - 1] <= a
    OBVIOUS
  <2>1. CASE z = i
    BY <1>4, <1>5, <2>1 DEF x
  <2>2. CASE z # i
    <3>1. z # j /\ z \in l .. i - 1 /\ z \in 1 .. DATA_SIZE
      BY <1>1, <1>2, <2>2, <1>0
    <3> QED
      BY <1>2, <1>6, <2>2, <3>1 DEF AtMost
  <2> QED
    BY <2>1, <2>2
<1>8. \A z \in j .. ir : arr'[z - 1] >= a
  <2> SUFFICES ASSUME NEW z \in j .. ir PROVE arr'[z - 1] >= a
    OBVIOUS
  <2>1. CASE z = j
    BY <1>4, <1>5, <2>1 DEF y
  <2>2. CASE z # j
    <3>1. z # i /\ z \in j + 1 .. ir /\ z \in 1 .. DATA_SIZE
      BY <1>1, <1>2, <2>2, <1>0
    <3> QED
      BY <1>2, <1>6, <2>2, <3>1 DEF AtLeast
  <2> QED
    BY <2>1, <2>2
<1>9. arr'[l] = a
  <2>1. l + 1 \in 1 .. DATA_SIZE /\ l + 1 # i /\ l + 1 # j /\ (l + 1) - 1 = l
    BY <1>1, <1>2, <1>0
  <2> QED
    BY <1>2, <1>6, <2>1
<1>10. l < i /\ i < ir /\ l + 1 < j /\ j <= ir
  BY <1>1, <1>2, <1>0
<1>11. PhaseInv'
  BY <1>1, <1>7, <1>8, <1>9, <1>10 DEF PhaseInv, AtMost, AtLeast
<1>12. ~Small
  BY <1>1 DEF SortInv, LargeInv
<1> QED
  BY <1>1, <1>4, <1>11, <1>12, <1>0, SegmentStep

LEMMA PopStep ==
  ASSUME NEW h, NEW d, IsHalving(h, d), SortInv(h, d), Pop PROVE SortInv(h, d)'
<1>0. /\ DATA_SIZE \in Nat /\ l \in Int /\ ir \in Int /\ j \in Int
      /\ 1 <= l /\ l <= ir /\ ir <= DATA_SIZE
  BY SortTypes
<1>1. /\ pc = "insert" /\ pc' = "segment" /\ j > ir /\ jstack # 0
      /\ ir' = istack[jstack] /\ l' = istack[jstack - 1] /\ jstack' = jstack - 2
      /\ input_data' = input_data /\ arr' = arr /\ i' = i /\ j' = j /\ a' = a
      /\ istack' = istack
  BY DEF Pop
<1>2. TypeInv /\ SegmentsInv /\ SizesInv(h, d) /\ PhaseInv /\ OrderInv
      /\ Rearranged(input_data, arr, 1, DATA_SIZE)
  BY <1>1 DEF SortInv
<1>3. jstack \in Nat /\ jstack = 2 * Depth
  BY <1>2 DEF TypeInv
<1>4. Depth \in 0 .. d /\ d \in Nat
  BY <1>2 DEF SizesInv, IsHalving
<1>5. Depth \in 1 .. d /\ jstack - 1 = 2 * Depth - 1
  BY <1>1, <1>3, <1>4
<1>6. Depth' = Depth - 1
  <2>1. (2 * Depth - 2) \div 2 = Depth - 1
    BY <1>5
  <2>2. jstack - 2 = 2 * Depth - 2
    BY <1>3
  <2> QED
    BY <1>1, <2>1, <2>2 DEF Depth
<1>7. l' = Lo(Depth) /\ ir' = Hi(Depth) /\ DATA_SIZE' = DATA_SIZE
  BY <1>1, <1>3, <1>5 DEF Lo, Hi, DATA_SIZE
<1> DEFINE D == Depth
<1>8. D \in 1 .. d /\ Depth' = D - 1 /\ l' = Lo(D) /\ ir' = Hi(D) /\ d \in Nat
  BY <1>4, <1>5, <1>6, <1>7
<1> HIDE DEF D
<1>9. /\ \A k \in 1 .. D : Lo(k) \in 1 .. DATA_SIZE /\ Hi(k) \in Lo(k) .. DATA_SIZE
      /\ \A k \in 1 .. D : Hi(k) < l \/ ir < Lo(k)
      /\ \A k, m \in 1 .. D : k # m => Hi(k) < Lo(m) \/ Hi(m) < Lo(k)
      /\ \A k \in 1 .. D : Hi(k) - Lo(k) + 1 <= h[k - 1]
  BY <1>2 DEF SegmentsInv, SizesInv, D
<1>10. /\ 1 <= l' /\ l' <= ir' /\ ir' <= DATA_SIZE /\ ir' - l' + 1 <= h[D - 1]
       /\ l' \in Int /\ ir' \in Int
  BY <1>0, <1>8, <1>9
<1>11. SegmentsInv'
  <2>1. /\ \A k \in 1 .. D - 1 : Lo(k) \in 1 .. DATA_SIZE /\ Hi(k) \in Lo(k) .. DATA_SIZE
        /\ \A k \in 1 .. D - 1 : Hi(k) < l' \/ ir' < Lo(k)
        /\ \A k, m \in 1 .. D - 1 : k # m => Hi(k) < Lo(m) \/ Hi(m) < Lo(k)
    <3>1. \A k \in 1 .. D - 1 : k \in 1 .. D /\ k # D /\ D \in 1 .. D
      BY <1>8
    <3> QED
      BY <1>8, <1>9, <3>1
  <2> QED
    BY <1>1, <1>7, <1>8, <1>10, <2>1 DEF SegmentsInv, Lo, Hi
<1>12. SizesInv(h, d)'
  <2>1. D - 1 \in 0 .. d /\ \A k \in 1 .. D - 1 : k \in 1 .. D
    BY <1>8
  <2> QED
    BY <1>1, <1>8, <1>9, <1>10, <2>1 DEF SizesInv, Lo, Hi
<1>13. OrderInv'
  <2> SUFFICES ASSUME NEW x \in 1 .. DATA_SIZE, NEW y \in 1 .. DATA_SIZE, x < y,
                      ~(arr[x - 1] <= arr[y - 1])
               PROVE  \/ l' <= x /\ y <= ir'
                      \/ \E k \in 1 .. D - 1 : Lo(k) <= x /\ y <= Hi(k)
    BY <1>1, <1>7, <1>8 DEF OrderInv, OrderIn, Together, Lo, Hi
  <2>1. Together(x, y)
    BY <1>2 DEF OrderInv, OrderIn
  <2>2. InOrder(arr, l, j - 1) /\ j - 1 >= ir
    BY <1>0, <1>1, <1>2 DEF PhaseInv
  <2>3. ~(l <= x /\ y <= ir)
    BY <1>0, <2>2 DEF InOrder
  <2>4. PICK k \in 1 .. D : Lo(k) <= x /\ y <= Hi(k)
    BY <2>1, <2>3 DEF Together, D
  <2>5. k = D \/ k \in 1 .. D - 1
    BY <1>8
  <2> QED
    BY <1>8, <2>4, <2>5
<1>14. TypeInv'
  <2>1. jstack' \in Nat /\ jstack' = 2 * Depth'
    BY <1>1, <1>3, <1>5, <1>6
  <2>2. /\ input_data \in Inputs /\ DATA_SIZE \in Nat /\ input_data \in Data(DATA_SIZE)
        /\ arr \in Data(DATA_SIZE) /\ i \in Int /\ j \in Int /\ a \in Int
        /\ istack \in [0 .. NSTACK - 1 -> Int]
    BY <1>2 DEF TypeInv
  <2> QED
    BY <1>1, <1>7, <1>10, <2>1, <2>2 DEF TypeInv
<1>15. PhaseInv' /\ LargeInv' /\ DoneInv'
  BY <1>1 DEF PhaseInv, LargeInv, DoneInv
<1> QED
  BY <1>1, <1>2, <1>7, <1>11, <1>12, <1>13, <1>14, <1>15 DEF SortInv

(* The two sides of a partitioning.  The one that goes on, cl .. cr, is at *)
(* most half as long as the segment, the other, pl .. pr, goes to the      *)
(* stack.                                                                  *)
Sides(cl, cr, pl, pr) ==
    \/ cl = l /\ cr = j - 1 /\ pl = i /\ pr = ir
    \/ cl = i /\ cr = ir /\ pl = l /\ pr = j - 1

LEMMA PushStep ==
  ASSUME NEW h, NEW d, IsHalving(h, d), SortInv(h, d), Push
  PROVE  SortInv(h, d)'
<1>0. /\ DATA_SIZE \in Nat /\ l \in Int /\ ir \in Int /\ i \in Int /\ j \in Int /\ a \in Int
      /\ 1 <= l /\ l <= ir /\ ir <= DATA_SIZE
  BY SortTypes
<1>00. /\ arr \in Data(DATA_SIZE) /\ DOMAIN arr = 0 .. DATA_SIZE - 1
       /\ \A x \in 1 .. DATA_SIZE : arr[x - 1] \in Int
  BY SortTypes
<1>1. /\ pc = "met" /\ pc' = "segment" /\ j < i
      /\ arr' = [arr EXCEPT ![l] = arr[j - 1], ![j - 1] = a]
      /\ jstack' = jstack + 2
      /\ istack' = [istack EXCEPT ![jstack + 2] = IF RightLarger THEN ir ELSE j - 1,
                                  ![jstack + 1] = IF RightLarger THEN i ELSE l]
      /\ ir' = (IF RightLarger THEN j - 1 ELSE ir)
      /\ l' = (IF RightLarger THEN l ELSE i)
      /\ input_data' = input_data /\ i' = i /\ j' = j /\ a' = a
  BY DEF Push, Crossed
<1>2. TypeInv /\ SegmentsInv /\ SizesInv(h, d) /\ PhaseInv /\ LargeInv
  BY <1>1 DEF SortInv
<1>3. jstack \in Nat /\ jstack = 2 * Depth /\ istack \in [0 .. NSTACK - 1 -> Int]
  BY <1>2 DEF TypeInv
<1>4. /\ l + 1 < i /\ i <= ir /\ l < j /\ j < ir /\ arr[l] = a
      /\ AtMost(l, i - 1) /\ AtLeast(i, i) /\ AtMost(j, j) /\ AtLeast(j + 1, ir)
  BY <1>1, <1>2 DEF PhaseInv
<1>5. /\ d \in Nat /\ 2 * d < NSTACK /\ NSTACK \in Nat /\ h \in [0 .. d -> Nat]
      /\ \A k \in 0 .. d - 1 : h[k] <= 2 * h[k + 1] + 1
      /\ h[d] <= INSERTION_THRESHOLD /\ INSERTION_THRESHOLD \in Nat
  BY SortAssumption DEF IsHalving
<1>6. Depth \in 0 .. d /\ ir - l + 1 <= h[Depth]
  BY <1>2 DEF SizesInv
<1>7. Depth # d
  <2>1. ~(ir - l < INSERTION_THRESHOLD)
    BY <1>1, <1>2 DEF LargeInv, Small
  <2> QED
    BY <1>0, <1>5, <1>6, <2>1
<1> DEFINE D == Depth
<1>8. /\ D \in 0 .. d - 1 /\ D + 1 \in 1 .. d /\ D \in Nat
      /\ jstack + 2 = 2 * (D + 1) /\ jstack + 1 = 2 * (D + 1) - 1
      /\ jstack + 2 \in 0 .. NSTACK - 1 /\ jstack + 1 \in 0 .. NSTACK - 1
  BY <1>3, <1>5, <1>6, <1>7
<1>9. Depth' = D + 1
  <2>1. (2 * (D + 1)) \div 2 = D + 1
    BY <1>8
  <2> QED
    BY <1>1, <1>8, <2>1 DEF Depth
<1>10. DATA_SIZE' = DATA_SIZE
  BY <1>1 DEF DATA_SIZE
<1>11. /\ \A k \in 1 .. D : Lo(k) \in 1 .. DATA_SIZE /\ Hi(k) \in Lo(k) .. DATA_SIZE
       /\ \A k \in 1 .. D : Hi(k) < l \/ ir < Lo(k)
       /\ \A k, m \in 1 .. D : k # m => Hi(k) < Lo(m) \/ Hi(m) < Lo(k)
       /\ \A k \in 1 .. D : Hi(k) - Lo(k) + 1 <= h[k - 1]
  BY <1>2 DEF SegmentsInv, SizesInv
<1> HIDE DEF D
<1> DEFINE cl == IF RightLarger THEN l ELSE i
           cr == IF RightLarger THEN j - 1 ELSE ir
           pl == IF RightLarger THEN i ELSE l
           pr == IF RightLarger THEN ir ELSE j - 1
<1>12. Sides(cl, cr, pl, pr) /\ 2 * (cr - cl + 1) <= ir - l
  <2>1. CASE RightLarger
    <3>1. ir - i + 1 >= j - l
      BY <2>1 DEF RightLarger
    <3> QED
      BY <1>0, <1>1, <1>4, <2>1, <3>1 DEF Sides
  <2>2. CASE ~RightLarger
    <3>1. ~(ir - i + 1 >= j - l)
      BY <2>2 DEF RightLarger
    <3> QED
      BY <1>0, <1>1, <1>4, <2>2, <3>1 DEF Sides
  <2> QED
    BY <2>1, <2>2
<1>13. l' = cl /\ ir' = cr
  BY <1>1
<1>14. /\ istack' \in [0 .. NSTACK - 1 -> Int]
       /\ istack'[jstack + 2] = pr /\ istack'[jstack + 1] = pl
       /\ \A k \in 0 .. jstack : istack'[k] = istack[k]
  <2>1. pl \in Int /\ pr \in Int
    BY <1>0
  <2>2. istack' = [istack EXCEPT ![jstack + 2] = pr, ![jstack + 1] = pl]
    BY <1>1
  <2> HIDE DEF pl, pr
  <2>3. /\ istack' \in [0 .. NSTACK - 1 -> Int]
        /\ istack'[jstack + 2] = pr /\ istack'[jstack + 1] = pl
    BY <1>3, <1>8, <2>1, <2>2, SMTT(30)
  <2>4. ASSUME NEW k \in 0 .. jstack PROVE istack'[k] = istack[k]
    <3>0. /\ jstack \in Nat /\ NSTACK \in Nat /\ k \in 0 .. jstack
          /\ jstack + 2 \in 0 .. NSTACK - 1
      BY <1>3, <1>5, <1>8
    <3>1. k \in 0 .. NSTACK - 1 /\ k # jstack + 2 /\ k # jstack + 1
      BY <3>0
    <3> QED
      BY <1>3, <2>2, <3>1
  <2> QED
    BY <2>3, <2>4
<1> DEFINE nlo(k) == istack'[2 * k - 1]
           nhi(k) == istack'[2 * k]
<1>15. /\ nlo(D + 1) = pl /\ nhi(D + 1) = pr
       /\ \A k \in 1 .. D : nlo(k) = Lo(k) /\ nhi(k) = Hi(k)
  <2>1. \A k \in 1 .. D : 2 * k - 1 \in 0 .. jstack /\ 2 * k \in 0 .. jstack
    BY <1>3, <1>8 DEF D
  <2> HIDE DEF pl, pr
  <2>3. istack'[2 * (D + 1) - 1] = pl /\ istack'[2 * (D + 1)] = pr
    BY <1>8, <1>14
  <2> QED
    BY <1>14, <2>1, <2>3 DEF Lo, Hi
<1> HIDE DEF cl, cr, pl, pr, nlo, nhi
<1>16. /\ cl \in Int /\ cr \in Int /\ pl \in Int /\ pr \in Int
       /\ l <= cl /\ cl <= cr /\ cr <= ir /\ l <= pl /\ pl <= pr /\ pr <= ir
       /\ cr < pl \/ pr < cl
  BY <1>0, <1>1, <1>4, <1>12 DEF Sides
<1>17. SegmentsInv'
  <2>1. \A k \in 1 .. D + 1 : k \in 1 .. D \/ k = D + 1
    BY <1>8
  <2>2. \A k \in 1 .. D : Lo(k) \in Int /\ Hi(k) \in Int /\ Lo(k) <= Hi(k)
    BY <1>0, <1>11
  <2>3. \A k \in 1 .. D + 1 : nlo(k) \in 1 .. DATA_SIZE /\ nhi(k) \in nlo(k) .. DATA_SIZE
    <3>1. pl \in 1 .. DATA_SIZE /\ pr \in pl .. DATA_SIZE
      BY <1>0, <1>16
    <3> QED
      BY <1>11, <1>15, <2>1, <3>1
  <2>4. \A k \in 1 .. D + 1 : nhi(k) < cl \/ cr < nlo(k)
    <3>1. \A k \in 1 .. D : Hi(k) < cl \/ cr < Lo(k)
      BY <1>0, <1>11, <1>16, <2>2
    <3> QED
      BY <1>15, <1>16, <2>1, <3>1
  <2>5. \A k, m \in 1 .. D + 1 : k # m => nhi(k) < nlo(m) \/ nhi(m) < nlo(k)
    <3>1. \A k \in 1 .. D : Hi(k) < pl \/ pr < Lo(k)
      BY <1>0, <1>11, <1>16, <2>2
    <3> QED
      BY <1>11, <1>15, <2>1, <3>1
  <2>6. 1 <= cl /\ cl <= cr /\ cr <= DATA_SIZE
    BY <1>0, <1>16
  <2> QED
    BY <1>9, <1>10, <1>13, <2>3, <2>4, <2>5, <2>6 DEF SegmentsInv, Lo, Hi, nlo, nhi
<1>18. SizesInv(h, d)'
  <2>1. \A k \in 1 .. D + 1 : k \in 1 .. D \/ k = D + 1
    BY <1>8
  <2>2. ir - l + 1 <= h[D] /\ h[D] \in Nat /\ h[D + 1] \in Nat /\ h[D] <= 2 * h[D + 1] + 1
    BY <1>5, <1>6, <1>8 DEF D
  <2>3. cr - cl + 1 <= h[D + 1]
    BY <1>0, <1>12, <1>16, <2>2
  <2>4. pr - pl + 1 <= h[D]
    BY <1>0, <1>16, <2>2
  <2>5. \A k \in 1 .. D + 1 : nhi(k) - nlo(k) + 1 <= h[k - 1]
    <3>1. (D + 1) - 1 = D
      BY <1>8
    <3> QED
      BY <1>11, <1>15, <2>1, <2>4, <3>1
  <2>6. D + 1 \in 0 .. d
    BY <1>5, <1>8
  <2> QED
    BY <1>9, <1>13, <2>3, <2>5, <2>6 DEF SizesInv, Lo, Hi, nlo, nhi
<1> DEFINE n == DATA_SIZE
           y0 == j - 1
<1>19. /\ n \in Nat /\ arr \in Data(n) /\ Between(n, l, ir, l) /\ Between(n, l, ir, y0)
       /\ l \in 0 .. n - 1 /\ y0 \in 0 .. n - 1
  BY <1>0, <1>00, <1>4 DEF Between
<1>20. arr' = Swap(arr, l, y0)
  BY <1>1, <1>4 DEF Swap
<1> HIDE DEF n, y0
<1>21. /\ Rearranged(arr, arr', l, ir)
       /\ arr'[l] = arr[y0] /\ arr'[y0] = arr[l]
       /\ SameBut(n, arr, arr', l, y0)
  BY <1>0, <1>19, <1>20, SwapFacts DEF SameBut
<1>22. arr' \in Data(DATA_SIZE) /\ OrderIn(arr') /\ Rearranged(input_data, arr', 1, DATA_SIZE)
  <2>1. pc # "done"
    BY <1>1
  <2> QED
    BY <1>21, <2>1, OutsideUndisturbed
<1>23. arr[y0] <= a /\ arr[y0] \in Int
  <2>1. j \in 1 .. DATA_SIZE
    BY <1>0, <1>4
  <2> QED
    BY <1>0, <1>00, <1>4, <2>1 DEF AtMost, y0
<1>24. \A z \in l .. ir : z # l + 1 /\ z # j => arr'[z - 1] = arr[z - 1]
  <2> SUFFICES ASSUME NEW z \in l .. ir, z # l + 1, z # j PROVE arr'[z - 1] = arr[z - 1]
    OBVIOUS
  <2>1. z - 1 \in 0 .. n - 1 /\ z - 1 # l /\ z - 1 # y0
    BY <1>0 DEF n, y0
  <2> QED
    BY <1>21, <2>1 DEF SameBut
<1>25. \A z \in l .. ir : z <= i - 1 => arr'[z - 1] <= a
  <2> SUFFICES ASSUME NEW z \in l .. ir, z <= i - 1 PROVE arr'[z - 1] <= a
    OBVIOUS
  <2>1. CASE z = l + 1
    <3>1. z - 1 = l
      BY <1>0, <2>1
    <3> QED
      BY <1>21, <1>23, <3>1
  <2>2. CASE z = j
    BY <1>0, <1>4, <1>21, <2>2 DEF y0
  <2>3. CASE z # l + 1 /\ z # j
    <3>1. z \in l .. i - 1
      BY <1>0
    <3> QED
      BY <1>4, <1>24, <2>3, <3>1 DEF AtMost
  <2> QED
    BY <2>1, <2>2, <2>3
<1>26. \A z \in l .. ir : j <= z => arr'[z - 1] >= a
  <2> SUFFICES ASSUME NEW z \in l .. ir, j <= z PROVE arr'[z - 1] >= a
    OBVIOUS
  <2>1. CASE z = j
    BY <1>0, <1>4, <1>21, <2>1 DEF y0
  <2>2. CASE z # j
    <3>1. z \in j + 1 .. ir /\ z # l + 1
      BY <1>0, <1>4, <2>2
    <3> QED
      BY <1>4, <1>24, <2>2, <3>1 DEF AtLeast
  <2> QED
    BY <2>1, <2>2
<1>27. OrderInv'
  <2> SUFFICES ASSUME NEW x \in 1 .. DATA_SIZE, NEW y \in 1 .. DATA_SIZE, x < y,
                      ~(arr'[x - 1] <= arr'[y - 1])
               PROVE  Together(x, y)'
    BY <1>10 DEF OrderInv, OrderIn
  <2>0. x \in Int /\ y \in Int
    BY <1>0
  <2>1. Together(x, y)
    BY <1>22 DEF OrderIn
  <2>2. CASE l <= x /\ y <= ir
    <3>1. x \in l .. ir /\ y \in l .. ir
      BY <1>0, <2>0, <2>2
    <3>2. arr'[x - 1] \in Int /\ arr'[y - 1] \in Int
      <4>1. x - 1 \in 0 .. DATA_SIZE - 1 /\ y - 1 \in 0 .. DATA_SIZE - 1
        BY <1>0
      <4> QED
        BY <1>22, <4>1 DEF Data
    <3>3. y <= j - 1 \/ i <= x
      <4> SUFFICES ASSUME ~(y <= j - 1), ~(i <= x) PROVE FALSE
        OBVIOUS
      <4>1. j <= y /\ x <= i - 1
        BY <1>0, <2>0
      <4>2. arr'[x - 1] <= a /\ a <= arr'[y - 1]
        BY <1>0, <1>25, <1>26, <3>1, <3>2, <4>1
      <4> QED
        BY <1>0, <3>2, <4>2
    <3>4. (cl <= x /\ y <= cr) \/ (pl <= x /\ y <= pr)
      BY <1>12, <2>2, <3>3 DEF Sides
    <3>5. D + 1 \in 1 .. D + 1
      BY <1>8
    <3> QED
      BY <1>9, <1>13, <1>15, <3>4, <3>5 DEF Together, Lo, Hi, nlo, nhi
  <2>3. CASE \E k \in 1 .. D : Lo(k) <= x /\ y <= Hi(k)
    <3>1. PICK k \in 1 .. D : Lo(k) <= x /\ y <= Hi(k)
      BY <2>3
    <3>2. k \in 1 .. D + 1 /\ nlo(k) <= x /\ y <= nhi(k)
      BY <1>8, <1>15, <3>1
    <3> QED
      BY <1>9, <3>2 DEF Together, Lo, Hi, nlo, nhi
  <2> QED
    BY <2>1, <2>2, <2>3 DEF Together, D
<1>28. TypeInv'
  <2>1. jstack' \in Nat /\ jstack' = 2 * Depth'
    BY <1>1, <1>3, <1>8, <1>9
  <2>2. /\ input_data \in Inputs /\ DATA_SIZE \in Nat /\ input_data \in Data(DATA_SIZE)
        /\ i \in Int /\ j \in Int /\ a \in Int
    BY <1>2 DEF TypeInv
  <2> QED
    BY <1>1, <1>10, <1>13, <1>14, <1>16, <1>22, <2>1, <2>2 DEF TypeInv
<1>29. PhaseInv' /\ LargeInv' /\ DoneInv'
  BY <1>1 DEF PhaseInv, LargeInv, DoneInv
<1> QED
  BY <1>1, <1>10, <1>17, <1>18, <1>22, <1>27, <1>28, <1>29 DEF SortInv

-----------------------------------------------------------------------------
(* Another order has as many values in any set.                            *)
HowMany(n, f, S) == Cardinality({m \in 0 .. n - 1 : f[m] \in S})

LEMMA SameCount ==
  ASSUME NEW n \in Nat, NEW f \in Data(n), NEW g, NEW lo, NEW hi,
         Rearranged(f, g, lo, hi), NEW S
  PROVE  HowMany(n, g, S) = HowMany(n, f, S)
<1> DEFINE D == 0 .. n - 1
<1>0. IsFiniteSet(D) /\ DOMAIN f = D
  BY FS_Interval DEF Data
<1> HIDE DEF D
<1>1. PICK p \in Bijection(D, D) : g = [m \in D |-> f[p[m]]]
  BY <1>0 DEF Rearranged
<1> DEFINE G == {m \in D : g[m] \in S}
           F == {m \in D : f[m] \in S}
           q == [m \in G |-> p[m]]
<1>2. /\ p \in [D -> D] /\ \A m, k \in D : p[m] = p[k] => m = k
      /\ \A k \in D : \E m \in D : p[m] = k
  BY DEF Bijection, Injection, Surjection, IsInjective
<1>3. q \in [G -> F]
  BY <1>1, <1>2
<1>4. \A m, k \in G : q[m] = q[k] => m = k
  BY <1>2
<1>5. \A k \in F : \E m \in G : q[m] = k
  BY <1>1, <1>2
<1>6. q \in Bijection(G, F)
  <2> HIDE DEF q, G, F
  <2> QED
    BY <1>3, <1>4, <1>5 DEF Bijection, Injection, Surjection, IsInjective
<1>7. ExistsBijection(G, F)
  BY <1>6 DEF ExistsBijection
<1>8. IsFiniteSet(G)
  BY <1>0, FS_Subset
<1> HIDE DEF q, G, F
<1>9. Cardinality(F) = Cardinality(G)
  BY <1>7, <1>8, FS_Bijection
<1> QED
  BY <1>9 DEF G, F, D, HowMany

(* In order, the element at k is the one that the sorted data must have    *)
(* there.                                                                  *)
LEMMA OrderDecides ==
  ASSUME NEW n \in Nat, NEW g \in Data(n), InOrder(g, 1, n), NEW k \in 0 .. n - 1
  PROVE  /\ Cardinality({m \in 0 .. n - 1 : g[m] < g[k]}) <= k
         /\ k < Cardinality({m \in 0 .. n - 1 : g[m] <= g[k]})
<1>0. \A m, q \in 0 .. n - 1 : m <= q => g[m] <= g[q]
  <2> SUFFICES ASSUME NEW m \in 0 .. n - 1, NEW q \in 0 .. n - 1, m <= q
               PROVE  g[m] <= g[q]
    OBVIOUS
  <2>1. /\ m + 1 \in 1 .. n /\ q + 1 \in 1 .. n /\ m + 1 <= q + 1
        /\ (m + 1) - 1 = m /\ (q + 1) - 1 = q
    OBVIOUS
  <2>2. g[(m + 1) - 1] <= g[(q + 1) - 1]
    BY <2>1 DEF InOrder
  <2> QED
    BY <2>1, <2>2
<1>1. \A m \in 0 .. n - 1 : g[m] \in Int
  BY DEF Data
<1> DEFINE L == {m \in 0 .. n - 1 : g[m] < g[k]}
           U == {m \in 0 .. n - 1 : g[m] <= g[k]}
<1>2. L \subseteq 0 .. k - 1
  <2> SUFFICES ASSUME NEW m \in 0 .. n - 1, g[m] < g[k], ~(m <= k - 1) PROVE FALSE
    OBVIOUS
  <2>1. g[k] <= g[m]
    BY <1>0
  <2> QED
    BY <1>1, <2>1
<1>3. 0 .. k \subseteq U
  <2> SUFFICES ASSUME NEW m \in 0 .. k PROVE m \in 0 .. n - 1 /\ g[m] <= g[k]
    OBVIOUS
  <2> QED
    BY <1>0
<1>4. /\ IsFiniteSet(0 .. k - 1) /\ Cardinality(0 .. k - 1) = k
      /\ Cardinality(0 .. k) = k + 1
      /\ IsFiniteSet(U)
  <2>1. U \subseteq 0 .. n - 1
    OBVIOUS
  <2>2. IsFiniteSet(0 .. n - 1)
    BY FS_Interval
  <2>3. IsFiniteSet(U)
    BY <2>1, <2>2, FS_Subset
  <2>4. IsFiniteSet(0 .. k - 1) /\ Cardinality(0 .. k - 1) = k
    <3>1. 0 \in Int /\ k - 1 \in Int
      OBVIOUS
    <3>2. /\ IsFiniteSet(0 .. k - 1)
          /\ Cardinality(0 .. k - 1) = IF 0 > k - 1 THEN 0 ELSE (k - 1) - 0 + 1
      BY <3>1, FS_Interval
    <3> QED
      BY <3>2
  <2>5. Cardinality(0 .. k) = k + 1
    <3>2. Cardinality(0 .. k) = IF 0 > k THEN 0 ELSE k - 0 + 1
      BY FS_Interval
    <3> QED
      BY <3>2
  <2> QED
    BY <2>3, <2>4, <2>5
<1> HIDE DEF L, U
<1>5. Cardinality(L) <= k
  BY <1>2, <1>4, FS_Subset
<1>6. k + 1 <= Cardinality(U) /\ Cardinality(U) \in Nat
  BY <1>3, <1>4, FS_Subset, FS_CardinalityType
<1>7. k < Cardinality(U)
  BY <1>6
<1> QED
  BY <1>5, <1>7 DEF L, U

(* The data in order are the data that verify compares with.               *)
LEMMA VerifyRight ==
  ASSUME NEW n \in Nat, input_data \in Data(n), NEW g, Rearranged(input_data, g, 1, n),
         InOrder(g, 1, n)
  PROVE  g = verify_data
<1> DEFINE f == input_data
           Below(e, v) == {m \in 0 .. n - 1 : e[m] < v}
           UpTo(e, v) == {m \in 0 .. n - 1 : e[m] <= v}
           Fits(k, v) == Cardinality(Below(f, v)) <= k /\ k < Cardinality(UpTo(f, v))
<1>0. DOMAIN input_data = 0 .. n - 1
  BY DEF Data
<1>1. g \in Data(n) /\ f \in Data(n)
  BY RearrangedValues
<1>2. \A v \in Int : /\ Cardinality(Below(g, v)) = Cardinality(Below(f, v))
                     /\ Cardinality(UpTo(g, v)) = Cardinality(UpTo(f, v))
  <2> SUFFICES ASSUME NEW v \in Int
               PROVE  /\ Cardinality(Below(g, v)) = Cardinality(Below(f, v))
                      /\ Cardinality(UpTo(g, v)) = Cardinality(UpTo(f, v))
    OBVIOUS
  <2>1. /\ \A m \in 0 .. n - 1 : g[m] \in Int /\ f[m] \in Int
    BY <1>1 DEF Data
  <2> DEFINE S == {x \in Int : x < v}
             U == {x \in Int : x <= v}
  <2>2. /\ Cardinality({m \in 0 .. n - 1 : g[m] \in S}) = Cardinality({m \in 0 .. n - 1 : f[m] \in S})
        /\ Cardinality({m \in 0 .. n - 1 : g[m] \in U}) = Cardinality({m \in 0 .. n - 1 : f[m] \in U})
    <3> HIDE DEF S, U
    <3>1. HowMany(n, g, S) = HowMany(n, f, S) /\ HowMany(n, g, U) = HowMany(n, f, U)
      BY SameCount
    <3> QED
      BY <3>1 DEF HowMany
  <2>3. /\ {m \in 0 .. n - 1 : g[m] \in S} = Below(g, v)
        /\ {m \in 0 .. n - 1 : f[m] \in S} = Below(f, v)
        /\ {m \in 0 .. n - 1 : g[m] \in U} = UpTo(g, v)
        /\ {m \in 0 .. n - 1 : f[m] \in U} = UpTo(f, v)
    BY <2>1
  <2> QED
    BY <2>2, <2>3
<1>3. ASSUME NEW k \in 0 .. n - 1
      PROVE  g[k] = CHOOSE v \in Range(f) : Fits(k, v)
  <2>1. g[k] \in Int /\ g[k] \in Range(f)
    <3>1. k + 1 \in 1 .. n
      OBVIOUS
    <3>2. PICK q \in 0 .. n - 1 : g[k] = f[q]
      BY <1>1, <3>1, RearrangedValues
    <3> QED
      BY <1>0, <1>1, <3>2 DEF Data, Range
  <2>2. Cardinality(Below(g, g[k])) <= k /\ k < Cardinality(UpTo(g, g[k]))
    BY <1>1, OrderDecides
  <2>3. Fits(k, g[k])
    <3> HIDE DEF Below, UpTo, f
    <3> QED
      BY <1>2, <2>1, <2>2
  <2>4. ASSUME NEW v \in Int, NEW w \in Int, Fits(k, v), Fits(k, w) PROVE ~(v < w)
    <3> SUFFICES ASSUME v < w PROVE FALSE
      OBVIOUS
    <3>1. UpTo(f, v) \subseteq Below(f, w)
      <4>1. \A m \in 0 .. n - 1 : f[m] \in Int
        BY <1>1 DEF Data
      <4> QED
        BY <4>1
    <3>2. IsFiniteSet(Below(f, w))
      <4>1. IsFiniteSet(0 .. n - 1)
        BY FS_Interval
      <4>2. Below(f, w) \subseteq 0 .. n - 1
        OBVIOUS
      <4> QED
        BY <4>1, <4>2, FS_Subset
    <3>3. /\ Cardinality(UpTo(f, v)) <= Cardinality(Below(f, w))
          /\ Cardinality(UpTo(f, v)) \in Nat /\ Cardinality(Below(f, w)) \in Nat
      <4> HIDE DEF Below, UpTo
      <4> QED
        BY <3>1, <3>2, FS_Subset, FS_CardinalityType
    <3>4. k < Cardinality(UpTo(f, v)) /\ Cardinality(Below(f, w)) <= k
      BY <2>4
    <3> HIDE DEF Below, UpTo
    <3> QED
      BY <3>3, <3>4
  <2>5. \A v \in Range(f) : v \in Int
    BY <1>0, <1>1 DEF Range, Data
  <2>6. \A v \in Range(f) : Fits(k, v) => v = g[k]
    <3> SUFFICES ASSUME NEW v \in Range(f), Fits(k, v) PROVE v = g[k]
      OBVIOUS
    <3>1. v \in Int /\ ~(v < g[k]) /\ ~(g[k] < v)
      BY <2>1, <2>3, <2>4, <2>5
    <3> QED
      BY <2>1, <3>1
  <2> HIDE DEF Fits, f
  <2> QED
    BY <2>1, <2>3, <2>6
<1>4. verify_data = [k \in 0 .. n - 1 |-> CHOOSE v \in Range(f) : Fits(k, v)]
  BY <1>0 DEF verify_data
<1>5. g = [k \in 0 .. n - 1 |-> g[k]]
  BY <1>1 DEF Data
<1> HIDE DEF Fits, f
<1> QED
  BY <1>3, <1>4, <1>5

LEMMA MainStep ==
  ASSUME NEW h, NEW d, SortInv(h, d), main PROVE SortInv(h, d)'
<1>0. /\ DATA_SIZE \in Nat /\ l \in Int /\ ir \in Int /\ j \in Int
      /\ 1 <= l /\ l <= ir /\ ir <= DATA_SIZE
      /\ \A x \in 1 .. DATA_SIZE : arr[x - 1] \in Int
  BY SortTypes
<1>1. /\ pc = "insert" /\ pc' = "done" /\ j > ir /\ jstack = 0
      /\ verdict' = verify(arr, verify_data)
      /\ input_data' = input_data /\ arr' = arr /\ l' = l /\ ir' = ir /\ i' = i /\ j' = j
      /\ a' = a /\ jstack' = jstack /\ istack' = istack
  BY DEF main
<1>2. /\ TypeInv /\ SegmentsInv /\ SizesInv(h, d) /\ OrderInv /\ InOrder(arr, l, j - 1)
      /\ Rearranged(input_data, arr, 1, DATA_SIZE)
  BY <1>1 DEF SortInv, PhaseInv
<1>3. Depth = 0
  BY <1>1 DEF Depth
<1>4. InOrder(arr, 1, DATA_SIZE)
  <2> SUFFICES ASSUME NEW x \in 1 .. DATA_SIZE, NEW y \in 1 .. DATA_SIZE, x <= y
               PROVE  arr[x - 1] <= arr[y - 1]
    BY DEF InOrder
  <2>0. x \in Int /\ y \in Int
    BY <1>0
  <2>1. CASE x = y
    BY <1>0, <2>1
  <2>2. CASE l <= x /\ y <= ir
    <3>1. x \in l .. j - 1 /\ y \in l .. j - 1
      BY <1>0, <1>1, <2>0, <2>2
    <3> QED
      BY <1>2, <3>1 DEF InOrder
  <2>3. CASE x # y /\ ~(l <= x /\ y <= ir)
    <3>1. x < y
      BY <2>0, <2>3
    <3>2. arr[x - 1] <= arr[y - 1] \/ Together(x, y)
      BY <1>2, <3>1 DEF OrderInv, OrderIn
    <3> QED
      BY <1>3, <2>3, <3>2 DEF Together
  <2> QED
    BY <2>1, <2>2, <2>3
<1> DEFINE n == DATA_SIZE
<1>5. /\ n \in Nat /\ input_data \in Data(n) /\ Rearranged(input_data, arr, 1, n)
      /\ InOrder(arr, 1, n)
  BY <1>0, <1>2, <1>4 DEF TypeInv
<1> HIDE DEF n
<1>6. arr = verify_data
  BY <1>5, VerifyRight
<1>7. verdict' = 1
  BY <1>1, <1>6 DEF verify
<1>8. DATA_SIZE' = DATA_SIZE /\ Depth' = Depth
  BY <1>1 DEF DATA_SIZE, Depth
<1>9. DoneInv'
  BY <1>1, <1>4, <1>7, <1>8 DEF DoneInv, InOrder
<1>10. TypeInv' /\ SegmentsInv' /\ SizesInv(h, d)'
  BY <1>1, <1>2, <1>8 DEF TypeInv, SegmentsInv, SizesInv, Lo, Hi
<1>11. PhaseInv' /\ LargeInv'
  BY <1>1 DEF PhaseInv, LargeInv
<1> QED
  BY <1>1, <1>2, <1>8, <1>9, <1>10, <1>11 DEF SortInv

LEMMA InitStep ==
  ASSUME NEW h, NEW d, IsHalving(h, d), Init PROVE SortInv(h, d)
<1> DEFINE n == DATA_SIZE
<1>1. n \in Nat \ {0} /\ input_data \in [0 .. n - 1 -> Int]
  BY SortAssumption DEF Init, DATA_SIZE
<1>2. DATA_SIZE = n
  OBVIOUS
<1> HIDE DEF n
<1>3. /\ input_data \in Inputs /\ arr = input_data /\ pc = "segment" /\ l = 1 /\ ir = n
      /\ i = 0 /\ j = 0 /\ a = 0 /\ jstack = 0 /\ istack = [k \in 0 .. NSTACK - 1 |-> 0]
  BY <1>2 DEF Init
<1>4. Depth = 0
  BY <1>3 DEF Depth
<1>5. TypeInv
  <2>1. istack \in [0 .. NSTACK - 1 -> Int] /\ jstack \in Nat /\ jstack = 2 * Depth
    BY <1>3, <1>4
  <2> QED
    BY <1>1, <1>2, <1>3, <2>1 DEF TypeInv, Data
<1>6. SegmentsInv
  BY <1>1, <1>2, <1>3, <1>4 DEF SegmentsInv
<1>7. SizesInv(h, d)
  <2>1. d \in Nat /\ DATA_SIZE <= h[0]
    BY <1>3 DEF IsHalving, DATA_SIZE
  <2> QED
    BY <1>1, <1>2, <1>3, <1>4, <2>1 DEF SizesInv
<1>8. OrderInv
  <2> SUFFICES ASSUME NEW x \in 1 .. n, NEW y \in 1 .. n PROVE Together(x, y)
    BY <1>2 DEF OrderInv, OrderIn
  <2> QED
    BY <1>1, <1>3 DEF Together
<1>9. Rearranged(input_data, arr, 1, DATA_SIZE)
  <2>1. input_data \in Data(n) /\ n \in Nat
    BY <1>1 DEF Data
  <2>2. Rearranged(input_data, input_data, 1, n)
    BY <2>1, NotRearranged
  <2> QED
    BY <1>2, <1>3, <2>2
<1>10. PhaseInv /\ LargeInv /\ DoneInv
  BY <1>3 DEF PhaseInv, LargeInv, DoneInv
<1> QED
  BY <1>5, <1>6, <1>7, <1>8, <1>9, <1>10 DEF SortInv

LEMMA SortStep ==
  ASSUME NEW h, NEW d, IsHalving(h, d), SortInv(h, d), [Next]_vars
  PROVE  SortInv(h, d)'
<1>1. CASE Next
  BY <1>1, StartInsertionStep, InsertStep, PopStep, MainStep, StartPartitionStep, ScanUpStep,
     ScanDownStep, ExchangeStep, PushStep DEF Next
<1>2. CASE UNCHANGED vars
  <2>1. /\ pc' = pc /\ input_data' = input_data /\ arr' = arr /\ l' = l /\ ir' = ir /\ i' = i
        /\ j' = j /\ a' = a /\ jstack' = jstack /\ istack' = istack /\ verdict' = verdict
    BY <1>2 DEF vars
  <2>2. DATA_SIZE' = DATA_SIZE /\ Depth' = Depth
    BY <2>1 DEF DATA_SIZE, Depth
  <2>3. TypeInv' /\ SegmentsInv' /\ SizesInv(h, d)'
    BY <2>1, <2>2 DEF SortInv, TypeInv, SegmentsInv, SizesInv, Lo, Hi
  <2>4. PhaseInv'
    BY <2>1 DEF SortInv, PhaseInv, AtMost, AtLeast, InOrder
  <2>5. LargeInv' /\ DoneInv'
    BY <2>1, <2>2 DEF SortInv, LargeInv, Small, DoneInv, InOrder
  <2>6. pc # "done" => OrderInv'
    BY <2>1, <2>2 DEF SortInv, OrderInv, OrderIn, Together, Lo, Hi
  <2>7. Rearranged(input_data, arr, 1, DATA_SIZE)'
    BY <2>1, <2>2 DEF SortInv
  <2> QED
    BY <2>1, <2>3, <2>4, <2>5, <2>6, <2>7 DEF SortInv
<1> QED
  BY <1>1, <1>2

LEMMA AlwaysSorting ==
  ASSUME NEW h, NEW d, IsHalving(h, d)
  PROVE  Spec => []SortInv(h, d)
<1>1. Init => SortInv(h, d)
  BY InitStep
<1>2. SortInv(h, d) /\ [Next]_vars => SortInv(h, d)'
  BY SortStep
<1> QED
  BY <1>1, <1>2, PTL DEF Spec

-----------------------------------------------------------------------------
(* The scans of the partitioning test no bound: the median at one end and  *)
(* what is at least as large at the other stop them inside the segment,    *)
(* and so does each exchange after it.                                     *)
THEOREM ScansAlwaysStop ==
  ASSUME HalvingsFit
  PROVE  Spec => []ScansStop
<1>1. PICK h, d : IsHalving(h, d)
  BY DEF HalvingsFit
<1>2. SortInv(h, d) => ScansStop
  <2> SUFFICES ASSUME SortInv(h, d) PROVE ScansStop
    OBVIOUS
  <2>1. PhaseInv /\ TypeInv
    BY DEF SortInv
  <2>2. (pc = "scan_up" => i <= ir) /\ (pc = "scan_down" => l < j)
    BY <2>1 DEF PhaseInv, TypeInv
  <2> QED
    BY <2>1, <2>2 DEF ScansStop, PhaseInv
<1>3. Spec => []SortInv(h, d)
  BY <1>1, AlwaysSorting
<1> QED
  BY <1>2, <1>3, PTL

(* Two elements out of order are in one pending segment: a partitioning    *)
(* puts everything on its side and no side is lost from the stack.         *)
THEOREM OutsideAlwaysInOrder ==
  ASSUME HalvingsFit
  PROVE  Spec => []OutsideInOrder
<1>1. PICK h, d : IsHalving(h, d)
  BY DEF HalvingsFit
<1>2. SortInv(h, d) => OutsideInOrder
  <2> SUFFICES ASSUME SortInv(h, d), pc = "segment", NEW x \in 1 .. DATA_SIZE,
                      NEW y \in 1 .. DATA_SIZE, x < y
               PROVE  \/ arr[x - 1] <= arr[y - 1]
                      \/ \E s \in Pending : s[1] <= x /\ y <= s[2]
    BY DEF OutsideInOrder
  <2>1. arr[x - 1] <= arr[y - 1] \/ Together(x, y)
    BY DEF SortInv, OrderInv, OrderIn
  <2>2. CASE l <= x /\ y <= ir
    <3>1. <<l, ir>> \in Pending
      BY DEF Pending
    <3> QED
      BY <2>2, <3>1
  <2>3. CASE \E k \in 1 .. Depth : Lo(k) <= x /\ y <= Hi(k)
    <3>1. PICK k \in 1 .. Depth : Lo(k) <= x /\ y <= Hi(k)
      BY <2>3
    <3>2. <<Lo(k), Hi(k)>> \in Pending
      BY DEF Pending, Lo, Hi, Depth
    <3> QED
      BY <3>1, <3>2
  <2> QED
    BY <2>1, <2>2, <2>3 DEF Together
<1>3. Spec => []SortInv(h, d)
  BY <1>1, AlwaysSorting
<1> QED
  BY <1>2, <1>3, PTL

(* Pushing the larger side and halving the data keeps the stack small.     *)
THEOREM StackAlwaysSuffices ==
  ASSUME HalvingsFit
  PROVE  Spec => []StackSuffices
<1>1. PICK h, d : IsHalving(h, d)
  BY DEF HalvingsFit
<1>2. SortInv(h, d) => StackSuffices
  <2> SUFFICES ASSUME SortInv(h, d) PROVE jstack < NSTACK
    BY DEF StackSuffices
  <2>1. Depth \in 0 .. d /\ jstack = 2 * Depth
    BY DEF SortInv, SizesInv, TypeInv
  <2>2. d \in Nat /\ 2 * d < NSTACK /\ NSTACK \in Nat
    BY <1>1, SortAssumption DEF IsHalving
  <2> QED
    BY <2>1, <2>2
<1>3. Spec => []SortInv(h, d)
  BY <1>1, AlwaysSorting
<1> QED
  BY <1>2, <1>3, PTL

(* What main reports is true: the array is in order, each value is there   *)
(* as often as in the input, and verify compares with just that.           *)
THEOREM SortsData ==
  ASSUME HalvingsFit
  PROVE  Spec => []Sorted
<1>1. PICK h, d : IsHalving(h, d)
  BY DEF HalvingsFit
<1>2. SortInv(h, d) => Sorted
  <2> SUFFICES ASSUME SortInv(h, d), pc = "done"
               PROVE  /\ verdict = 1
                      /\ \A k \in DOMAIN arr : k - 1 \in DOMAIN arr => arr[k - 1] <= arr[k]
                      /\ \A v : Cardinality({k \in DOMAIN arr : arr[k] = v})
                                  = Cardinality({k \in DOMAIN input_data : input_data[k] = v})
    BY DEF Sorted
  <2> DEFINE n == DATA_SIZE
  <2>1. /\ verdict = 1 /\ InOrder(arr, 1, n) /\ Rearranged(input_data, arr, 1, n)
        /\ n \in Nat /\ arr \in Data(n) /\ input_data \in Data(n)
    BY DEF SortInv, DoneInv, TypeInv
  <2> HIDE DEF n
  <2>2. DOMAIN arr = 0 .. n - 1 /\ DOMAIN input_data = 0 .. n - 1
    BY <2>1 DEF Data
  <2>3. ASSUME NEW k \in 0 .. n - 1, k - 1 \in 0 .. n - 1 PROVE arr[k - 1] <= arr[k]
    <3>1. k \in 1 .. n /\ k + 1 \in 1 .. n /\ k <= k + 1 /\ (k + 1) - 1 = k
      BY <2>1, <2>3
    <3>2. arr[k - 1] <= arr[(k + 1) - 1]
      BY <2>1, <3>1 DEF InOrder
    <3> QED
      BY <3>1, <3>2
  <2>4. ASSUME NEW v
        PROVE  Cardinality({k \in 0 .. n - 1 : arr[k] = v})
                 = Cardinality({k \in 0 .. n - 1 : input_data[k] = v})
    <3>1. HowMany(n, arr, {v}) = HowMany(n, input_data, {v})
      BY <2>1, SameCount
    <3>2. /\ {k \in 0 .. n - 1 : arr[k] \in {v}} = {k \in 0 .. n - 1 : arr[k] = v}
          /\ {k \in 0 .. n - 1 : input_data[k] \in {v}} = {k \in 0 .. n - 1 : input_data[k] = v}
      OBVIOUS
    <3> QED
      BY <3>1, <3>2 DEF HowMany
  <2> QED
    BY <2>1, <2>2, <2>3, <2>4
<1>3. Spec => []SortInv(h, d)
  BY <1>1, AlwaysSorting
<1> QED
  BY <1>2, <1>3, PTL

-----------------------------------------------------------------------------
(* The lists of towers_main.c.                                             *)
Nth(s, k) == IF k \in 1 .. Len(s) THEN s[k] ELSE 0

LEMMA ConsFacts ==
  ASSUME NEW S, NEW s \in Seq(S), NEW n \in S
  PROVE  /\ Cons(n, s) \in Seq(S) /\ Len(Cons(n, s)) = Len(s) + 1
         /\ Cons(n, s)[1] = n
         /\ \A k \in 1 .. Len(s) : Cons(n, s)[k + 1] = s[k]
<1>1. <<n>> \in Seq(S) /\ Len(<<n>>) = 1 /\ <<n>>[1] = n
  OBVIOUS
<1>2. Cat(<<n>>, s) \in Seq(S) /\ Len(Cat(<<n>>, s)) = 1 + Len(s)
  BY <1>1, CatType
<1>3. \A k \in 1 .. 1 + Len(s) : Cat(<<n>>, s)[k] = IF k <= 1 THEN <<n>>[k] ELSE s[k - 1]
  BY <1>1, CatElements
<1>4. Len(s) \in Nat
  OBVIOUS
<1>5. Cat(<<n>>, s) = Cons(n, s)
  BY DEF Cat, Cons
<1>6. Cons(n, s)[1] = n
  BY <1>1, <1>3, <1>4, <1>5
<1>7. ASSUME NEW k \in 1 .. Len(s)
      PROVE  Cons(n, s)[k + 1] = s[k]
  <2>1. k + 1 \in 1 .. 1 + Len(s) /\ ~(k + 1 <= 1) /\ (k + 1) - 1 = k
    BY <1>4
  <2> QED
    BY <1>3, <1>5, <2>1
<1> QED
  BY <1>2, <1>4, <1>5, <1>6, <1>7

(* The same for one who needs it by its elements.                          *)
IsCons(u, n, s) ==
    Len(u) = Len(s) + 1 /\ u[1] = n /\ \A k \in 1 .. Len(s) : u[k + 1] = s[k]

LEMMA ConsIs ==
  ASSUME NEW S, NEW s \in Seq(S), NEW n \in S
  PROVE  Cons(n, s) \in Seq(S) /\ IsCons(Cons(n, s), n, s)
<1> DEFINE u == Cons(n, s)
<1>1. /\ u \in Seq(S) /\ Len(u) = Len(s) + 1 /\ u[1] = n
      /\ \A k \in 1 .. Len(s) : u[k + 1] = s[k]
  BY ConsFacts
<1> HIDE DEF u
<1>2. IsCons(u, n, s)
  BY <1>1, Zenon DEF IsCons
<1> QED
  BY <1>1, <1>2 DEF u

(* What Chain computes, for any pool.                                      *)
ChainIn(pool, head) ==
    LET at == CHOOSE f : f = [k \in 1 .. NUM_DISCS + 1 |->
                  IF k = 1 THEN head ELSE IF f[k - 1] = 0 THEN 0 ELSE pool[f[k - 1]].next]
    IN  [k \in {m \in 1 .. NUM_DISCS + 1 : at[m] # 0} |-> at[k]]

LEMMA ChainIsIn ==
  /\ \A head : T!Chain(head) = ChainIn(g_nodePool, head)
  /\ \A head : T!Chain(head)' = ChainIn(g_nodePool', head)
BY DEF T!Chain, T!NIL, ChainIn

LEMMA ChainIs ==
  ASSUME NUM_DISCS \in Nat, NEW pool, NEW s \in Seq(T!Nodes), Len(s) <= NUM_DISCS,
         \A k \in 1 .. Len(s) : pool[s[k]].next = Nth(s, k + 1)
  PROVE  ChainIn(pool, Nth(s, 1)) = s
<1> DEFINE n == NUM_DISCS + 1
           F(f) == f = [k \in 1 .. NUM_DISCS + 1 |->
                          IF k = 1 THEN Nth(s, 1) ELSE IF f[k - 1] = 0 THEN 0
                          ELSE pool[f[k - 1]].next]
           at == CHOOSE f : F(f)
           g == [k \in 1 .. n |-> Nth(s, k)]
<1>1. Len(s) \in Nat /\ \A k \in 1 .. Len(s) : s[k] \in T!Nodes /\ s[k] # 0
  BY DEF T!Nodes
<1>2. \A k \in 1 .. n : g[k] = IF k = 1 THEN Nth(s, 1) ELSE IF g[k - 1] = 0 THEN 0
                                ELSE pool[g[k - 1]].next
  <2> SUFFICES ASSUME NEW k \in 1 .. n, k # 1
               PROVE  g[k] = IF g[k - 1] = 0 THEN 0 ELSE pool[g[k - 1]].next
    OBVIOUS
  <2>1. k - 1 \in 1 .. n /\ (k - 1) + 1 = k
    OBVIOUS
  <2>2. CASE k - 1 \in 1 .. Len(s)
    <3>1. g[k - 1] = s[k - 1] /\ g[k - 1] # 0
      BY <1>1, <2>1, <2>2 DEF Nth
    <3>2. pool[s[k - 1]].next = Nth(s, k)
      BY <2>1, <2>2
    <3> QED
      BY <3>1, <3>2
  <2>3. CASE k - 1 \notin 1 .. Len(s)
    BY <1>1, <2>1, <2>3 DEF Nth
  <2> QED
    BY <2>2, <2>3
<1>3. F(g)
  BY <1>2
<1>4. F(at)
  <2> HIDE DEF F
  <2> QED
    BY <1>3
<1>5. \A k \in 1 .. n : at[k] = IF k = 1 THEN Nth(s, 1) ELSE IF at[k - 1] = 0 THEN 0
                                ELSE pool[at[k - 1]].next
  <2> HIDE DEF at
  <2> QED
    BY <1>4
<1>6. DOMAIN at = 1 .. n
  <2> HIDE DEF at
  <2> QED
    BY <1>4
<1> HIDE DEF at, g
<1>7. \A k \in 1 .. n : at[k] = g[k]
  <2> DEFINE B == {k \in 1 .. n : at[k] # g[k]}
  <2> SUFFICES ASSUME B # {}
               PROVE  FALSE
    OBVIOUS
  <2>1. PICK k \in B : \A m \in B : k <= m
    <3>1. B \subseteq Nat
      OBVIOUS
    <3> HIDE DEF B
    <3> QED
      BY <3>1, LeastOf
  <2>2. k # 1
    BY <1>2, <1>5
  <2>3. k - 1 \in 1 .. n /\ at[k - 1] = g[k - 1]
    BY <2>1, <2>2
  <2>4. k \in 1 .. n /\ at[k] # g[k]
    BY <2>1
  <2> HIDE DEF B
  <2>5. at[k] = IF at[k - 1] = 0 THEN 0 ELSE pool[at[k - 1]].next
    BY <1>5, <2>2, <2>4
  <2>6. g[k] = IF g[k - 1] = 0 THEN 0 ELSE pool[g[k - 1]].next
    BY <1>2, <2>2, <2>4
  <2> QED
    BY <2>3, <2>4, <2>5, <2>6
<1>8. \A k \in 1 .. n : at[k] = Nth(s, k)
  BY <1>7 DEF g
<1>9. {m \in 1 .. n : at[m] # 0} = 1 .. Len(s)
  BY <1>1, <1>8 DEF Nth
<1>10. ChainIn(pool, Nth(s, 1)) = [k \in {m \in 1 .. n : at[m] # 0} |-> at[k]]
  BY DEF ChainIn, at
<1>11. ChainIn(pool, Nth(s, 1)) = [k \in 1 .. Len(s) |-> s[k]]
  BY <1>1, <1>8, <1>9, <1>10 DEF Nth
<1> QED
  BY <1>1, <1>11

(* The three pegs and the free list are lists of all nodes.                *)
Lists == {"A", "B", "C", "free"}

Linked(pool, h, c) ==
    /\ c \in [Lists -> Seq(T!Nodes)]
    /\ \A q \in Lists : h[q] = Nth(c[q], 1)
    /\ \A q \in Lists : \A k \in 1 .. Len(c[q]) : pool[c[q][k]].next = Nth(c[q], k + 1)
    /\ \A q, r \in Lists : \A k \in 1 .. Len(c[q]), m \in 1 .. Len(c[r]) :
          c[q][k] = c[r][m] => q = r /\ k = m
    /\ \A n \in T!Nodes : \E q \in Lists : \E k \in 1 .. Len(c[q]) : c[q][k] = n
    /\ Len(c["A"]) + Len(c["B"]) + Len(c["C"]) + Len(c["free"]) = NUM_DISCS

(* The first node of a list becomes the first of another.                  *)
NodeMoved(c, q, r) == [c EXCEPT ![q] = Tail(c[q]), ![r] = Cons(Head(c[q]), c[r])]

LEMMA NodeMovedFacts ==
  ASSUME NEW c \in [Lists -> Seq(T!Nodes)], NEW q \in Lists, NEW r \in Lists, q # r,
         c[q] # << >>
  PROVE  /\ NodeMoved(c, q, r) \in [Lists -> Seq(T!Nodes)]
         /\ Len(c[q]) \in Nat /\ Len(c[q]) >= 1 /\ Len(c[r]) \in Nat
         /\ c[q][1] \in T!Nodes
         /\ Len(NodeMoved(c, q, r)[q]) = Len(c[q]) - 1
         /\ \A k \in 1 .. Len(c[q]) - 1 : NodeMoved(c, q, r)[q][k] = c[q][k + 1]
         /\ Len(NodeMoved(c, q, r)[r]) = Len(c[r]) + 1
         /\ NodeMoved(c, q, r)[r][1] = c[q][1]
         /\ \A k \in 1 .. Len(c[r]) : NodeMoved(c, q, r)[r][k + 1] = c[r][k]
         /\ \A p \in Lists \ {q, r} : NodeMoved(c, q, r)[p] = c[p]
<1>1. c[q] \in Seq(T!Nodes) /\ c[r] \in Seq(T!Nodes)
  OBVIOUS
<1>2. /\ Len(c[q]) \in Nat /\ Len(c[q]) >= 1 /\ Head(c[q]) \in T!Nodes /\ Head(c[q]) = c[q][1]
      /\ Tail(c[q]) \in Seq(T!Nodes) /\ Len(Tail(c[q])) = Len(c[q]) - 1
      /\ \A k \in 1 .. Len(c[q]) - 1 : Tail(c[q])[k] = c[q][k + 1]
  BY <1>1, TailFacts
<1>3. /\ Cons(Head(c[q]), c[r]) \in Seq(T!Nodes)
      /\ Len(Cons(Head(c[q]), c[r])) = Len(c[r]) + 1
      /\ Cons(Head(c[q]), c[r])[1] = Head(c[q])
      /\ \A k \in 1 .. Len(c[r]) : Cons(Head(c[q]), c[r])[k + 1] = c[r][k]
  BY <1>1, <1>2, ConsFacts
<1>4. /\ NodeMoved(c, q, r)[q] = Tail(c[q])
      /\ NodeMoved(c, q, r)[r] = Cons(Head(c[q]), c[r])
      /\ \A p \in Lists \ {q, r} : NodeMoved(c, q, r)[p] = c[p]
      /\ NodeMoved(c, q, r) \in [Lists -> Seq(T!Nodes)]
  BY <1>2, <1>3 DEF NodeMoved
<1>5. Len(c[r]) \in Nat
  BY <1>1
<1> QED
  BY <1>2, <1>3, <1>4, <1>5

LEMMA NodeMovedSizes ==
  ASSUME NEW c \in [Lists -> Seq(T!Nodes)], NEW q \in Lists, NEW r \in Lists, q # r,
         c[q] # << >>
  PROVE  /\ Len(NodeMoved(c, q, r)[r]) = Len(c[r]) + 1
         /\ \A p \in Lists \ {q, r} : NodeMoved(c, q, r)[p] = c[p]
BY NodeMovedFacts

Total(x) == x["A"] + x["B"] + x["C"] + x["free"]
OneMoves(x, y, q, r) == /\ x \in [Lists -> Nat] /\ y[q] = x[q] - 1 /\ y[r] = x[r] + 1
                        /\ \A p \in Lists \ {q, r} : y[p] = x[p]

LEMMA SumMoved ==
  ASSUME NEW x, NEW y, NEW q \in Lists, NEW r \in Lists, q # r, OneMoves(x, y, q, r)
  PROVE  Total(y) = Total(x)
<1>0. /\ x \in [Lists -> Nat] /\ y[q] = x[q] - 1 /\ y[r] = x[r] + 1
      /\ \A p \in Lists \ {q, r} : y[p] = x[p]
  BY DEF OneMoves
<1>1. /\ x["A"] \in Nat /\ x["B"] \in Nat /\ x["C"] \in Nat /\ x["free"] \in Nat
  BY <1>0 DEF Lists
<1>2. ASSUME NEW p \in Lists
      PROVE  y[p] = IF p = q THEN x[p] - 1 ELSE IF p = r THEN x[p] + 1 ELSE x[p]
  BY <1>0
<1>3. /\ "A" \in Lists /\ "B" \in Lists /\ "C" \in Lists /\ "free" \in Lists
  BY DEF Lists
<1>4. ASSUME NEW m \in Nat, NEW b \in Nat, NEW c \in Nat, NEW f \in Nat
      PROVE  /\ (m - 1) + (b + 1) + c + f = m + b + c + f
             /\ (m - 1) + b + (c + 1) + f = m + b + c + f
             /\ (m - 1) + b + c + (f + 1) = m + b + c + f
             /\ (m + 1) + (b - 1) + c + f = m + b + c + f
             /\ m + (b - 1) + (c + 1) + f = m + b + c + f
             /\ m + (b - 1) + c + (f + 1) = m + b + c + f
             /\ (m + 1) + b + (c - 1) + f = m + b + c + f
             /\ m + (b + 1) + (c - 1) + f = m + b + c + f
             /\ m + b + (c - 1) + (f + 1) = m + b + c + f
             /\ (m + 1) + b + c + (f - 1) = m + b + c + f
             /\ m + (b + 1) + c + (f - 1) = m + b + c + f
             /\ m + b + (c + 1) + (f - 1) = m + b + c + f
  OBVIOUS
<1>A. y["A"] = IF "A" = q THEN x["A"] - 1 ELSE IF "A" = r THEN x["A"] + 1 ELSE x["A"]
  BY <1>2, <1>3
<1>B. y["B"] = IF "B" = q THEN x["B"] - 1 ELSE IF "B" = r THEN x["B"] + 1 ELSE x["B"]
  BY <1>2, <1>3
<1>C. y["C"] = IF "C" = q THEN x["C"] - 1 ELSE IF "C" = r THEN x["C"] + 1 ELSE x["C"]
  BY <1>2, <1>3
<1>F. y["free"] = IF "free" = q THEN x["free"] - 1 ELSE IF "free" = r THEN x["free"] + 1
                  ELSE x["free"]
  BY <1>2, <1>3
<1> QED
  BY <1>1, <1>A, <1>B, <1>C, <1>F, <1>4 DEF Lists, Total

(* No node is in two places.                                               *)
LEMMA LinkedApart ==
  ASSUME NEW pool, NEW h, NEW c, Linked(pool, h, c), NEW x \in Lists, NEW y \in Lists,
         NEW u \in 1 .. Len(c[x]), NEW v \in 1 .. Len(c[y]), c[x][u] = c[y][v]
  PROVE  x = y /\ u = v
<1>1. \A p, s \in Lists : \A k \in 1 .. Len(c[p]), m \in 1 .. Len(c[s]) :
         c[p][k] = c[s][m] => p = s /\ k = m
  BY DEF Linked
<1> QED
  BY <1>1, Zenon

Relinked(pool, pool2, h, h2, q, r) ==
    /\ pool2[h[q]].next = h[r]
    /\ \A n \in T!Nodes : n # h[q] => pool2[n].next = pool[n].next
    /\ h2[q] = pool[h[q]].next /\ h2[r] = h[q]
    /\ \A p \in Lists \ {q, r} : h2[p] = h[p]

LEMMA NodeMoves ==
  ASSUME NUM_DISCS \in Nat, NEW pool, NEW pool2, NEW h, NEW h2, NEW c, Linked(pool, h, c),
         NEW q \in Lists, NEW r \in Lists, q # r, c[q] # << >>,
         Relinked(pool, pool2, h, h2, q, r)
  PROVE  Linked(pool2, h2, NodeMoved(c, q, r))
<1> DEFINE d == NodeMoved(c, q, r)
<1>0. c \in [Lists -> Seq(T!Nodes)]
  BY DEF Linked
<1>R. /\ pool2[h[q]].next = h[r]
      /\ \A n \in T!Nodes : n # h[q] => pool2[n].next = pool[n].next
      /\ h2[q] = pool[h[q]].next /\ h2[r] = h[q]
      /\ \A p \in Lists \ {q, r} : h2[p] = h[p]
  BY DEF Relinked
<1>1. /\ d \in [Lists -> Seq(T!Nodes)]
      /\ Len(c[q]) \in Nat /\ Len(c[q]) >= 1 /\ Len(c[r]) \in Nat
      /\ c[q][1] \in T!Nodes
      /\ Len(d[q]) = Len(c[q]) - 1
      /\ \A k \in 1 .. Len(c[q]) - 1 : d[q][k] = c[q][k + 1]
      /\ Len(d[r]) = Len(c[r]) + 1
      /\ d[r][1] = c[q][1]
      /\ \A k \in 1 .. Len(c[r]) : d[r][k + 1] = c[r][k]
      /\ \A p \in Lists \ {q, r} : d[p] = c[p]
  BY <1>0, NodeMovedFacts
<1>2. \A p \in Lists : /\ Len(c[p]) \in Nat /\ Len(d[p]) \in Nat
                       /\ \A k \in 1 .. Len(c[p]) : c[p][k] \in T!Nodes
  BY <1>0, <1>1
<1> HIDE DEF d
<1>L. /\ \A p \in Lists : h[p] = Nth(c[p], 1)
      /\ \A p \in Lists : \A k \in 1 .. Len(c[p]) : pool[c[p][k]].next = Nth(c[p], k + 1)
      /\ \A p, s \in Lists : \A k \in 1 .. Len(c[p]), m \in 1 .. Len(c[s]) :
            c[p][k] = c[s][m] => p = s /\ k = m
  BY DEF Linked
<1>3. h[q] = c[q][1] /\ pool[c[q][1]].next = Nth(c[q], 2) /\ h[r] = Nth(c[r], 1)
  <2>1. 1 \in 1 .. Len(c[q]) /\ 1 + 1 = 2
    BY <1>1
  <2>2. h[q] = Nth(c[q], 1) /\ pool[c[q][1]].next = Nth(c[q], 1 + 1)
    BY <1>L, <2>1
  <2> QED
    BY <1>L, <2>1, <2>2 DEF Nth
<1>N. Len(c[r]) \in Nat /\ Len(d[r]) = Len(c[r]) + 1
  BY <1>1
(* Where a place of the new lists comes from.                              *)
<1> DEFINE FromList(p, k) == IF p = r /\ k = 1 THEN q ELSE p
           FromPlace(p, k) == IF p = q THEN k + 1
                              ELSE IF p = r THEN IF k = 1 THEN 1 ELSE k - 1 ELSE k
<1>4. ASSUME NEW p \in Lists, NEW k \in 1 .. Len(d[p])
      PROVE  /\ FromList(p, k) \in Lists /\ FromPlace(p, k) \in 1 .. Len(c[FromList(p, k)])
             /\ d[p][k] = c[FromList(p, k)][FromPlace(p, k)]
  <2>1. CASE p = q
    BY <1>1, <1>2, <2>1
  <2>2. CASE p = r /\ k = 1
    BY <1>1, <2>2
  <2>3. CASE p = r /\ k # 1
    <3>1. k - 1 \in 1 .. Len(c[r]) /\ (k - 1) + 1 = k
      BY <1>1, <1>2, <2>3
    <3>2. d[r][k] = c[r][k - 1]
      BY <1>1, <3>1
    <3> QED
      BY <2>3, <3>1, <3>2
  <2>4. CASE p \notin {q, r}
    BY <1>1, <2>4
  <2> QED
    BY <2>1, <2>2, <2>3, <2>4
<1>5. \A p, s \in Lists : \A k \in 1 .. Len(d[p]), m \in 1 .. Len(d[s]) :
         d[p][k] = d[s][m] => p = s /\ k = m
  <2> SUFFICES ASSUME NEW p \in Lists, NEW s \in Lists,
                      NEW k \in 1 .. Len(d[p]), NEW m \in 1 .. Len(d[s]), d[p][k] = d[s][m]
               PROVE  p = s /\ k = m
    OBVIOUS
  <2>1. FromList(p, k) = FromList(s, m) /\ FromPlace(p, k) = FromPlace(s, m)
    <3> HIDE DEF FromList, FromPlace
    <3>1. /\ FromList(p, k) \in Lists /\ FromPlace(p, k) \in 1 .. Len(c[FromList(p, k)])
          /\ d[p][k] = c[FromList(p, k)][FromPlace(p, k)]
      BY <1>4
    <3>2. /\ FromList(s, m) \in Lists /\ FromPlace(s, m) \in 1 .. Len(c[FromList(s, m)])
          /\ d[s][m] = c[FromList(s, m)][FromPlace(s, m)]
      BY <1>4
    <3>3. c[FromList(p, k)][FromPlace(p, k)] = c[FromList(s, m)][FromPlace(s, m)]
      BY <3>1, <3>2
    <3> QED
      BY <3>1, <3>2, <3>3, LinkedApart
  <2>2. k \in Nat /\ m \in Nat
    BY <1>2
  <2> QED
    BY <2>1, <2>2
<1>6. \A n \in T!Nodes : \E p \in Lists : \E k \in 1 .. Len(d[p]) : d[p][k] = n
  <2> SUFFICES ASSUME NEW n \in T!Nodes
               PROVE  \E p \in Lists : \E k \in 1 .. Len(d[p]) : d[p][k] = n
    OBVIOUS
  <2>1. PICK p \in Lists : \E k \in 1 .. Len(c[p]) : c[p][k] = n
    BY DEF Linked
  <2>2. PICK k \in 1 .. Len(c[p]) : c[p][k] = n
    BY <2>1
  <2>3. CASE p = q /\ k = 1
    <3>1. 1 \in 1 .. Len(d[r]) /\ d[r][1] = n
      BY <1>1, <2>2, <2>3
    <3> QED
      BY <3>1
  <2>4. CASE p = q /\ k # 1
    <3>1. k - 1 \in 1 .. Len(d[q]) /\ (k - 1) + 1 = k /\ k - 1 \in 1 .. Len(c[q]) - 1
      BY <1>1, <2>4
    <3>2. d[q][k - 1] = n
      BY <1>1, <2>2, <2>4, <3>1
    <3> QED
      BY <3>1, <3>2
  <2>5. CASE p = r
    <3>1. k + 1 \in 1 .. Len(d[r]) /\ d[r][k + 1] = n
      BY <1>1, <2>2, <2>5
    <3> QED
      BY <3>1
  <2>6. CASE p \notin {q, r}
    BY <1>1, <2>2, <2>6
  <2> QED
    BY <2>3, <2>4, <2>5, <2>6
<1>7. Len(d["A"]) + Len(d["B"]) + Len(d["C"]) + Len(d["free"]) = NUM_DISCS
  <2> DEFINE x == [p \in Lists |-> Len(c[p])]
             y == [p \in Lists |-> Len(d[p])]
  <2>1. OneMoves(x, y, q, r)
    BY <1>1, <1>2 DEF OneMoves
  <2>2. Total(x) = NUM_DISCS
    BY DEF Linked, Lists, Total
  <2>3. Total(y) = Total(x)
    <3> HIDE DEF x, y
    <3> QED
      BY <2>1, SumMoved
  <2> QED
    BY <2>2, <2>3 DEF Lists, Total
<1>8. \A p \in Lists : h2[p] = Nth(d[p], 1)
  <2>1. h2[q] = Nth(d[q], 1)
    <3>1. h2[q] = Nth(c[q], 2)
      BY <1>3, <1>R
    <3>2. CASE Len(c[q]) <= 1
      BY <1>1, <3>1, <3>2 DEF Nth
    <3>3. CASE Len(c[q]) > 1
      <4>1. 1 \in 1 .. Len(c[q]) - 1 /\ 2 \in 1 .. Len(c[q]) /\ 1 \in 1 .. Len(d[q])
        <5>1. Len(c[q]) \in Nat /\ Len(c[q]) >= 1 /\ Len(d[q]) = Len(c[q]) - 1
          BY <1>1
        <5> QED
          BY <5>1, <3>3
      <4>2. d[q][1] = c[q][1 + 1]
        BY <1>1, <4>1
      <4> QED
        BY <3>1, <4>1, <4>2 DEF Nth
    <3> QED
      BY <3>2, <3>3
  <2>2. h2[r] = Nth(d[r], 1)
    <3>1. 1 \in 1 .. Len(d[r])
      BY <1>1
    <3> QED
      BY <1>1, <1>3, <1>R, <3>1 DEF Nth
  <2>3. ASSUME NEW p \in Lists \ {q, r}
        PROVE  h2[p] = Nth(d[p], 1)
    <3>1. h2[p] = h[p]
      BY <1>R
    <3>2. d[p] = c[p]
      BY <1>1
    <3>3. h[p] = Nth(c[p], 1)
      BY <1>L
    <3> QED
      BY <3>1, <3>2, <3>3
  <2> QED
    BY <2>1, <2>2, <2>3
<1>9. \A p \in Lists : \A k \in 1 .. Len(d[p]) : pool2[d[p][k]].next = Nth(d[p], k + 1)
  <2> SUFFICES ASSUME NEW p \in Lists, NEW k \in 1 .. Len(d[p])
               PROVE  pool2[d[p][k]].next = Nth(d[p], k + 1)
    OBVIOUS
  <2>1. CASE p = r /\ k = 1
    <3>1. pool2[d[r][1]].next = Nth(c[r], 1)
      BY <1>1, <1>3, <1>R
    <3>2. CASE Len(c[r]) <= 0
      <4>1. Nth(c[r], 1) = 0
        BY <3>2 DEF Nth
      <4>2. Nth(d[r], 2) = 0
        BY <1>N, <3>2 DEF Nth
      <4> QED
        BY <2>1, <3>1, <4>1, <4>2
    <3>3. CASE Len(c[r]) > 0
      <4>1. 1 \in 1 .. Len(c[r]) /\ 2 \in 1 .. Len(d[r]) /\ 1 + 1 = 2
        BY <1>N, <3>3
      <4>2. d[r][1 + 1] = c[r][1]
        BY <1>1, <4>1
      <4> QED
        BY <2>1, <3>1, <4>1, <4>2 DEF Nth
    <3> QED
      BY <3>2, <3>3
  <2>2. CASE ~(p = r /\ k = 1)
    <3> DEFINE s == FromList(p, k)
               m == FromPlace(p, k)
    <3>1. s \in Lists /\ m \in 1 .. Len(c[s]) /\ d[p][k] = c[s][m] /\ ~(s = q /\ m = 1)
      <4>1. s \in Lists /\ m \in 1 .. Len(c[s]) /\ d[p][k] = c[s][m]
        BY <1>4
      <4>2. ~(s = q /\ m = 1)
        BY <1>2, <2>2
      <4> QED
        BY <4>1, <4>2
    <3>2. pool2[d[p][k]].next = pool[c[s][m]].next
      <4>1. c[s][m] # c[q][1] /\ c[s][m] \in T!Nodes
        <5>1. 1 \in 1 .. Len(c[q])
          BY <1>1
        <5> HIDE DEF s, m
        <5>2. c[s][m] = c[q][1] => s = q /\ m = 1
          BY <3>1, <5>1, <1>L
        <5>3. c[s][m] \in T!Nodes
          BY <1>2, <3>1
        <5> QED
          BY <3>1, <5>2, <5>3
      <4> HIDE DEF s, m
      <4> QED
        BY <1>3, <1>R, <3>1, <4>1
    <3>3. pool[c[s][m]].next = Nth(c[s], m + 1)
      <4> HIDE DEF s, m
      <4> QED
        BY <3>1, <1>L
    <3>4. Nth(c[s], m + 1) = Nth(d[p], k + 1)
      <4>1. CASE p = q
        <5>1. s = q /\ m = k + 1
          BY <4>1
        <5>2. Nth(d[q], k + 1) = Nth(c[q], (k + 1) + 1)
          BY <1>1, <4>1 DEF Nth
        <5> QED
          BY <4>1, <5>1, <5>2
      <4>2. CASE p = r
        <5>1. s = r /\ m = k - 1 /\ k \in Int
          BY <2>2, <4>2
        <5>2. Nth(d[r], k + 1) = Nth(c[r], k)
          BY <1>1, <2>2, <4>2 DEF Nth
        <5>3. m + 1 = k
          BY <5>1
        <5> HIDE DEF s, m
        <5> QED
          BY <4>2, <5>1, <5>2, <5>3
      <4>3. CASE p \notin {q, r}
        BY <1>1, <4>3
      <4> QED
        BY <4>1, <4>2, <4>3
    <3> HIDE DEF s, m
    <3> QED
      BY <3>2, <3>3, <3>4
  <2> QED
    BY <2>1, <2>2
<1> QED
  BY <1>1, <1>5, <1>6, <1>7, <1>8, <1>9 DEF Linked, d

(* What can be read off lists that are linked.                             *)
LEMMA LinkedChains ==
  ASSUME NUM_DISCS \in Nat, NEW pool, NEW h, NEW c, Linked(pool, h, c), NEW q \in Lists
  PROVE  ChainIn(pool, h[q]) = c[q] /\ Len(c[q]) \in Nat /\ Len(c[q]) <= NUM_DISCS
<1>1. /\ \A p \in Lists : c[p] \in Seq(T!Nodes) /\ Len(c[p]) \in Nat
      /\ Len(c["A"]) + Len(c["B"]) + Len(c["C"]) + Len(c["free"]) = NUM_DISCS
      /\ h[q] = Nth(c[q], 1)
      /\ \A k \in 1 .. Len(c[q]) : pool[c[q][k]].next = Nth(c[q], k + 1)
  <2>1. c \in [Lists -> Seq(T!Nodes)]
    BY DEF Linked
  <2>2. \A p \in Lists : c[p] \in Seq(T!Nodes) /\ Len(c[p]) \in Nat
    BY <2>1
  <2> QED
    BY <2>2 DEF Linked
<1>2. Len(c[q]) <= NUM_DISCS
  <2> DEFINE x == [p \in Lists |-> Len(c[p])]
  <2>1. /\ \A p \in Lists : x[p] \in Nat
        /\ x["A"] + x["B"] + x["C"] + x["free"] = NUM_DISCS
    BY <1>1 DEF Lists
  <2> HIDE DEF x
  <2>2. x[q] <= NUM_DISCS
    BY <2>1 DEF Lists
  <2> QED
    BY <2>2 DEF x
<1>3. ChainIn(pool, Nth(c[q], 1)) = c[q]
  BY <1>1, <1>2, ChainIs
<1> QED
  BY <1>1, <1>2, <1>3

(* Four lists one after the other hold what the four lists hold.            *)
Holds(S, u, s, t) ==
  /\ u \in Seq(S) /\ Len(u) = Len(s) + Len(t)
  /\ \A k \in 1 .. Len(s) : \E m \in 1 .. Len(u) : u[m] = s[k]
  /\ \A k \in 1 .. Len(t) : \E m \in 1 .. Len(u) : u[m] = t[k]

LEMMA CatHolds ==
  ASSUME NEW S, NEW s \in Seq(S), NEW t \in Seq(S)
  PROVE  Cat(s, t) \in Seq(S) /\ Holds(S, Cat(s, t), s, t)
<1>1. /\ Len(s) \in Nat /\ Len(t) \in Nat /\ Cat(s, t) \in Seq(S)
      /\ Len(Cat(s, t)) = Len(s) + Len(t)
  <2>1. Len(s) \in Nat /\ Len(t) \in Nat
    OBVIOUS
  <2> QED
    BY <2>1, CatType, Zenon
<1>2. \A k \in 1 .. Len(s) + Len(t) : Cat(s, t)[k] = IF k <= Len(s) THEN s[k] ELSE t[k - Len(s)]
  BY CatElements
<1>3. ASSUME NEW k \in 1 .. Len(s)
      PROVE  \E m \in 1 .. Len(Cat(s, t)) : Cat(s, t)[m] = s[k]
  <2>1. k \in 1 .. Len(s) + Len(t) /\ k <= Len(s)
    BY <1>1
  <2> QED
    BY <1>1, <1>2, <2>1
<1>4. ASSUME NEW k \in 1 .. Len(t)
      PROVE  \E m \in 1 .. Len(Cat(s, t)) : Cat(s, t)[m] = t[k]
  <2>1. /\ Len(s) + k \in 1 .. Len(s) + Len(t) /\ ~(Len(s) + k <= Len(s))
        /\ (Len(s) + k) - Len(s) = k
    BY <1>1
  <2> QED
    BY <1>1, <1>2, <2>1
<1> QED
  BY <1>1, <1>3, <1>4, Zenon DEF Holds

LEMMA LinkedConserved ==
  ASSUME NUM_DISCS \in Nat, NEW pool, NEW h, NEW c, Linked(pool, h, c)
  PROVE  LET all == ((c["A"] \o c["B"]) \o c["C"]) \o c["free"]
         IN  Len(all) = NUM_DISCS /\ ToSet(all) = T!Nodes
<1> DEFINE S == T!Nodes
<1>1. PICK sA \in Seq(S), sB \in Seq(S), sC \in Seq(S), sF \in Seq(S) :
         sA = c["A"] /\ sB = c["B"] /\ sC = c["C"] /\ sF = c["free"]
  BY DEF Linked, Lists
<1> DEFINE ab == Cat(sA, sB)
           abc == Cat(ab, sC)
           all == Cat(abc, sF)
<1>2. ab \in Seq(S) /\ Holds(S, ab, sA, sB)
  BY CatHolds
<1> HIDE DEF ab
<1>3. abc \in Seq(S) /\ Holds(S, abc, ab, sC)
  BY <1>2, CatHolds
<1> HIDE DEF abc
<1>4. all \in Seq(S) /\ Holds(S, all, abc, sF)
  BY <1>3, CatHolds
<1> HIDE DEF all
<1>5. Len(sA) + Len(sB) + Len(sC) + Len(sF) = NUM_DISCS
  BY <1>1 DEF Linked
<1>8. Len(all) = NUM_DISCS
  BY <1>2, <1>3, <1>4, <1>5 DEF Holds
<1>9. \A n \in S : \E k \in 1 .. Len(all) : all[k] = n
  <2> SUFFICES ASSUME NEW n \in S
               PROVE  \E k \in 1 .. Len(all) : all[k] = n
    OBVIOUS
  <2>1. PICK q \in Lists : \E k \in 1 .. Len(c[q]) : c[q][k] = n
    BY DEF Linked
  <2>3. CASE q = "A"
    <3>1. PICK k \in 1 .. Len(sA) : sA[k] = n
      BY <1>1, <2>1, <2>3
    <3>2. \E m \in 1 .. Len(ab) : ab[m] = n
      BY <1>2, <3>1 DEF Holds
    <3>3. \E m \in 1 .. Len(abc) : abc[m] = n
      BY <1>3, <3>2 DEF Holds
    <3> QED
      BY <1>4, <3>3 DEF Holds
  <2>4. CASE q = "B"
    <3>1. PICK k \in 1 .. Len(sB) : sB[k] = n
      BY <1>1, <2>1, <2>4
    <3>2. \E m \in 1 .. Len(ab) : ab[m] = n
      BY <1>2, <3>1 DEF Holds
    <3>3. \E m \in 1 .. Len(abc) : abc[m] = n
      BY <1>3, <3>2 DEF Holds
    <3> QED
      BY <1>4, <3>3 DEF Holds
  <2>5. CASE q = "C"
    <3>1. PICK k \in 1 .. Len(sC) : sC[k] = n
      BY <1>1, <2>1, <2>5
    <3> QED
      BY <1>3, <1>4, <3>1 DEF Holds
  <2>6. CASE q = "free"
    <3>1. PICK k \in 1 .. Len(sF) : sF[k] = n
      BY <1>1, <2>1, <2>6
    <3> QED
      BY <1>4, <3>1 DEF Holds
  <2> QED
    BY <2>1, <2>3, <2>4, <2>5, <2>6 DEF Lists
<1>10. ToSet(all) = S
  <2>1. ToSet(all) = {all[k] : k \in 1 .. Len(all)}
    <3>1. DOMAIN all = 1 .. Len(all)
      BY <1>4
    <3> QED
      BY <3>1, Zenon DEF ToSet
  <2>2. \A k \in 1 .. Len(all) : all[k] \in S
    BY <1>4
  <2> QED
    BY <1>9, <2>1, <2>2
<1>11. all = ((c["A"] \o c["B"]) \o c["C"]) \o c["free"]
  BY <1>1 DEF ab, abc, all, Cat
<1> QED
  BY <1>8, <1>10, <1>11

-----------------------------------------------------------------------------
(* The calls of towers_solve_h.                                            *)
Pegs == {"A", "B", "C"}
AllFrames == [n : 1 .. NUM_DISCS, startPeg : Pegs, tempPeg : Pegs, destPeg : Pegs, called : 0 .. 3]

(* f is the call that g has just made.                                     *)
CalledBy(f, g) ==
    /\ g.n > 1 /\ g.called \in 1 .. 3
    /\ f.n = IF g.called = 2 THEN 1 ELSE g.n - 1
    /\ f.startPeg = IF g.called = 3 THEN g.tempPeg ELSE g.startPeg
    /\ f.tempPeg = IF g.called = 1 THEN g.destPeg ELSE IF g.called = 2 THEN g.tempPeg
                   ELSE g.startPeg
    /\ f.destPeg = IF g.called = 1 THEN g.tempPeg ELSE g.destPeg

(* The disc a call for one disc moves: the large one of the call it serves *)
(* or the smallest.  (F[1] is the last call, m the number of calls.)       *)
OneDisc(F, m) == IF m > 1 /\ F[2].called = 2 THEN F[2].n ELSE 1

(* Where the discs are (w) when a call has made called of its calls.       *)
Placed(f, w) ==
    /\ f.called = 0 => \A d \in 1 .. f.n : w[d] = f.startPeg
    /\ f.called = 1 => w[f.n] = f.startPeg /\ \A d \in 1 .. f.n - 1 : w[d] = f.tempPeg
    /\ f.called = 2 => w[f.n] = f.destPeg /\ \A d \in 1 .. f.n - 1 : w[d] = f.tempPeg
    /\ f.called = 3 => \A d \in 1 .. f.n : w[d] = f.destPeg

(* The same for a call for one disc, d.                                    *)
OnePlaced(f, d, w) == w[d] = f.startPeg /\ \A e \in 1 .. d - 1 : w[e] = f.tempPeg

(* The large disc of a call below the last: before its move and after it.  *)
Waits(f, w) == /\ f.called = 1 => w[f.n] = f.startPeg
               /\ f.called = 3 => w[f.n] = f.destPeg

(* Each call is the one its caller has made, the first that of main, and   *)
(* the discs are where they must be for what is left to do.                *)
Stack(F, m, w) ==
    /\ w \in [1 .. NUM_DISCS -> Pegs]
    /\ \A k \in 1 .. m :
          /\ F[k] \in AllFrames
          /\ F[k].startPeg # F[k].tempPeg /\ F[k].startPeg # F[k].destPeg
          /\ F[k].tempPeg # F[k].destPeg
          /\ F[k].n = 1 => F[k].called = 0
    /\ \A k \in 1 .. m : \A e \in 1 .. m : k < e => F[k].n < F[e].n
    /\ \A k \in 1 .. m - 1 : CalledBy(F[k], F[k + 1])
    /\ \A k \in 2 .. m : Waits(F[k], w)
    /\ m > 0 => /\ F[m].n = NUM_DISCS /\ F[m].startPeg = "A" /\ F[m].tempPeg = "B"
                /\ F[m].destPeg = "C"
                /\ IF F[1].n = 1 THEN OnePlaced(F[1], OneDisc(F, m), w) ELSE Placed(F[1], w)
    /\ m = 0 => \A d \in 1 .. NUM_DISCS : w[d] = "C"

(* The calls a call makes.                                                 *)
LEMMA StackCall ==
  ASSUME NUM_DISCS \in Nat \ {0}, NEW F, NEW m \in Nat, m > 0, NEW w, Stack(F, m, w),
         F[1].n > 1, F[1].called # 3,
         NEW G, G[1] = T!Call(F[1]), G[2] = [F[1] EXCEPT !.called = @ + 1],
         \A k \in 2 .. m : G[k + 1] = F[k]
  PROVE  Stack(G, m + 1, w)
<1> DEFINE f == F[1]
<1>1. /\ f \in AllFrames /\ f.n \in 1 .. NUM_DISCS /\ f.n \in Nat /\ f.n > 1 /\ f.called \in 0 .. 2
      /\ f.startPeg \in Pegs /\ f.tempPeg \in Pegs /\ f.destPeg \in Pegs
      /\ f.startPeg # f.tempPeg /\ f.startPeg # f.destPeg /\ f.tempPeg # f.destPeg
      /\ w \in [1 .. NUM_DISCS -> Pegs] /\ Placed(f, w)
  BY DEF Stack, AllFrames
<1>2. /\ G[2].n = f.n /\ G[2].startPeg = f.startPeg /\ G[2].tempPeg = f.tempPeg
      /\ G[2].destPeg = f.destPeg /\ G[2].called = f.called + 1 /\ G[2] \in AllFrames
  BY <1>1 DEF AllFrames
<1>3. /\ CalledBy(G[1], G[2]) /\ G[1].called = 0 /\ G[1] \in AllFrames
  BY <1>1, <1>2 DEF CalledBy, T!Call, T!Frame, AllFrames
<1> HIDE DEF f
<1>4. ASSUME NEW k \in 1 .. m + 1
      PROVE  k = 1 \/ k = 2 \/ (k - 1 \in 2 .. m /\ G[k] = F[k - 1])
  <2>1. CASE k > 2
    <3>1. k - 1 \in 2 .. m /\ (k - 1) + 1 = k
      BY <2>1
    <3> QED
      BY <3>1
  <2> QED
    BY <2>1
<1>5. /\ G[1].n < G[2].n
      /\ \A k \in 3 .. m + 1 : G[2].n < G[k].n /\ G[k].n \in Nat
  <2>1. G[1].n < G[2].n
    BY <1>1, <1>2, <1>3 DEF CalledBy
  <2>2. ASSUME NEW k \in 3 .. m + 1
        PROVE  G[2].n < G[k].n /\ G[k].n \in Nat
    <3>1. k \in 1 .. m + 1 /\ 1 < k - 1 /\ 1 \in 1 .. m /\ k - 1 \in 1 .. m
      OBVIOUS
    <3>2. G[k] = F[k - 1]
      BY <1>4, <3>1
    <3>3. f.n < F[k - 1].n /\ F[k - 1] \in AllFrames
      BY <3>1 DEF Stack, f
    <3> QED
      BY <1>2, <3>2, <3>3 DEF AllFrames
  <2> QED
    BY <2>1, <2>2
<1>6. ASSUME NEW k \in 1 .. m + 1
      PROVE  /\ G[k] \in AllFrames
             /\ G[k].startPeg # G[k].tempPeg /\ G[k].startPeg # G[k].destPeg
             /\ G[k].tempPeg # G[k].destPeg
             /\ G[k].n = 1 => G[k].called = 0
  <2>1. CASE k = 1
    BY <1>1, <1>2, <1>3, <2>1 DEF CalledBy
  <2>2. CASE k = 2
    <3>1. G[2].n # 1 /\ G[2] \in AllFrames
      BY <1>1, <1>2
    <3>2. /\ G[2].startPeg # G[2].tempPeg /\ G[2].startPeg # G[2].destPeg
          /\ G[2].tempPeg # G[2].destPeg
      BY <1>1, <1>2
    <3> QED
      BY <2>2, <3>1, <3>2
  <2>3. CASE k - 1 \in 2 .. m /\ G[k] = F[k - 1]
    <3>1. k - 1 \in 1 .. m
      BY <2>3
    <3> QED
      BY <2>3, <3>1 DEF Stack
  <2> QED
    BY <1>4, <2>1, <2>2, <2>3
<1>7. \A k \in 1 .. m + 1 : \A e \in 1 .. m + 1 : k < e => G[k].n < G[e].n
  <2> SUFFICES ASSUME NEW k \in 1 .. m + 1, NEW e \in 1 .. m + 1, k < e
               PROVE  G[k].n < G[e].n
    OBVIOUS
  <2>0. G[1].n \in Nat /\ G[2].n \in Nat
    BY <1>2, <1>3 DEF AllFrames
  <2>1. CASE k = 1 /\ e = 2
    BY <1>5, <2>1
  <2>2. CASE k = 2
    <3>1. e \in 3 .. m + 1
      BY <2>2
    <3> QED
      BY <1>5, <2>2, <3>1
  <2>3. CASE k = 1 /\ e # 2
    <3>1. e \in 3 .. m + 1
      BY <2>3
    <3> QED
      BY <1>5, <2>0, <2>3, <3>1
  <2>4. CASE k > 2
    <3>1. k - 1 \in 1 .. m /\ e - 1 \in 1 .. m /\ k - 1 < e - 1 /\ k # 1 /\ k # 2 /\ e # 1 /\ e # 2
      BY <2>4
    <3>2. G[k] = F[k - 1] /\ G[e] = F[e - 1]
      BY <1>4, <3>1
    <3>3. F[k - 1].n < F[e - 1].n
      BY <3>1 DEF Stack
    <3> QED
      BY <3>2, <3>3
  <2> QED
    BY <2>1, <2>2, <2>3, <2>4
<1>8. ASSUME NEW k \in 1 .. m
      PROVE  CalledBy(G[k], G[k + 1])
  <2>1. CASE k = 1
    BY <1>3, <2>1
  <2>2. CASE k = 2
    <3>1. G[3] = F[2] /\ 1 \in 1 .. m - 1 /\ 1 + 1 = 2
      <4>1. 2 \in 2 .. m /\ 2 + 1 = 3
        BY <2>2
      <4> QED
        BY <2>2, <4>1
    <3>2. CalledBy(f, F[2])
      BY <3>1 DEF Stack, f
    <3> QED
      <4>1. CalledBy(G[2], G[3])
        BY <1>2, <3>1, <3>2 DEF CalledBy
      <4>2. k + 1 = 3
        BY <2>2
      <4> QED
        BY <2>2, <4>1, <4>2
  <2>3. CASE k > 2
    <3>1. k - 1 \in 1 .. m - 1 /\ (k - 1) + 1 = k /\ k - 1 \in 2 .. m /\ k \in 2 .. m
      BY <2>3
    <3>2. G[k] = F[k - 1] /\ G[k + 1] = F[k]
      BY <3>1
    <3>3. CalledBy(F[k - 1], F[k])
      BY <3>1 DEF Stack
    <3> QED
      BY <3>2, <3>3
  <2> QED
    BY <2>1, <2>2, <2>3
<1>9. ASSUME NEW k \in 2 .. m + 1
      PROVE  Waits(G[k], w)
  <2>1. CASE k = 2
    <3>1. f.called = 0 => w[f.n] = f.startPeg
      BY <1>1 DEF Placed
    <3>2. f.called = 2 => w[f.n] = f.destPeg
      BY <1>1 DEF Placed
    <3>3. /\ f.called + 1 = 1 => f.called = 0
          /\ f.called + 1 = 3 => f.called = 2
      BY <1>1
    <3> QED
      BY <1>2, <2>1, <3>1, <3>2, <3>3 DEF Waits
  <2>2. CASE k # 2
    <3>1. k \in 1 .. m + 1 /\ k # 1
      OBVIOUS
    <3>2. k - 1 \in 2 .. m /\ G[k] = F[k - 1]
      BY <1>4, <2>2, <3>1
    <3> QED
      BY <3>2 DEF Stack
  <2> QED
    BY <2>1, <2>2
<1>10. /\ G[m + 1].n = NUM_DISCS /\ G[m + 1].startPeg = "A" /\ G[m + 1].tempPeg = "B"
       /\ G[m + 1].destPeg = "C"
  <2>1. CASE m = 1
    <3>1. m + 1 = 2 /\ F[m] = f
      BY <2>1 DEF f
    <3>2. /\ F[m].n = NUM_DISCS /\ F[m].startPeg = "A" /\ F[m].tempPeg = "B"
          /\ F[m].destPeg = "C"
      BY DEF Stack
    <3> QED
      BY <1>2, <3>1, <3>2
  <2>2. CASE m # 1
    <3>1. m \in 2 .. m
      BY <2>2
    <3> QED
      BY <3>1 DEF Stack
  <2> QED
    BY <2>1, <2>2
<1>11. IF G[1].n = 1 THEN OnePlaced(G[1], OneDisc(G, m + 1), w) ELSE Placed(G[1], w)
  <2>1. OneDisc(G, m + 1) = IF f.called = 1 THEN f.n ELSE 1
    BY <1>1, <1>2 DEF OneDisc
  <2>2. CASE f.called = 1
    BY <1>1, <1>2, <1>3, <2>1, <2>2 DEF CalledBy, OnePlaced, Placed
  <2>3. CASE f.called = 0
    BY <1>1, <1>2, <1>3, <2>1, <2>3 DEF CalledBy, OnePlaced, Placed
  <2>4. CASE f.called = 2
    BY <1>1, <1>2, <1>3, <2>1, <2>4 DEF CalledBy, OnePlaced, Placed
  <2> QED
    BY <1>1, <2>2, <2>3, <2>4
<1>12. (m + 1) - 1 = m /\ m + 1 > 0 /\ m + 1 # 0
  OBVIOUS
<1> QED
  BY <1>1, <1>6, <1>7, <1>8, <1>9, <1>10, <1>11, <1>12 DEF Stack

(* A return, to a call that is then in the place f says.                   *)
LEMMA StackBelow ==
  ASSUME NUM_DISCS \in Nat \ {0}, NEW F, NEW m \in Nat, m > 0, NEW w, Stack(F, m, w),
         NEW G, \A k \in 1 .. m - 1 : G[k] = F[k + 1],
         NEW v \in [1 .. NUM_DISCS -> Pegs],
         \A k \in 3 .. m : Waits(F[k], v),
         m > 1 => Placed(F[2], v),
         m = 1 => \A d \in 1 .. NUM_DISCS : v[d] = "C"
  PROVE  Stack(G, m - 1, v)
<1>1. ASSUME NEW k \in 1 .. m - 1
      PROVE  k + 1 \in 1 .. m /\ G[k] = F[k + 1]
  OBVIOUS
<1>2. \A k \in 1 .. m - 1 :
          /\ G[k] \in AllFrames
          /\ G[k].startPeg # G[k].tempPeg /\ G[k].startPeg # G[k].destPeg
          /\ G[k].tempPeg # G[k].destPeg
          /\ G[k].n = 1 => G[k].called = 0
  BY <1>1 DEF Stack
<1>3. \A k \in 1 .. m - 1 : \A e \in 1 .. m - 1 : k < e => G[k].n < G[e].n
  <2> SUFFICES ASSUME NEW k \in 1 .. m - 1, NEW e \in 1 .. m - 1, k < e
               PROVE  G[k].n < G[e].n
    OBVIOUS
  <2>1. k + 1 \in 1 .. m /\ e + 1 \in 1 .. m /\ k + 1 < e + 1 /\ G[k] = F[k + 1] /\ G[e] = F[e + 1]
    BY <1>1
  <2>2. F[k + 1].n < F[e + 1].n
    BY <2>1 DEF Stack
  <2> QED
    BY <2>1, <2>2
<1>4. ASSUME NEW k \in 1 .. (m - 1) - 1
      PROVE  CalledBy(G[k], G[k + 1])
  <2>1. k + 1 \in 1 .. m - 1 /\ k \in 1 .. m - 1
    OBVIOUS
  <2>2. CalledBy(F[k + 1], F[(k + 1) + 1])
    BY <2>1 DEF Stack
  <2> QED
    BY <1>1, <2>1, <2>2
<1>5. ASSUME NEW k \in 2 .. m - 1
      PROVE  Waits(G[k], v)
  <2>1. k \in 1 .. m - 1 /\ k + 1 \in 3 .. m
    OBVIOUS
  <2> QED
    BY <1>1, <2>1
<1>6. CASE m = 1
  BY <1>2, <1>3, <1>4, <1>5, <1>6 DEF Stack
<1>7. CASE m > 1
  <2>1. 1 \in 1 .. m - 1 /\ m - 1 \in 1 .. m - 1 /\ (m - 1) + 1 = m /\ 1 + 1 = 2
    BY <1>7
  <2>2. G[1] = F[2] /\ G[m - 1] = F[m]
    BY <1>1, <2>1
  <2>3. CalledBy(F[1], F[2])
    BY <2>1 DEF Stack
  <2>4. G[1].n # 1
    BY <2>2, <2>3 DEF CalledBy
  <2>5. /\ G[m - 1].n = NUM_DISCS /\ G[m - 1].startPeg = "A" /\ G[m - 1].tempPeg = "B"
        /\ G[m - 1].destPeg = "C"
    BY <2>2 DEF Stack
  <2>6. m - 1 > 0 /\ m - 1 # 0
    BY <1>7
  <2> QED
    BY <1>2, <1>3, <1>4, <1>5, <1>7, <2>2, <2>4, <2>5, <2>6 DEF Stack
<1> QED
  BY <1>6, <1>7

LEMMA StackReturn ==
  ASSUME NUM_DISCS \in Nat \ {0}, NEW F, NEW m \in Nat, m > 0, NEW w, Stack(F, m, w),
         F[1].n > 1, F[1].called = 3, NEW G, \A k \in 1 .. m - 1 : G[k] = F[k + 1]
  PROVE  Stack(G, m - 1, w)
<1>1. Placed(F[1], w) /\ w \in [1 .. NUM_DISCS -> Pegs]
  BY DEF Stack
<1>2. \A d \in 1 .. F[1].n : w[d] = F[1].destPeg
  BY <1>1 DEF Placed
<1>3. \A k \in 3 .. m : Waits(F[k], w)
  BY DEF Stack
<1>4. ASSUME m > 1
      PROVE  Placed(F[2], w)
  <2>1. 1 \in 1 .. m - 1 /\ 1 + 1 = 2 /\ 2 \in 1 .. m /\ 2 \in 2 .. m
    BY <1>4
  <2>2. CalledBy(F[1], F[2]) /\ Waits(F[2], w) /\ F[2] \in AllFrames /\ F[1].n > 1
    BY <2>1 DEF Stack
  <2>3. F[2].n \in Nat /\ F[2].n > 1 /\ F[1].n = F[2].n - 1 /\ F[2].called \in {1, 3}
    BY <2>2 DEF AllFrames, CalledBy
  <2>4. CASE F[2].called = 1
    <3>1. F[1].destPeg = F[2].tempPeg /\ w[F[2].n] = F[2].startPeg
      BY <2>2, <2>4 DEF CalledBy, Waits
    <3> QED
      BY <1>2, <2>3, <2>4, <3>1 DEF Placed
  <2>5. CASE F[2].called = 3
    <3>1. F[1].destPeg = F[2].destPeg /\ w[F[2].n] = F[2].destPeg
      BY <2>2, <2>5 DEF CalledBy, Waits
    <3>2. \A d \in 1 .. F[2].n : d \in 1 .. F[2].n - 1 \/ d = F[2].n
      BY <2>3
    <3>3. \A d \in 1 .. F[2].n : w[d] = F[2].destPeg
      BY <1>2, <2>3, <3>1, <3>2
    <3> QED
      BY <2>5, <3>3 DEF Placed
  <2> QED
    BY <2>3, <2>4, <2>5
<1>5. m = 1 => \A d \in 1 .. NUM_DISCS : w[d] = "C"
  BY <1>2 DEF Stack
<1> QED
  BY <1>1, <1>3, <1>4, <1>5, StackBelow

(* The disc of a call for one disc, and the call after the move.           *)
LEMMA StackDisc ==
  ASSUME NUM_DISCS \in Nat \ {0}, NEW F, NEW m \in Nat, m > 0, NEW w, Stack(F, m, w),
         F[1].n = 1
  PROVE  /\ OneDisc(F, m) \in 1 .. NUM_DISCS
         /\ OnePlaced(F[1], OneDisc(F, m), w)
         /\ F[1].startPeg \in Pegs /\ F[1].destPeg \in Pegs /\ F[1].tempPeg \in Pegs
         /\ F[1].startPeg # F[1].destPeg /\ F[1].tempPeg # F[1].destPeg
         /\ F[1].startPeg # F[1].tempPeg
<1>1. 1 \in 1 .. m
  OBVIOUS
<1>2. F[1] \in AllFrames
  BY <1>1 DEF Stack
<1>3. OneDisc(F, m) \in 1 .. NUM_DISCS
  <2>1. CASE m > 1
    <3>1. 2 \in 1 .. m
      BY <2>1
    <3>2. F[2] \in AllFrames
      BY <3>1 DEF Stack
    <3> QED
      BY <3>2 DEF AllFrames, OneDisc
  <2>2. CASE ~(m > 1)
    BY <2>2 DEF OneDisc
  <2> QED
    BY <2>1, <2>2
<1> QED
  BY <1>1, <1>2, <1>3 DEF Stack, AllFrames

LEMMA StackMove ==
  ASSUME NUM_DISCS \in Nat \ {0}, NEW F, NEW m \in Nat, m > 0, NEW w, Stack(F, m, w),
         F[1].n = 1, NEW G, \A k \in 1 .. m - 1 : G[k] = F[k + 1]
  PROVE  Stack(G, m - 1, [w EXCEPT ![OneDisc(F, m)] = F[1].destPeg])
<1> DEFINE D == OneDisc(F, m)
           v == [w EXCEPT ![D] = F[1].destPeg]
<1>1. /\ D \in 1 .. NUM_DISCS /\ OnePlaced(F[1], D, w) /\ F[1].destPeg \in Pegs
      /\ w \in [1 .. NUM_DISCS -> Pegs]
  BY StackDisc DEF Stack
<1>2. /\ v \in [1 .. NUM_DISCS -> Pegs] /\ v[D] = F[1].destPeg
      /\ \A d \in 1 .. NUM_DISCS : d # D => v[d] = w[d]
      /\ \A d \in 1 .. D - 1 : d \in 1 .. NUM_DISCS /\ v[d] = F[1].tempPeg
  BY <1>1 DEF OnePlaced
<1> HIDE DEF v
<1>3. \A k \in 1 .. m : F[k].n \in 1 .. NUM_DISCS /\ F[k].n \in Nat /\ F[k] \in AllFrames
  BY DEF Stack, AllFrames
<1>4. ASSUME NEW k \in 3 .. m
      PROVE  F[k].n # D
  <2>1. 1 \in 1 .. m /\ 2 \in 1 .. m /\ k \in 1 .. m /\ 1 < k /\ 2 < k
    OBVIOUS
  <2>2. F[1].n < F[k].n /\ F[2].n < F[k].n
    BY <2>1 DEF Stack
  <2>3. F[1].n \in Nat /\ F[2].n \in Nat /\ F[k].n \in Nat
    BY <1>3, <2>1
  <2> QED
    BY <2>2, <2>3 DEF OneDisc
<1>5. \A k \in 3 .. m : Waits(F[k], v)
  <2> SUFFICES ASSUME NEW k \in 3 .. m
               PROVE  Waits(F[k], v)
    OBVIOUS
  <2>1. k \in 2 .. m /\ k \in 1 .. m
    OBVIOUS
  <2>2. Waits(F[k], w) /\ v[F[k].n] = w[F[k].n]
    BY <1>2, <1>3, <1>4, <2>1 DEF Stack
  <2> QED
    BY <2>2 DEF Waits
<1>6. ASSUME m > 1
      PROVE  Placed(F[2], v)
  <2>1. 1 \in 1 .. m - 1 /\ 1 + 1 = 2 /\ 2 \in 1 .. m /\ 2 \in 2 .. m
    BY <1>6
  <2>2. CalledBy(F[1], F[2]) /\ Waits(F[2], w)
    BY <2>1 DEF Stack
  <2>3. F[2].n \in 1 .. NUM_DISCS /\ F[2].n \in Nat
    BY <1>3, <2>1
  <2>4. CASE F[2].called = 2
    <3>1. D = F[2].n /\ F[1].destPeg = F[2].destPeg /\ F[1].tempPeg = F[2].tempPeg
      BY <1>6, <2>2, <2>4 DEF OneDisc, CalledBy
    <3> QED
      BY <1>2, <2>4, <3>1 DEF Placed
  <2>5. CASE F[2].called = 1
    <3>1. /\ D = 1 /\ F[1].destPeg = F[2].tempPeg /\ F[2].n = 2
          /\ w[F[2].n] = F[2].startPeg
      BY <2>2, <2>3, <2>5 DEF OneDisc, CalledBy, Waits
    <3>2. v[1] = F[2].tempPeg /\ v[2] = F[2].startPeg
      BY <1>2, <2>3, <3>1
    <3>3. \A d \in 1 .. F[2].n - 1 : d = 1
      BY <3>1
    <3> QED
      BY <2>5, <3>1, <3>2, <3>3 DEF Placed
  <2>6. CASE F[2].called = 3
    <3>1. /\ D = 1 /\ F[1].destPeg = F[2].destPeg /\ F[2].n = 2
          /\ w[F[2].n] = F[2].destPeg
      BY <2>2, <2>3, <2>6 DEF OneDisc, CalledBy, Waits
    <3>2. v[1] = F[2].destPeg /\ v[2] = F[2].destPeg
      BY <1>2, <2>3, <3>1
    <3>3. \A d \in 1 .. F[2].n : d = 1 \/ d = 2
      BY <3>1
    <3> QED
      BY <2>6, <3>1, <3>2, <3>3 DEF Placed
  <2> QED
    BY <2>2, <2>4, <2>5, <2>6 DEF CalledBy
<1>7. m = 1 => \A d \in 1 .. NUM_DISCS : v[d] = "C"
  BY <1>2 DEF Stack, OneDisc
<1>8. Stack(G, m - 1, v)
  BY <1>2, <1>5, <1>6, <1>7, StackBelow
<1> QED
  BY <1>8 DEF v

(* The first call.                                                         *)
LEMMA StackFirst ==
  ASSUME NUM_DISCS \in Nat \ {0}, NEW F, F[1] = T!Frame(NUM_DISCS, "A", "B", "C")
  PROVE  Stack(F, 1, [d \in 1 .. NUM_DISCS |-> "A"])
<1> DEFINE w == [d \in 1 .. NUM_DISCS |-> "A"]
<1>1. /\ F[1] \in AllFrames /\ F[1].n = NUM_DISCS /\ F[1].startPeg = "A" /\ F[1].tempPeg = "B"
      /\ F[1].destPeg = "C" /\ F[1].called = 0
  BY DEF T!Frame, AllFrames, Pegs
<1>2. w \in [1 .. NUM_DISCS -> Pegs] /\ \A d \in 1 .. NUM_DISCS : w[d] = "A"
  BY DEF Pegs
<1> HIDE DEF w
<1>3. OnePlaced(F[1], OneDisc(F, 1), w) /\ Placed(F[1], w)
  BY <1>1, <1>2 DEF OnePlaced, OneDisc, Placed
<1>4. Stack(F, 1, w)
  <2>1. \A k \in 1 .. 1 : k = 1
    OBVIOUS
  <2>2. 2 .. 1 = {} /\ 1 .. 1 - 1 = {}
    OBVIOUS
  <2> QED
    BY <1>1, <1>2, <1>3, <2>1, <2>2 DEF Stack
<1> QED
  BY <1>4 DEF w

(* How many moves have been made.  pow(n) is 2 ^ n.                         *)
Powers(pow) == /\ pow \in [0 .. NUM_DISCS -> Nat] /\ pow[0] = 1
               /\ \A n \in 1 .. NUM_DISCS : pow[n] = 2 * pow[n - 1]

(* By the calls a call has made, when the last is running and when it is   *)
(* not.                                                                    *)
Before(pow, g) == IF g.called = 1 THEN 0 ELSE IF g.called = 2 THEN pow[g.n - 1] - 1
                  ELSE pow[g.n - 1]
Done(pow, f) == IF f.called = 0 THEN 0 ELSE IF f.called = 1 THEN pow[f.n - 1] - 1
                ELSE IF f.called = 2 THEN pow[f.n - 1] ELSE pow[f.n] - 1

(* start[k] moves had been made when call k began.                         *)
Counts(pow, F, m, start, moves) ==
    /\ \A k \in 1 .. m : start[k] \in Int
    /\ \A k \in 1 .. m - 1 : start[k] = start[k + 1] + Before(pow, F[k + 1])
    /\ m > 0 => start[m] = 0 /\ moves = start[1] + Done(pow, F[1])
    /\ m = 0 => moves = pow[NUM_DISCS] - 1

Counted(pow, F, m, moves) == \E start : Counts(pow, F, m, start, moves)

LEMMA PowerFacts ==
  ASSUME NUM_DISCS \in Nat \ {0}, NEW pow, Powers(pow)
  PROVE  /\ \A n \in 1 .. NUM_DISCS : pow[n - 1] \in Nat /\ pow[n] \in Nat
                                       /\ pow[n] = 2 * pow[n - 1]
         /\ pow[0] = 1 /\ pow[1] = 2
<1>1. \A n \in 1 .. NUM_DISCS : n - 1 \in 0 .. NUM_DISCS /\ n \in 0 .. NUM_DISCS
  OBVIOUS
<1>2. \A n \in 1 .. NUM_DISCS : pow[n - 1] \in Nat /\ pow[n] \in Nat /\ pow[n] = 2 * pow[n - 1]
  BY <1>1 DEF Powers
<1>3. pow[0] = 1 /\ pow[1] = 2
  <2>1. 1 \in 1 .. NUM_DISCS /\ 1 - 1 = 0
    OBVIOUS
  <2>2. pow[1] = 2 * pow[1 - 1] /\ pow[0] = 1
    BY <2>1 DEF Powers
  <2> QED
    BY <2>1, <2>2
<1> QED
  BY <1>2, <1>3

LEMMA CountedCall ==
  ASSUME NUM_DISCS \in Nat \ {0}, NEW pow, Powers(pow), NEW F, NEW m \in Nat, m > 0, NEW w,
         Stack(F, m, w), F[1].n > 1, F[1].called # 3,
         NEW G, G[1] = T!Call(F[1]), G[2] = [F[1] EXCEPT !.called = @ + 1],
         \A k \in 2 .. m : G[k + 1] = F[k],
         NEW moves, Counted(pow, F, m, moves)
  PROVE  Counted(pow, G, m + 1, moves)
<1>1. PICK start : Counts(pow, F, m, start, moves)
  BY DEF Counted
<1> DEFINE s == [k \in 1 .. m + 1 |-> IF k = 1 THEN moves ELSE start[k - 1]]
<1>2. /\ F[1] \in AllFrames /\ F[1].n \in 1 .. NUM_DISCS /\ F[1].called \in 0 .. 2
  BY DEF Stack, AllFrames
<1>3. pow[F[1].n - 1] \in Nat /\ pow[F[1].n] \in Nat
  BY <1>2, PowerFacts
<1>4. moves \in Int /\ start[1] \in Int /\ moves = start[1] + Done(pow, F[1])
  BY <1>1, <1>2, <1>3 DEF Counts, Done
<1>5. G[2].called = F[1].called + 1 /\ G[2].n = F[1].n /\ G[1].called = 0
  BY <1>2 DEF AllFrames, T!Call, T!Frame
<1>6. Done(pow, F[1]) = Before(pow, G[2]) /\ Done(pow, G[1]) = 0
  BY <1>2, <1>5 DEF Done, Before
<1>7. s[1] = moves /\ s[2] = start[1] /\ \A k \in 2 .. m + 1 : s[k] = start[k - 1]
  OBVIOUS
<1> HIDE DEF s
<1>8. \A k \in 1 .. m + 1 : s[k] \in Int
  <2> SUFFICES ASSUME NEW k \in 1 .. m + 1, k # 1
               PROVE  s[k] \in Int
    BY <1>4, <1>7
  <2>1. k \in 2 .. m + 1 /\ k - 1 \in 1 .. m
    OBVIOUS
  <2> QED
    BY <1>1, <1>7, <2>1 DEF Counts
<1>9. ASSUME NEW k \in 1 .. m
      PROVE  s[k] = s[k + 1] + Before(pow, G[k + 1])
  <2>1. CASE k = 1
    BY <1>4, <1>6, <1>7, <2>1
  <2>2. CASE k # 1
    <3>1. k - 1 \in 1 .. m - 1 /\ (k - 1) + 1 = k /\ k \in 2 .. m + 1 /\ k + 1 \in 2 .. m + 1
          /\ (k + 1) - 1 = k /\ k \in 2 .. m
      BY <2>2
    <3>2. start[k - 1] = start[k] + Before(pow, F[k])
      BY <1>1, <3>1 DEF Counts
    <3> QED
      BY <1>7, <3>1, <3>2
  <2> QED
    BY <2>1, <2>2
<1>10. s[m + 1] = 0
  <2>1. m + 1 \in 2 .. m + 1 /\ (m + 1) - 1 = m
    OBVIOUS
  <2> QED
    BY <1>1, <1>7, <2>1 DEF Counts
<1>11. (m + 1) - 1 = m /\ m + 1 > 0 /\ m + 1 # 0 /\ moves = s[1] + Done(pow, G[1])
  BY <1>4, <1>6, <1>7
<1>12. Counts(pow, G, m + 1, s, moves)
  BY <1>8, <1>9, <1>10, <1>11 DEF Counts
<1> QED
  BY <1>12 DEF Counted

(* A call that has made all its moves is over, and its caller is further.  *)
LEMMA CountedBelow ==
  ASSUME NUM_DISCS \in Nat \ {0}, NEW pow, Powers(pow), NEW F, NEW m \in Nat, m > 0, NEW w,
         Stack(F, m, w), NEW G, \A k \in 1 .. m - 1 : G[k] = F[k + 1],
         NEW start, \A k \in 1 .. m : start[k] \in Int,
         \A k \in 1 .. m - 1 : start[k] = start[k + 1] + Before(pow, F[k + 1]),
         start[m] = 0,
         NEW moves, moves = start[1] + pow[F[1].n] - 1
  PROVE  Counted(pow, G, m - 1, moves)
<1> DEFINE s == [k \in 1 .. m - 1 |-> start[k + 1]]
<1>1. \A k \in 1 .. m - 1 : /\ s[k] = start[k + 1] /\ G[k] = F[k + 1] /\ k + 1 \in 1 .. m
                            /\ s[k] \in Int
  OBVIOUS
<1> HIDE DEF s
<1>2. ASSUME NEW k \in 1 .. (m - 1) - 1
      PROVE  s[k] = s[k + 1] + Before(pow, G[k + 1])
  <2>1. k + 1 \in 1 .. m - 1 /\ k \in 1 .. m - 1
    OBVIOUS
  <2>2. start[k + 1] = start[(k + 1) + 1] + Before(pow, F[(k + 1) + 1])
    BY <2>1
  <2> QED
    BY <1>1, <2>1, <2>2
<1>3. CASE m = 1
  <2>1. F[1].n = NUM_DISCS
    BY <1>3 DEF Stack
  <2>2. moves = pow[NUM_DISCS] - 1
    <3>1. pow[NUM_DISCS] \in Nat
      BY PowerFacts
    <3> QED
      BY <1>3, <2>1, <3>1
  <2> QED
    BY <1>1, <1>2, <1>3, <2>2 DEF Counts, Counted
<1>4. CASE m > 1
  <2>1. 1 \in 1 .. m - 1 /\ m - 1 \in 1 .. m - 1 /\ (m - 1) + 1 = m /\ 1 + 1 = 2 /\ 2 \in 1 .. m
        /\ 1 \in 1 .. m
    BY <1>4
  <2>2. /\ s[1] = start[2] /\ s[m - 1] = 0 /\ G[1] = F[2]
        /\ start[1] = start[2] + Before(pow, F[2]) /\ start[1] \in Int /\ start[2] \in Int
    BY <1>1, <2>1
  <2>3. CalledBy(F[1], F[2]) /\ F[2] \in AllFrames
    BY <2>1 DEF Stack
  <2>4. F[2].n \in 1 .. NUM_DISCS /\ F[2].n > 1 /\ F[2].called \in 1 .. 3
    BY <2>3 DEF CalledBy, AllFrames
  <2>5. /\ pow[F[2].n - 1] \in Nat /\ pow[F[2].n] \in Nat /\ pow[F[2].n] = 2 * pow[F[2].n - 1]
        /\ pow[1] = 2
    BY <2>4, PowerFacts
  <2>6. moves = s[1] + Done(pow, G[1])
    <3>1. CASE F[2].called = 1
      BY <2>2, <2>3, <2>5, <3>1 DEF CalledBy, Done, Before
    <3>2. CASE F[2].called = 2
      BY <2>2, <2>3, <2>5, <3>2 DEF CalledBy, Done, Before
    <3>3. CASE F[2].called = 3
      BY <2>2, <2>3, <2>5, <3>3 DEF CalledBy, Done, Before
    <3> QED
      BY <2>4, <3>1, <3>2, <3>3
  <2>7. m - 1 > 0 /\ m - 1 # 0
    BY <1>4
  <2>8. Counts(pow, G, m - 1, s, moves)
    BY <1>1, <1>2, <2>2, <2>6, <2>7 DEF Counts
  <2> QED
    BY <2>8 DEF Counted
<1> QED
  BY <1>3, <1>4

LEMMA CountedReturn ==
  ASSUME NUM_DISCS \in Nat \ {0}, NEW pow, Powers(pow), NEW F, NEW m \in Nat, m > 0, NEW w,
         Stack(F, m, w), F[1].n > 1, F[1].called = 3,
         NEW G, \A k \in 1 .. m - 1 : G[k] = F[k + 1],
         NEW moves, Counted(pow, F, m, moves)
  PROVE  Counted(pow, G, m - 1, moves)
<1>1. PICK start : Counts(pow, F, m, start, moves)
  BY DEF Counted
<1>2. /\ \A k \in 1 .. m : start[k] \in Int
      /\ \A k \in 1 .. m - 1 : start[k] = start[k + 1] + Before(pow, F[k + 1])
      /\ start[m] = 0
      /\ moves = start[1] + Done(pow, F[1])
  BY <1>1 DEF Counts
<1>3. pow[F[1].n] \in Nat /\ start[1] \in Int
  <2>1. 1 \in 1 .. m /\ F[1].n \in 1 .. NUM_DISCS
    BY DEF Stack, AllFrames
  <2> QED
    BY <1>2, <2>1, PowerFacts
<1>4. moves = start[1] + pow[F[1].n] - 1
  BY <1>2, <1>3 DEF Done
<1> QED
  BY <1>2, <1>4, CountedBelow

LEMMA CountedMove ==
  ASSUME NUM_DISCS \in Nat \ {0}, NEW pow, Powers(pow), NEW F, NEW m \in Nat, m > 0, NEW w,
         Stack(F, m, w), F[1].n = 1,
         NEW G, \A k \in 1 .. m - 1 : G[k] = F[k + 1],
         NEW moves, Counted(pow, F, m, moves)
  PROVE  Counted(pow, G, m - 1, moves + 1)
<1>1. PICK start : Counts(pow, F, m, start, moves)
  BY DEF Counted
<1>2. /\ \A k \in 1 .. m : start[k] \in Int
      /\ \A k \in 1 .. m - 1 : start[k] = start[k + 1] + Before(pow, F[k + 1])
      /\ start[m] = 0
      /\ moves = start[1] + Done(pow, F[1])
  BY <1>1 DEF Counts
<1>3. pow[F[1].n] = 2 /\ start[1] \in Int /\ F[1].called = 0
  <2>1. 1 \in 1 .. m
    OBVIOUS
  <2> QED
    BY <1>2, <2>1, PowerFacts DEF Stack
<1>4. moves + 1 = start[1] + pow[F[1].n] - 1
  BY <1>2, <1>3 DEF Done
<1> DEFINE made == moves + 1
<1>5. made = start[1] + pow[F[1].n] - 1
  BY <1>4
<1> HIDE DEF made
<1>6. Counted(pow, G, m - 1, made)
  BY <1>2, <1>5, CountedBelow
<1> QED
  BY <1>6 DEF made

LEMMA CountedFirst ==
  ASSUME NUM_DISCS \in Nat \ {0}, NEW pow, Powers(pow),
         NEW F, F[1] = T!Frame(NUM_DISCS, "A", "B", "C")
  PROVE  Counted(pow, F, 1, 0)
<1> DEFINE s == [k \in 1 .. 1 |-> 0]
<1>1. s[1] = 0 /\ \A k \in 1 .. 1 : k = 1
  OBVIOUS
<1>2. Done(pow, F[1]) = 0
  BY DEF T!Frame, Done
<1> HIDE DEF s
<1>3. 1 .. 1 - 1 = {}
  OBVIOUS
<1>4. Counts(pow, F, 1, s, 0)
  BY <1>1, <1>2, <1>3 DEF Counts
<1> QED
  BY <1>4 DEF Counted

-----------------------------------------------------------------------------
(* The discs on the pegs, the top one first: w[d] is the peg of disc d.    *)
Discs(w, on) ==
    /\ w \in [1 .. NUM_DISCS -> Pegs] /\ on \in [Pegs -> Seq(1 .. NUM_DISCS)]
    /\ \A p \in Pegs : \A k \in 1 .. Len(on[p]) :
          /\ w[on[p][k]] = p
          /\ \A e \in 1 .. Len(on[p]) : k < e => on[p][k] < on[p][e]
    /\ \A d \in 1 .. NUM_DISCS : \E k \in 1 .. Len(on[w[d]]) : on[w[d]][k] = d

DiscMoved(on, p, q) == [on EXCEPT ![p] = Tail(on[p]), ![q] = <<Head(on[p])>> \o on[q]]

LEMMA SeqFacts ==
  ASSUME NEW s \in Seq(1 .. NUM_DISCS)
  PROVE  /\ Len(s) \in Nat
         /\ \A k \in 1 .. Len(s) : s[k] \in 1 .. NUM_DISCS
         /\ s # << >> <=> Len(s) > 0
         /\ s # << >> => Head(s) = s[1]
<1>1. Len(s) \in Nat /\ \A k \in 1 .. Len(s) : s[k] \in 1 .. NUM_DISCS
  <2> DEFINE S == 1 .. NUM_DISCS
  <2>1. s \in Seq(S)
    OBVIOUS
  <2> HIDE DEF S
  <2>2. \A k \in 1 .. Len(s) : s[k] \in S
    BY <2>1
  <2> QED
    BY <2>2 DEF S
<1>2. s # << >> => Len(s) > 0
  <2>1. s # << >> => Len(s) \in Nat \ {0}
    BY EmptySeq, Zenon
  <2> QED
    BY <2>1
<1>3. Len(s) > 0 => s # << >>
  <2>1. ASSUME Len(s) > 0
        PROVE  1 \in DOMAIN s
    BY <2>1, <1>1
  <2>2. 1 \notin DOMAIN << >>
    OBVIOUS
  <2> QED
    BY <2>1, <2>2, Zenon
<1>4. s # << >> => Head(s) = s[1]
  OBVIOUS
<1> QED
  BY <1>1, <1>2, <1>3, <1>4, Zenon

(* A disc with no smaller one on its peg or another can go there.          *)
LEMMA DiscIsTop ==
  ASSUME NUM_DISCS \in Nat, NEW w, NEW on, Discs(w, on), NEW d \in 1 .. NUM_DISCS, NEW q \in Pegs,
         w[d] # q, \A e \in 1 .. d - 1 : w[e] \notin {w[d], q}
  PROVE  /\ w[d] \in Pegs /\ on[w[d]] # << >> /\ Head(on[w[d]]) = d
         /\ on[q] # << >> => d < Head(on[q])
<1>1. w[d] \in Pegs /\ on[w[d]] \in Seq(1 .. NUM_DISCS) /\ on[q] \in Seq(1 .. NUM_DISCS)
  BY DEF Discs
<1>2. PICK k \in 1 .. Len(on[w[d]]) : on[w[d]][k] = d
  BY DEF Discs
<1>3. Len(on[w[d]]) \in Nat /\ on[w[d]] # << >> /\ 1 \in 1 .. Len(on[w[d]])
  BY <1>1, <1>2, SeqFacts
<1>4. on[w[d]][1] \in 1 .. NUM_DISCS /\ w[on[w[d]][1]] = w[d]
  BY <1>1, <1>3, SeqFacts DEF Discs
<1>5. ~(1 < k)
  <2> SUFFICES ASSUME 1 < k
               PROVE  FALSE
    OBVIOUS
  <2>1. on[w[d]][1] < on[w[d]][k]
    BY <1>1, <1>2, <1>3 DEF Discs
  <2>2. on[w[d]][1] \in 1 .. d - 1
    BY <1>2, <1>4, <2>1
  <2> QED
    BY <1>4, <2>2
<1>6. k = 1
  BY <1>3, <1>5
<1>7. Head(on[w[d]]) = d
  BY <1>1, <1>2, <1>3, <1>6, SeqFacts
<1>8. ASSUME on[q] # << >>
      PROVE  d < Head(on[q])
  <2>1. Head(on[q]) = on[q][1] /\ 1 \in 1 .. Len(on[q])
    BY <1>1, <1>8, SeqFacts
  <2>2. on[q][1] \in 1 .. NUM_DISCS /\ w[on[q][1]] = q
    BY <1>1, <2>1, SeqFacts DEF Discs
  <2>3. on[q][1] \notin 1 .. d - 1 /\ on[q][1] # d
    BY <2>2
  <2> QED
    BY <2>1, <2>2, <2>3
<1> QED
  BY <1>1, <1>3, <1>7, <1>8

LEMMA DiscsMoved ==
  ASSUME NUM_DISCS \in Nat, NEW w, NEW on, Discs(w, on), NEW p \in Pegs, NEW q \in Pegs, p # q,
         on[p] # << >>, on[q] # << >> => Head(on[p]) < Head(on[q])
  PROVE  Discs([w EXCEPT ![Head(on[p])] = q], DiscMoved(on, p, q))
<1> DEFINE D == Head(on[p])
           v == [w EXCEPT ![D] = q]
           s == on[p]
           t == on[q]
           s2 == Tail(s)
           t2 == Cons(D, t)
           x == DiscMoved(on, p, q)
<1>1. /\ s \in Seq(1 .. NUM_DISCS) /\ t \in Seq(1 .. NUM_DISCS)
      /\ w \in [1 .. NUM_DISCS -> Pegs] /\ on \in [Pegs -> Seq(1 .. NUM_DISCS)]
  BY DEF Discs
<1>2. /\ Len(s) \in Nat /\ Len(s) >= 1 /\ Len(t) \in Nat /\ D \in 1 .. NUM_DISCS /\ D = s[1]
      /\ s2 \in Seq(1 .. NUM_DISCS) /\ Len(s2) = Len(s) - 1
      /\ \A k \in 1 .. Len(s) - 1 : s2[k] = s[k + 1]
  <2>1. Len(t) \in Nat
    BY <1>1
  <2> QED
    BY <1>1, <2>1, TailFacts, Zenon
<1>3. /\ t2 \in Seq(1 .. NUM_DISCS) /\ Len(t2) = Len(t) + 1
      /\ t2[1] = D /\ \A k \in 1 .. Len(t) : t2[k + 1] = t[k]
  <2> DEFINE S == 1 .. NUM_DISCS
  <2>1. D \in S /\ t \in Seq(S)
    BY <1>1, <1>2
  <2> HIDE DEF D, t, S
  <2>3. t2 \in Seq(S) /\ IsCons(t2, D, t)
    BY <2>1, ConsIs
  <2> HIDE DEF t2
  <2>2. /\ t2 \in Seq(S) /\ Len(t2) = Len(t) + 1
        /\ t2[1] = D /\ \A k \in 1 .. Len(t) : t2[k + 1] = t[k]
    BY <2>3, Zenon DEF IsCons
  <2> QED
    BY <2>2, Zenon DEF S
<1>4. /\ x \in [Pegs -> Seq(1 .. NUM_DISCS)] /\ x[p] = s2 /\ x[q] = t2
      /\ \A r \in Pegs \ {p, q} : x[r] = on[r]
  <2>1. x = [on EXCEPT ![p] = s2, ![q] = t2]
    BY DEF DiscMoved, Cons
  <2> HIDE DEF s2, t2, x
  <2> QED
    BY <1>1, <1>2, <1>3, <2>1
<1>5. /\ v \in [1 .. NUM_DISCS -> Pegs] /\ v[D] = q
      /\ \A d \in 1 .. NUM_DISCS \ {D} : v[d] = w[d]
  BY <1>1, <1>2
<1> HIDE DEF x, v, s2, t2, D
<1>6. \A r \in Pegs : \A k \in 1 .. Len(on[r]) :
         /\ w[on[r][k]] = r /\ on[r][k] \in 1 .. NUM_DISCS
         /\ \A e \in 1 .. Len(on[r]) : k < e => on[r][k] < on[r][e]
  <2> SUFFICES ASSUME NEW r \in Pegs, NEW k \in 1 .. Len(on[r])
               PROVE  /\ w[on[r][k]] = r /\ on[r][k] \in 1 .. NUM_DISCS
                      /\ \A e \in 1 .. Len(on[r]) : k < e => on[r][k] < on[r][e]
    OBVIOUS
  <2>1. on[r] \in Seq(1 .. NUM_DISCS)
    BY <1>1
  <2>2. on[r][k] \in 1 .. NUM_DISCS
    BY <2>1, SeqFacts
  <2> QED
    BY <2>2 DEF Discs
<1>7. \A k \in 1 .. Len(s2) : /\ k + 1 \in 1 .. Len(s) /\ s2[k] = s[k + 1] /\ s2[k] # D
                              /\ w[s2[k]] = p /\ s2[k] \in 1 .. NUM_DISCS
  <2> SUFFICES ASSUME NEW k \in 1 .. Len(s2)
               PROVE  /\ k + 1 \in 1 .. Len(s) /\ s2[k] = s[k + 1] /\ s2[k] # D
                      /\ w[s2[k]] = p /\ s2[k] \in 1 .. NUM_DISCS
    OBVIOUS
  <2>1. k \in 1 .. Len(s) - 1 /\ k + 1 \in 1 .. Len(s) /\ 1 \in 1 .. Len(s) /\ 1 < k + 1
    BY <1>2
  <2>2. s2[k] = s[k + 1]
    BY <1>2, <2>1
  <2>3. s[1] < s[k + 1] /\ w[s[k + 1]] = p /\ s[k + 1] \in 1 .. NUM_DISCS
    BY <1>6, <2>1
  <2> QED
    BY <1>2, <2>1, <2>2, <2>3
<1>8. ASSUME NEW k \in 1 .. Len(t2)
      PROVE  IF k = 1 THEN t2[k] = D ELSE /\ k - 1 \in 1 .. Len(t) /\ t2[k] = t[k - 1]
                                          /\ w[t2[k]] = q /\ t2[k] \in 1 .. NUM_DISCS
                                          /\ D < t2[k]
  <2>1. CASE k = 1
    BY <1>3, <2>1
  <2>2. CASE k # 1
    <3>1. k - 1 \in 1 .. Len(t) /\ (k - 1) + 1 = k /\ 1 \in 1 .. Len(t)
      <4>1. Len(t) \in Nat /\ Len(t2) = Len(t) + 1
        BY <1>2, <1>3
      <4> HIDE DEF t, t2
      <4> QED
        BY <2>2, <4>1
    <3>2. t2[k] = t[k - 1] /\ w[t[k - 1]] = q /\ t[k - 1] \in 1 .. NUM_DISCS
      BY <1>3, <1>6, <3>1
    <3>3. t # << >> /\ Head(t) = t[1] /\ D < t[1] /\ t[1] \in 1 .. NUM_DISCS
      BY <1>1, <1>6, <3>1 DEF D
    <3>4. t[1] <= t[k - 1]
      <4>1. CASE k - 1 = 1
        BY <3>3, <4>1
      <4>2. CASE 1 < k - 1
        <5>1. \A e \in 1 .. Len(t) : 1 < e => t[1] < t[e]
          BY <1>6, <3>1
        <5>2. t[1] < t[k - 1]
          BY <3>1, <4>2, <5>1
        <5> QED
          BY <3>2, <3>3, <5>2
      <4> QED
        BY <3>1, <4>1, <4>2
    <3>5. D < t2[k]
      <4>1. D \in Nat
        BY <1>2
      <4> HIDE DEF D, s, t, s2, t2, x, v
      <4> QED
        BY <3>2, <3>3, <3>4, <4>1
    <3> QED
      BY <2>2, <3>1, <3>2, <3>5
  <2> QED
    BY <2>1, <2>2
<1>9. ASSUME NEW r \in Pegs, NEW k \in 1 .. Len(x[r])
      PROVE  /\ v[x[r][k]] = r
             /\ \A e \in 1 .. Len(x[r]) : k < e => x[r][k] < x[r][e]
  <2>1. CASE r = p
    <3>1. k \in 1 .. Len(s2)
      BY <1>4, <2>1
    <3>2. v[s2[k]] = p
      BY <1>5, <1>7, <3>1
    <3>3. ASSUME NEW e \in 1 .. Len(s2), k < e
          PROVE  s2[k] < s2[e]
      <4>1. k + 1 < e + 1
        BY <1>2, <3>1, <3>3
      <4> QED
        BY <1>6, <1>7, <3>1, <4>1
    <3> QED
      BY <1>4, <2>1, <3>2, <3>3
  <2>2. CASE r = q
    <3>1. k \in 1 .. Len(t2)
      BY <1>4, <2>2
    <3>2. v[t2[k]] = q
      BY <1>2, <1>5, <1>8, <3>1
    <3>3. ASSUME NEW e \in 1 .. Len(t2), k < e
          PROVE  t2[k] < t2[e]
      <4>0. e # 1
        BY <1>3, <1>2, <3>1, <3>3
      <4>1. CASE k = 1
        BY <1>8, <3>1, <4>0, <4>1
      <4>2. CASE k # 1
        <5>1. /\ k - 1 \in 1 .. Len(t) /\ e - 1 \in 1 .. Len(t)
              /\ t2[k] = t[k - 1] /\ t2[e] = t[e - 1]
          BY <1>8, <3>1, <4>0, <4>2
        <5>2. k - 1 < e - 1
          BY <1>2, <1>3, <3>1, <3>3
        <5> QED
          BY <1>6, <5>1, <5>2
      <4> QED
        BY <4>1, <4>2
    <3> QED
      BY <1>4, <2>2, <3>2, <3>3
  <2>3. CASE r \notin {p, q}
    <3>1. x[r] = on[r]
      BY <1>4, <2>3
    <3>2. w[on[r][k]] = r /\ on[r][k] \in 1 .. NUM_DISCS
      BY <1>6, <3>1
    <3>3. w[D] = p
      BY <1>2, <1>6
    <3> QED
      BY <1>5, <1>6, <2>3, <3>1, <3>2, <3>3
  <2> QED
    BY <2>1, <2>2, <2>3
<1>10. ASSUME NEW d \in 1 .. NUM_DISCS
       PROVE  \E k \in 1 .. Len(x[v[d]]) : x[v[d]][k] = d
  <2>1. CASE d = D
    <3>1. 1 \in 1 .. Len(t2) /\ t2[1] = d
      BY <1>2, <1>3, <2>1
    <3> QED
      BY <1>4, <1>5, <2>1, <3>1
  <2>2. CASE d # D
    <3>1. v[d] = w[d] /\ w[d] \in Pegs
      BY <1>1, <1>5, <2>2
    <3>2. PICK k \in 1 .. Len(on[w[d]]) : on[w[d]][k] = d
      BY DEF Discs
    <3>3. CASE w[d] = p
      <4>1. k # 1 /\ k \in 1 .. Len(s) /\ s[k] = d
        BY <1>2, <2>2, <3>2, <3>3
      <4>2. k - 1 \in 1 .. Len(s2) /\ k - 1 \in 1 .. Len(s) - 1 /\ (k - 1) + 1 = k
        BY <1>2, <4>1
      <4>3. s2[k - 1] = d
        BY <1>2, <4>1, <4>2
      <4> QED
        BY <1>4, <3>1, <3>3, <4>2, <4>3
    <3>4. CASE w[d] = q
      <4>1. k + 1 \in 1 .. Len(t2) /\ k \in 1 .. Len(t)
        BY <1>2, <1>3, <3>2, <3>4
      <4>2. t2[k + 1] = d
        BY <1>3, <3>2, <3>4, <4>1
      <4> QED
        BY <1>4, <3>1, <3>4, <4>1, <4>2
    <3>5. CASE w[d] \notin {p, q}
      BY <1>4, <3>1, <3>2, <3>5
    <3> QED
      BY <3>3, <3>4, <3>5
  <2> QED
    BY <2>1, <2>2
<1>11. Discs(v, x)
  BY <1>4, <1>5, <1>9, <1>10 DEF Discs
<1> QED
  BY <1>11 DEF v, x, D

(* The discs that towers_init has pushed.                                  *)
LEMMA DiscsFirst ==
  ASSUME NUM_DISCS \in Nat
  PROVE  Discs([d \in 1 .. NUM_DISCS |-> "A"],
               [p \in Pegs |-> IF p = "A" THEN [d \in 1 .. NUM_DISCS |-> d] ELSE << >>])
<1> DEFINE w == [d \in 1 .. NUM_DISCS |-> "A"]
           s == [d \in 1 .. NUM_DISCS |-> d]
           on == [p \in Pegs |-> IF p = "A" THEN s ELSE << >>]
<1>1. s \in Seq(1 .. NUM_DISCS) /\ Len(s) = NUM_DISCS /\ \A d \in 1 .. NUM_DISCS : s[d] = d
  OBVIOUS
<1>2. w \in [1 .. NUM_DISCS -> Pegs] /\ \A d \in 1 .. NUM_DISCS : w[d] = "A"
  BY DEF Pegs
<1> HIDE DEF s, w
<1>3. on \in [Pegs -> Seq(1 .. NUM_DISCS)] /\ on["A"] = s /\ \A p \in Pegs : p # "A" => on[p] = << >>
  BY <1>1 DEF Pegs
<1> HIDE DEF on
<1>4. ASSUME NEW p \in Pegs, NEW k \in 1 .. Len(on[p])
      PROVE  /\ w[on[p][k]] = p
             /\ \A e \in 1 .. Len(on[p]) : k < e => on[p][k] < on[p][e]
  <2>1. CASE p = "A"
    BY <1>1, <1>2, <1>3, <2>1
  <2>2. CASE p # "A"
    BY <1>3, <2>2
  <2> QED
    BY <2>1, <2>2
<1>5. ASSUME NEW d \in 1 .. NUM_DISCS
      PROVE  \E k \in 1 .. Len(on[w[d]]) : on[w[d]][k] = d
  BY <1>1, <1>2, <1>3
<1>6. Discs(w, on)
  BY <1>2, <1>3, <1>4, <1>5 DEF Discs
<1> QED
  BY <1>6 DEF w, on, s

-----------------------------------------------------------------------------
(* The values on a list.                                                   *)
Vals(pool, x) == [k \in 1 .. Len(x) |-> pool[x[k]].val]

PoolType == [T!Nodes -> [val : Nat, next : 0 .. NUM_DISCS]]

LEMMA ValsType ==
  ASSUME NEW pool \in PoolType, NEW x \in Seq(T!Nodes)
  PROVE  /\ Vals(pool, x) \in Seq(Nat) /\ Len(Vals(pool, x)) = Len(x)
         /\ \A k \in 1 .. Len(x) : Vals(pool, x)[k] = pool[x[k]].val
<1>1. Len(x) \in Nat /\ \A k \in 1 .. Len(x) : pool[x[k]].val \in Nat
  BY DEF PoolType
<1> QED
  BY <1>1 DEF Vals

SameValues(pool, pool2, k) == \A n \in T!Nodes : n # k => pool2[n].val = pool[n].val

ValuesMoved(pool, pool2, c, q, r) ==
    /\ Vals(pool2, NodeMoved(c, q, r)[q]) = Tail(Vals(pool, c[q]))
    /\ Vals(pool2, NodeMoved(c, q, r)[r]) = <<pool2[c[q][1]].val>> \o Vals(pool, c[r])
    /\ \A p \in Lists \ {q, r} : Vals(pool2, NodeMoved(c, q, r)[p]) = Vals(pool, c[p])
    /\ Vals(pool, c[q]) # << >> /\ Head(Vals(pool, c[q])) = pool[c[q][1]].val

LEMMA ValsMoved ==
  ASSUME NUM_DISCS \in Nat, NEW pool \in PoolType, NEW pool2 \in PoolType, NEW h, NEW c,
         Linked(pool, h, c), NEW q \in Lists, NEW r \in Lists, q # r, c[q] # << >>,
         SameValues(pool, pool2, c[q][1])
  PROVE  ValuesMoved(pool, pool2, c, q, r)
<1> DEFINE d == NodeMoved(c, q, r)
<1>0. c \in [Lists -> Seq(T!Nodes)]
  BY DEF Linked
<1>1. /\ d \in [Lists -> Seq(T!Nodes)]
      /\ Len(c[q]) \in Nat /\ Len(c[q]) >= 1 /\ Len(c[r]) \in Nat
      /\ c[q][1] \in T!Nodes
      /\ Len(d[q]) = Len(c[q]) - 1
      /\ \A k \in 1 .. Len(c[q]) - 1 : d[q][k] = c[q][k + 1]
      /\ Len(d[r]) = Len(c[r]) + 1
      /\ d[r][1] = c[q][1]
      /\ \A k \in 1 .. Len(c[r]) : d[r][k + 1] = c[r][k]
      /\ \A p \in Lists \ {q, r} : d[p] = c[p]
  BY <1>0, NodeMovedFacts
<1>2. \A p \in Lists : /\ c[p] \in Seq(T!Nodes) /\ d[p] \in Seq(T!Nodes)
                       /\ Len(c[p]) \in Nat /\ Len(d[p]) \in Nat
                       /\ \A k \in 1 .. Len(c[p]) : c[p][k] \in T!Nodes
  BY <1>0, <1>1
<1> HIDE DEF d
<1>3. ASSUME NEW p \in Lists, NEW k \in 1 .. Len(c[p]), ~(p = q /\ k = 1)
      PROVE  pool2[c[p][k]].val = pool[c[p][k]].val
  <2>1. 1 \in 1 .. Len(c[q])
    BY <1>1
  <2>2. c[p][k] # c[q][1]
    BY <1>3, <2>1, LinkedApart
  <2> QED
    BY <1>2, <2>2 DEF SameValues
<1> DEFINE vq == Vals(pool, c[q])
           vr == Vals(pool, c[r])
           uq == Vals(pool2, d[q])
           ur == Vals(pool2, d[r])
           x == pool2[c[q][1]].val
<1>4. /\ vq \in Seq(Nat) /\ Len(vq) = Len(c[q])
      /\ \A k \in 1 .. Len(c[q]) : vq[k] = pool[c[q][k]].val
  BY <1>2, ValsType
<1>5. /\ vr \in Seq(Nat) /\ Len(vr) = Len(c[r])
      /\ \A k \in 1 .. Len(c[r]) : vr[k] = pool[c[r][k]].val
  BY <1>2, ValsType
<1>6. /\ uq \in Seq(Nat) /\ Len(uq) = Len(d[q])
      /\ \A k \in 1 .. Len(d[q]) : uq[k] = pool2[d[q][k]].val
  BY <1>2, ValsType
<1>7. /\ ur \in Seq(Nat) /\ Len(ur) = Len(d[r])
      /\ \A k \in 1 .. Len(d[r]) : ur[k] = pool2[d[r][k]].val
  BY <1>2, ValsType
<1>8. x \in Nat
  BY <1>1 DEF PoolType
<1> HIDE DEF vq, vr, uq, ur, x
<1>9. vq # << >>
  <2>1. 1 \in 1 .. Len(vq)
    BY <1>1, <1>4
  <2>2. 1 \in DOMAIN vq
    BY <1>4, <2>1
  <2> QED
    BY <2>2
<1>10. /\ Head(vq) = vq[1] /\ Tail(vq) \in Seq(Nat) /\ Len(Tail(vq)) = Len(vq) - 1
       /\ \A k \in 1 .. Len(vq) - 1 : Tail(vq)[k] = vq[k + 1]
  BY <1>4, <1>9, TailFacts
<1>11. uq = Tail(vq)
  <2>1. Len(uq) = Len(Tail(vq))
    BY <1>1, <1>4, <1>6, <1>10
  <2>2. ASSUME NEW k \in 1 .. Len(uq)
        PROVE  uq[k] = Tail(vq)[k]
    <3>1. /\ k \in 1 .. Len(c[q]) - 1 /\ k + 1 \in 1 .. Len(c[q]) /\ k + 1 # 1
          /\ k \in 1 .. Len(d[q]) /\ k \in 1 .. Len(vq) - 1
      BY <1>1, <1>4, <1>6
    <3>2. uq[k] = pool2[c[q][k + 1]].val
      BY <1>1, <1>6, <3>1
    <3>3. pool2[c[q][k + 1]].val = pool[c[q][k + 1]].val
      BY <1>3, <3>1
    <3>4. Tail(vq)[k] = pool[c[q][k + 1]].val
      BY <1>4, <1>10, <3>1
    <3> QED
      BY <3>2, <3>3, <3>4
  <2> QED
    BY <1>6, <1>10, <2>1, <2>2, SeqEqual
<1>12. ur = <<x>> \o vr
  <2>1. /\ Cons(x, vr) \in Seq(Nat) /\ Len(Cons(x, vr)) = Len(vr) + 1 /\ Cons(x, vr)[1] = x
        /\ \A k \in 1 .. Len(vr) : Cons(x, vr)[k + 1] = vr[k]
    <3> DEFINE S == Nat
    <3>1. vr \in Seq(S) /\ x \in S
      BY <1>5, <1>8
    <3> HIDE DEF S
    <3>2. /\ Cons(x, vr) \in Seq(S) /\ Len(Cons(x, vr)) = Len(vr) + 1 /\ Cons(x, vr)[1] = x
          /\ \A k \in 1 .. Len(vr) : Cons(x, vr)[k + 1] = vr[k]
      BY <3>1, ConsFacts
    <3> QED
      BY <3>2, Zenon DEF S
  <2>2. Len(ur) = Len(Cons(x, vr))
    BY <1>1, <1>5, <1>7, <2>1
  <2>3. ASSUME NEW k \in 1 .. Len(ur)
        PROVE  ur[k] = Cons(x, vr)[k]
    <3>0. k \in 1 .. Len(d[r]) /\ ur[k] = pool2[d[r][k]].val
      BY <1>7
    <3>1. CASE k = 1
      BY <1>1, <2>1, <3>0, <3>1 DEF x
    <3>2. CASE k # 1
      <4>1. /\ k - 1 \in 1 .. Len(c[r]) /\ (k - 1) + 1 = k /\ k - 1 \in 1 .. Len(vr)
        BY <1>1, <1>5, <3>0, <3>2
      <4>2. ur[k] = pool2[c[r][k - 1]].val
        BY <1>1, <3>0, <4>1
      <4>3. pool2[c[r][k - 1]].val = pool[c[r][k - 1]].val
        BY <1>3, <4>1
      <4>4. Cons(x, vr)[k] = pool[c[r][k - 1]].val
        BY <1>5, <2>1, <4>1
      <4> QED
        BY <4>2, <4>3, <4>4
    <3> QED
      BY <3>1, <3>2
  <2>4. ur = Cons(x, vr)
    BY <1>7, <2>1, <2>2, <2>3, SeqEqual
  <2> QED
    BY <2>4 DEF Cons
<1>13. ASSUME NEW p \in Lists \ {q, r}
       PROVE  Vals(pool2, d[p]) = Vals(pool, c[p])
  <2>1. d[p] = c[p]
    BY <1>1
  <2>2. \A k \in 1 .. Len(c[p]) : pool2[c[p][k]].val = pool[c[p][k]].val
    BY <1>3
  <2> QED
    BY <2>1, <2>2 DEF Vals
<1>14. Head(vq) = pool[c[q][1]].val
  <2>1. 1 \in 1 .. Len(c[q])
    BY <1>1
  <2> QED
    BY <1>4, <1>10, <2>1
<1> QED
  BY <1>9, <1>11, <1>12, <1>13, <1>14 DEF d, vq, vr, uq, ur, x, ValuesMoved

(* The pegs and the free list, as the variables have them.                 *)
Heads(ps, f) == [q \in Lists |-> IF q = "free" THEN f ELSE ps[q].head]

(* c are the lists that the heads of the pegs and the free list start.     *)
Core(pool, ps, f, c) ==
    /\ pool \in PoolType
    /\ ps \in [Pegs -> [size : Nat, head : 0 .. NUM_DISCS]]
    /\ f \in 0 .. NUM_DISCS
    /\ Linked(pool, Heads(ps, f), c)
    /\ \A p \in Pegs : ps[p].size = Len(c[p])

HeadsOf(ps, f, c) ==
    /\ c \in [Lists -> Seq(T!Nodes)]
    /\ \A q \in Lists : Len(c[q]) \in Nat /\ Len(c[q]) <= NUM_DISCS
    /\ \A q \in Lists : c[q] # << >> => /\ Heads(ps, f)[q] = c[q][1] /\ c[q][1] \in T!Nodes
                                        /\ Len(c[q]) >= 1
    /\ \A p \in Pegs : p \in Lists /\ ps[p].head = Heads(ps, f)[p] /\ p # "free"
    /\ "free" \in Lists /\ f = Heads(ps, f)["free"]
    /\ Len(c["A"]) + Len(c["B"]) + Len(c["C"]) + Len(c["free"]) = NUM_DISCS

LEMMA CoreFacts ==
  ASSUME NUM_DISCS \in Nat, NEW pool, NEW ps, NEW f, NEW c, Core(pool, ps, f, c)
  PROVE  HeadsOf(ps, f, c)
<1>1. c \in [Lists -> Seq(T!Nodes)] /\ Linked(pool, Heads(ps, f), c)
  BY DEF Core, Linked
<1>2. \A q \in Lists : Len(c[q]) \in Nat /\ Len(c[q]) <= NUM_DISCS
  BY <1>1, LinkedChains
<1>3. ASSUME NEW q \in Lists, c[q] # << >>
      PROVE  Heads(ps, f)[q] = c[q][1] /\ c[q][1] \in T!Nodes /\ Len(c[q]) >= 1
  <2>1. c[q] \in Seq(T!Nodes)
    BY <1>1
  <2>2. Len(c[q]) \in Nat /\ Len(c[q]) >= 1 /\ Head(c[q]) \in T!Nodes /\ Head(c[q]) = c[q][1]
    BY <1>3, <2>1, TailFacts
  <2>3. Heads(ps, f)[q] = Nth(c[q], 1)
    BY <1>1 DEF Linked
  <2>4. 1 \in 1 .. Len(c[q])
    BY <2>2
  <2> QED
    BY <2>2, <2>3, <2>4 DEF Nth
<1>5. \A p \in Pegs : p \in Lists /\ ps[p].head = Heads(ps, f)[p] /\ p # "free"
  BY DEF Pegs, Lists, Heads
<1>6. "free" \in Lists /\ f = Heads(ps, f)["free"]
  BY DEF Lists, Heads
<1>7. Len(c["A"]) + Len(c["B"]) + Len(c["C"]) + Len(c["free"]) = NUM_DISCS
  BY <1>1 DEF Linked
<1> QED
  BY <1>1, <1>2, <1>3, <1>5, <1>6, <1>7 DEF HeadsOf

LEMMA ListPushes ==
  ASSUME NUM_DISCS \in Nat \ {0}, NEW c, Core(g_nodePool, pegs, g_nodeFreeList, c),
         c["free"] # << >>, NEW p \in Pegs, NEW v \in Nat, T!list_push(p, v)
  PROVE  LET d == NodeMoved(c, "free", p)
         IN  /\ Core(g_nodePool', pegs', g_nodeFreeList', d)
             /\ Vals(g_nodePool', d[p]) = <<v>> \o Vals(g_nodePool, c[p])
             /\ \A r \in Pegs \ {p} : Vals(g_nodePool', d[r]) = Vals(g_nodePool, c[r])
<1> DEFINE d == NodeMoved(c, "free", p)
           h == Heads(pegs, g_nodeFreeList)
           h2 == Heads(pegs', g_nodeFreeList')
<1>1. /\ c \in [Lists -> Seq(T!Nodes)] /\ p \in Lists /\ "free" \in Lists /\ p # "free"
      /\ Linked(g_nodePool, h, c) /\ g_nodePool \in PoolType
      /\ h["free"] = c["free"][1] /\ c["free"][1] \in T!Nodes
      /\ g_nodeFreeList = c["free"][1]
      /\ pegs[p].head = h[p]
      /\ pegs \in [Pegs -> [size : Nat, head : 0 .. NUM_DISCS]]
  <2>1. /\ Linked(g_nodePool, h, c) /\ g_nodePool \in PoolType /\ g_nodeFreeList \in 0 .. NUM_DISCS
        /\ pegs \in [Pegs -> [size : Nat, head : 0 .. NUM_DISCS]]
    BY DEF Core
  <2> HIDE DEF h
  <2>2. /\ c \in [Lists -> Seq(T!Nodes)]
        /\ \A q \in Lists : c[q] # << >> => /\ h[q] = c[q][1] /\ c[q][1] \in T!Nodes
                                            /\ Len(c[q]) >= 1
        /\ \A q \in Pegs : q \in Lists /\ pegs[q].head = h[q] /\ q # "free"
        /\ "free" \in Lists /\ g_nodeFreeList = h["free"]
    <3>1. HeadsOf(pegs, g_nodeFreeList, c)
      BY CoreFacts
    <3> QED
      BY <3>1 DEF HeadsOf, h
  <2> QED
    BY <2>1, <2>2
<1>2. /\ g_nodeFreeList' = g_nodePool[g_nodeFreeList].next
      /\ g_nodePool' = [g_nodePool EXCEPT ![g_nodeFreeList] = [val |-> v, next |-> pegs[p].head]]
      /\ pegs' = [pegs EXCEPT ![p] = [size |-> pegs[p].size + 1, head |-> g_nodeFreeList]]
  BY DEF T!list_push
<1>3. pegs[p].head \in 0 .. NUM_DISCS /\ pegs[p].size \in Nat
  BY <1>1
<1>4. /\ g_nodePool' \in PoolType
      /\ g_nodePool'[g_nodeFreeList].val = v /\ g_nodePool'[g_nodeFreeList].next = pegs[p].head
      /\ \A n \in T!Nodes : n # g_nodeFreeList => g_nodePool'[n] = g_nodePool[n]
  BY <1>1, <1>2, <1>3 DEF PoolType
<1>5. g_nodeFreeList' \in 0 .. NUM_DISCS
  BY <1>1, <1>2 DEF PoolType
<1>6. g_nodeFreeList \in 0 .. NUM_DISCS
  BY DEF Core
<1>7. /\ pegs' \in [Pegs -> [size : Nat, head : 0 .. NUM_DISCS]]
      /\ pegs'[p].size = pegs[p].size + 1 /\ pegs'[p].head = g_nodeFreeList
      /\ \A r \in Pegs \ {p} : pegs'[r] = pegs[r]
  BY <1>1, <1>2, <1>3, <1>6
<1>8. /\ h2["free"] = g_nodePool[h["free"]].next /\ h2[p] = h["free"]
      /\ \A r \in Lists \ {"free", p} : h2[r] = h[r]
  BY <1>1, <1>2, <1>7 DEF Heads, Lists, Pegs
<1>9. Linked(g_nodePool', h2, d)
  <2> HIDE DEF h, h2
  <2>1. /\ g_nodePool'[h["free"]].next = h[p]
        /\ \A n \in T!Nodes : n # h["free"] => g_nodePool'[n].next = g_nodePool[n].next
    BY <1>1, <1>4
  <2>2. Relinked(g_nodePool, g_nodePool', h, h2, "free", p)
    BY <1>8, <2>1 DEF Relinked
  <2> QED
    BY <1>1, <2>2, NodeMoves
<1>10. /\ Vals(g_nodePool', d[p]) = <<g_nodePool'[c["free"][1]].val>> \o Vals(g_nodePool, c[p])
       /\ \A r \in Lists \ {"free", p} : Vals(g_nodePool', d[r]) = Vals(g_nodePool, c[r])
  <2> HIDE DEF h
  <2>1. SameValues(g_nodePool, g_nodePool', c["free"][1])
    BY <1>1, <1>4 DEF SameValues
  <2>2. ValuesMoved(g_nodePool, g_nodePool', c, "free", p)
    BY <1>1, <1>4, <2>1, ValsMoved
  <2> QED
    BY <1>1, <1>4, <2>1, <2>2 DEF ValuesMoved
<1>11. \A r \in Pegs : pegs'[r].size = Len(d[r])
  <2>1. /\ Len(d[p]) = Len(c[p]) + 1
        /\ \A r \in Lists \ {"free", p} : d[r] = c[r]
    BY <1>1, NodeMovedSizes
  <2>2. \A r \in Pegs : pegs[r].size = Len(c[r]) /\ r \in Lists /\ r # "free"
    BY CoreFacts DEF Core, HeadsOf
  <2> HIDE DEF d
  <2>3. pegs'[p].size = Len(d[p])
    BY <1>7, <2>1, <2>2
  <2>4. ASSUME NEW r \in Pegs \ {p}
        PROVE  pegs'[r].size = Len(d[r])
    BY <1>7, <2>1, <2>2
  <2> QED
    BY <2>3, <2>4
<1>12. Core(g_nodePool', pegs', g_nodeFreeList', d)
  BY <1>4, <1>5, <1>7, <1>9, <1>11 DEF Core
<1>13. \A r \in Pegs \ {p} : r \in Lists \ {"free", p}
  BY DEF Pegs, Lists
<1> QED
  BY <1>1, <1>4, <1>10, <1>12, <1>13

LEMMA ListPops ==
  ASSUME NUM_DISCS \in Nat \ {0}, NEW c, Core(g_nodePool, pegs, g_nodeFreeList, c),
         NEW p \in Pegs, c[p] # << >>, T!list_pop(p)
  PROVE  LET d == NodeMoved(c, p, "free")
         IN  /\ Core(g_nodePool', pegs', g_nodeFreeList', d)
             /\ Vals(g_nodePool', d[p]) = Tail(Vals(g_nodePool, c[p]))
             /\ Vals(g_nodePool, c[p]) # << >> /\ T!Top(p) = Head(Vals(g_nodePool, c[p]))
             /\ \A r \in Pegs \ {p} : Vals(g_nodePool', d[r]) = Vals(g_nodePool, c[r])
             /\ d["free"] # << >>
<1> DEFINE d == NodeMoved(c, p, "free")
           h == Heads(pegs, g_nodeFreeList)
           h2 == Heads(pegs', g_nodeFreeList')
<1>1. /\ c \in [Lists -> Seq(T!Nodes)] /\ p \in Lists /\ "free" \in Lists /\ p # "free"
      /\ Linked(g_nodePool, h, c) /\ g_nodePool \in PoolType
      /\ h[p] = c[p][1] /\ c[p][1] \in T!Nodes /\ Len(c[p]) >= 1
      /\ pegs[p].head = h[p] /\ g_nodeFreeList = h["free"]
      /\ pegs \in [Pegs -> [size : Nat, head : 0 .. NUM_DISCS]]
      /\ g_nodeFreeList \in 0 .. NUM_DISCS
  <2>1. /\ Linked(g_nodePool, h, c) /\ g_nodePool \in PoolType /\ g_nodeFreeList \in 0 .. NUM_DISCS
        /\ pegs \in [Pegs -> [size : Nat, head : 0 .. NUM_DISCS]]
    BY DEF Core
  <2> HIDE DEF h
  <2>2. /\ c \in [Lists -> Seq(T!Nodes)]
        /\ \A q \in Lists : c[q] # << >> => /\ h[q] = c[q][1] /\ c[q][1] \in T!Nodes
                                            /\ Len(c[q]) >= 1
        /\ \A q \in Pegs : q \in Lists /\ pegs[q].head = h[q] /\ q # "free"
        /\ "free" \in Lists /\ g_nodeFreeList = h["free"]
    <3>1. HeadsOf(pegs, g_nodeFreeList, c)
      BY CoreFacts
    <3> QED
      BY <3>1 DEF HeadsOf, h
  <2> QED
    BY <2>1, <2>2
<1>2. /\ g_nodePool' = [g_nodePool EXCEPT ![pegs[p].head].next = g_nodeFreeList]
      /\ g_nodeFreeList' = pegs[p].head
      /\ pegs' = [pegs EXCEPT ![p] = [size |-> pegs[p].size - 1,
                                      head |-> g_nodePool[pegs[p].head].next]]
  BY DEF T!list_pop
<1>3. pegs[p].head \in T!Nodes /\ pegs[p].size = Len(c[p]) /\ pegs[p].size \in Nat
  BY <1>1 DEF Core
<1>4. /\ g_nodePool' \in PoolType
      /\ g_nodePool'[pegs[p].head].val = g_nodePool[pegs[p].head].val
      /\ g_nodePool'[pegs[p].head].next = g_nodeFreeList
      /\ \A n \in T!Nodes : n # pegs[p].head => g_nodePool'[n] = g_nodePool[n]
  BY <1>1, <1>2, <1>3 DEF PoolType
<1>5. g_nodeFreeList' \in 0 .. NUM_DISCS
  BY <1>2, <1>3 DEF T!Nodes
<1>6. g_nodePool[pegs[p].head].next \in 0 .. NUM_DISCS /\ pegs[p].size - 1 \in Nat
  <2>1. g_nodePool[pegs[p].head].next \in 0 .. NUM_DISCS
    BY <1>1, <1>3 DEF PoolType
  <2>2. pegs[p].size >= 1
    BY <1>1, <1>3
  <2> QED
    BY <1>3, <2>1, <2>2
<1>7. /\ pegs' \in [Pegs -> [size : Nat, head : 0 .. NUM_DISCS]]
      /\ pegs'[p].size = pegs[p].size - 1 /\ pegs'[p].head = g_nodePool[pegs[p].head].next
      /\ \A r \in Pegs \ {p} : pegs'[r] = pegs[r]
  BY <1>1, <1>2, <1>6
<1>8. /\ h2[p] = g_nodePool[h[p]].next /\ h2["free"] = h[p]
      /\ \A r \in Lists \ {p, "free"} : h2[r] = h[r]
  BY <1>1, <1>2, <1>7 DEF Heads, Lists, Pegs
<1>9. Linked(g_nodePool', h2, d)
  <2> HIDE DEF h, h2
  <2>1. /\ g_nodePool'[h[p]].next = h["free"]
        /\ \A n \in T!Nodes : n # h[p] => g_nodePool'[n].next = g_nodePool[n].next
    BY <1>1, <1>4
  <2>2. Relinked(g_nodePool, g_nodePool', h, h2, p, "free")
    BY <1>8, <2>1 DEF Relinked
  <2> QED
    BY <1>1, <2>2, NodeMoves
<1>10. /\ Vals(g_nodePool', d[p]) = Tail(Vals(g_nodePool, c[p]))
       /\ Vals(g_nodePool, c[p]) # << >>
       /\ Head(Vals(g_nodePool, c[p])) = g_nodePool[c[p][1]].val
       /\ \A r \in Lists \ {p, "free"} : Vals(g_nodePool', d[r]) = Vals(g_nodePool, c[r])
  <2> HIDE DEF h
  <2>1. SameValues(g_nodePool, g_nodePool', c[p][1])
    BY <1>1, <1>4 DEF SameValues
  <2>2. ValuesMoved(g_nodePool, g_nodePool', c, p, "free")
    BY <1>1, <1>4, <2>1, ValsMoved
  <2> QED
    BY <1>1, <1>4, <2>1, <2>2 DEF ValuesMoved
<1>11. /\ Len(d[p]) = Len(c[p]) - 1 /\ Len(d["free"]) = Len(c["free"]) + 1
       /\ Len(c["free"]) \in Nat
       /\ \A r \in Lists \ {p, "free"} : d[r] = c[r]
  BY <1>1, NodeMovedFacts
<1>12. \A r \in Pegs : pegs'[r].size = Len(d[r])
  <2>2. \A r \in Pegs : pegs[r].size = Len(c[r]) /\ r \in Lists /\ r # "free"
    BY CoreFacts DEF Core, HeadsOf
  <2> HIDE DEF d
  <2>3. pegs'[p].size = Len(d[p])
    BY <1>7, <1>11, <2>2
  <2>4. ASSUME NEW r \in Pegs \ {p}
        PROVE  pegs'[r].size = Len(d[r])
    BY <1>7, <1>11, <2>2
  <2> QED
    BY <2>3, <2>4
<1>13. Core(g_nodePool', pegs', g_nodeFreeList', d)
  BY <1>4, <1>5, <1>7, <1>9, <1>12 DEF Core
<1>14. \A r \in Pegs \ {p} : r \in Lists \ {"free", p}
  BY DEF Pegs, Lists
<1>15. d["free"] # << >>
  <2> HIDE DEF d
  <2>1. Len(d["free"]) >= 1
    BY <1>11
  <2> QED
    BY <2>1
<1>16. T!Top(p) = g_nodePool[c[p][1]].val
  BY <1>1 DEF T!Top
<1> QED
  BY <1>10, <1>13, <1>14, <1>15, <1>16

-----------------------------------------------------------------------------
(* The state of towers: c the lists of nodes, on the discs on the pegs     *)
(* with the one in hand, w the pegs of the discs.                          *)
FirstPegs == [d \in 1 .. NUM_DISCS |-> "A"]
FirstOn == [p \in Pegs |-> IF p = "A" THEN [d \in 1 .. NUM_DISCS |-> d] ELSE << >>]

(* n discs, the largest first, have been pushed on peg A.                  *)
Pushed(pool, c, n) ==
    /\ n \in 0 .. NUM_DISCS /\ Len(c["A"]) = n /\ c["B"] = << >> /\ c["C"] = << >>
    /\ \A k \in 1 .. n : Vals(pool, c["A"])[k] = NUM_DISCS - n + k

(* The discs on a peg are those of its list; one in hand (v) is still the  *)
(* top one of the peg it is taken from.                                    *)
InHand(pool, c, F, v, on) ==
    IF v = 0 THEN \A p \in Pegs : Vals(pool, c[p]) = on[p]
    ELSE /\ F # << >> /\ F[1].n = 1 /\ F[1].startPeg \in Pegs /\ c["free"] # << >>
         /\ on[F[1].startPeg] # << >> /\ v = Head(on[F[1].startPeg])
         /\ \A p \in Pegs : Vals(pool, c[p]) = IF p = F[1].startPeg THEN Tail(on[p]) ELSE on[p]

State(pow, at, pool, f, ps, moves, n, F, v, c, w, on) ==
    /\ Core(pool, ps, f, c) /\ Discs(w, on)
    /\ at \in {"towers_init", "towers_clear", "towers_solve_h", "done"}
    /\ at \in {"towers_init", "towers_clear"} =>
          F = << >> /\ v = 0 /\ w = FirstPegs /\ on = FirstOn
    /\ at = "towers_init" => Pushed(pool, c, n) /\ moves = 0
    /\ at \in {"towers_solve_h", "done"} =>
          /\ F \in Seq(AllFrames) /\ Stack(F, Len(F), w) /\ InHand(pool, c, F, v, on)
          /\ Powers(pow) => Counted(pow, F, Len(F), moves)
    /\ at = "done" => F = << >>

Now(pow, c, w, on) == State(pow, towers_pc, g_nodePool, g_nodeFreeList, pegs, numMoves, pushed,
                            frames, val, c, w, on)
Then(pow, c, w, on) == State(pow, towers_pc', g_nodePool', g_nodeFreeList', pegs', numMoves',
                             pushed', frames', val', c, w, on)

(* A move of the puzzle.                                                   *)
Moved(on, on2) ==
    \E p \in Pegs, q \in Pegs :
       /\ p # q /\ on[p] # << >>
       /\ on[q] # << >> => Head(on[p]) < Head(on[q])
       /\ on2 = DiscMoved(on, p, q)

(* A step keeps the invariant, and moves no disc or one as the puzzle does.*)
Continues(pow, on) == \E c, w, on2 : Then(pow, c, w, on2) /\ (on2 = on \/ Moved(on, on2))

LEMMA FramesFacts ==
  ASSUME NEW F \in Seq(AllFrames), F # << >>
  PROVE  /\ Len(F) \in Nat /\ Len(F) > 0 /\ Head(F) = F[1] /\ F[1] \in AllFrames
         /\ Tail(F) \in Seq(AllFrames) /\ Len(Tail(F)) = Len(F) - 1
         /\ \A k \in 1 .. Len(F) - 1 : Tail(F)[k] = F[k + 1]
<1>1. /\ Len(F) \in Nat /\ Len(F) >= 1 /\ Head(F) \in AllFrames /\ Head(F) = F[1]
      /\ Tail(F) \in Seq(AllFrames) /\ Len(Tail(F)) = Len(F) - 1
      /\ \A k \in 1 .. Len(F) - 1 : Tail(F)[k] = F[k + 1]
  BY TailFacts
<1> QED
  BY <1>1

LEMMA FramesCall ==
  ASSUME NEW F \in Seq(AllFrames), F # << >>, NEW x \in AllFrames, NEW y \in AllFrames
  PROVE  /\ <<x, y>> \o Tail(F) \in Seq(AllFrames) /\ Len(<<x, y>> \o Tail(F)) = Len(F) + 1
         /\ (<<x, y>> \o Tail(F))[1] = x /\ (<<x, y>> \o Tail(F))[2] = y
         /\ \A k \in 2 .. Len(F) : (<<x, y>> \o Tail(F))[k + 1] = F[k]
<1> DEFINE t == Tail(F)
           h == <<x, y>>
           G == Cat(h, t)
<1>1. /\ Len(F) \in Nat /\ Len(F) > 0 /\ t \in Seq(AllFrames) /\ Len(t) = Len(F) - 1
      /\ \A k \in 1 .. Len(F) - 1 : t[k] = F[k + 1]
  BY FramesFacts
<1>2. h \in Seq(AllFrames) /\ Len(h) = 2 /\ h[1] = x /\ h[2] = y
  OBVIOUS
<1> HIDE DEF t, h
<1>3. G \in Seq(AllFrames) /\ Len(G) = Len(h) + Len(t)
  BY <1>1, <1>2, CatType
<1>4. \A k \in 1 .. Len(h) + Len(t) : G[k] = IF k <= Len(h) THEN h[k] ELSE t[k - Len(h)]
  BY <1>1, <1>2, CatElements
<1> HIDE DEF G
<1>5. G[1] = x /\ G[2] = y
  BY <1>1, <1>2, <1>4
<1>6. ASSUME NEW k \in 2 .. Len(F)
      PROVE  G[k + 1] = F[k]
  <2>1. /\ k + 1 \in 1 .. Len(h) + Len(t) /\ ~(k + 1 <= Len(h)) /\ (k + 1) - Len(h) = k - 1
        /\ k - 1 \in 1 .. Len(F) - 1 /\ (k - 1) + 1 = k
    BY <1>1, <1>2
  <2> QED
    BY <1>1, <1>4, <2>1
<1>7. Len(G) = Len(F) + 1
  BY <1>1, <1>2, <1>3
<1> QED
  BY <1>3, <1>5, <1>6, <1>7 DEF G, Cat, t, h

(* towers_init: a disc is pushed.                                          *)
LEMMA InitPushes ==
  ASSUME NUM_DISCS \in Nat \ {0}, NEW pow, NEW c, NEW w, NEW on, Now(pow, c, w, on),
         T!towers_init, pushed < NUM_DISCS
  PROVE  Continues(pow, on)
<1> DEFINE d == NodeMoved(c, "free", "A")
           v == NUM_DISCS - pushed
<1>1. /\ towers_pc = "towers_init" /\ T!list_push("A", v) /\ pushed' = pushed + 1
      /\ UNCHANGED <<towers_pc, frames, numMoves, cleared, val>>
  BY DEF T!towers_init
<1>2. /\ Core(g_nodePool, pegs, g_nodeFreeList, c) /\ Discs(w, on) /\ Pushed(g_nodePool, c, pushed)
      /\ numMoves = 0 /\ frames = << >> /\ val = 0 /\ w = FirstPegs /\ on = FirstOn
  BY <1>1 DEF Now, State
<1>3. HeadsOf(pegs, g_nodeFreeList, c) /\ g_nodePool \in PoolType
  BY <1>2, CoreFacts DEF Core
<1>4. /\ pushed \in 0 .. NUM_DISCS /\ v \in Nat /\ Len(c["A"]) = pushed
      /\ c["B"] = << >> /\ c["C"] = << >>
  BY <1>2 DEF Pushed
<1>5. c["free"] # << >>
  <2>1. Len(c["A"]) + Len(c["B"]) + Len(c["C"]) + Len(c["free"]) = NUM_DISCS
    BY <1>3 DEF HeadsOf
  <2>2. Len(c["B"]) = 0 /\ Len(c["C"]) = 0
    BY <1>4
  <2>3. Len(c["free"]) \in Nat
    BY <1>3 DEF HeadsOf, Lists
  <2>4. Len(c["free"]) > 0
    BY <1>4, <2>1, <2>2, <2>3
  <2> QED
    BY <2>4
<1>6. "A" \in Pegs
  BY DEF Pegs
<1> HIDE DEF v
<1>7. /\ Core(g_nodePool', pegs', g_nodeFreeList', d)
      /\ Vals(g_nodePool', d["A"]) = <<v>> \o Vals(g_nodePool, c["A"])
  BY <1>1, <1>2, <1>4, <1>5, <1>6, ListPushes
<1>8. /\ Len(d["A"]) = Len(c["A"]) + 1 /\ d["B"] = c["B"] /\ d["C"] = c["C"]
  <2>1. c \in [Lists -> Seq(T!Nodes)] /\ "free" \in Lists /\ "A" \in Lists /\ "B" \in Lists
        /\ "C" \in Lists
    BY <1>3 DEF HeadsOf, Lists
  <2>2. /\ Len(d["A"]) = Len(c["A"]) + 1
        /\ \A p \in Lists : p # "free" /\ p # "A" => d[p] = c[p]
    <3>1. ASSUME NEW q \in Lists, NEW r \in Lists, q # r, c[q] # << >>
          PROVE  /\ Len(NodeMoved(c, q, r)[r]) = Len(c[r]) + 1
                 /\ \A p \in Lists \ {q, r} : NodeMoved(c, q, r)[p] = c[p]
      <4>1. c \in [Lists -> Seq(T!Nodes)]
        BY <2>1
      <4> QED
        BY <3>1, <4>1, NodeMovedFacts
    <3>2. "free" # "A"
      OBVIOUS
    <3> QED
      BY <1>5, <2>1, <3>1, <3>2
  <2> QED
    BY <2>1, <2>2
<1>9. Pushed(g_nodePool', d, pushed')
  <2>1. c["A"] \in Seq(T!Nodes)
    BY <1>3 DEF HeadsOf, Lists
  <2>2. Vals(g_nodePool, c["A"]) \in Seq(Nat) /\ Len(Vals(g_nodePool, c["A"])) = Len(c["A"])
    BY <1>3, <2>1, ValsType
  <2> DEFINE x == Vals(g_nodePool, c["A"])
             S == Nat
  <2>3. x \in Seq(S) /\ v \in S
    BY <1>4, <2>2
  <2>L. Len(x) = pushed
    BY <1>4, <2>2
  <2>4. \A k \in 1 .. pushed : x[k] = NUM_DISCS - pushed + k
    BY <1>2 DEF Pushed
  <2>5. Vals(g_nodePool', d["A"]) = Cons(v, x)
    BY <1>7 DEF Cons
  <2> HIDE DEF x, S, d
  <2>6. /\ Cons(v, x) \in Seq(S) /\ Len(Cons(v, x)) = Len(x) + 1 /\ Cons(v, x)[1] = v
        /\ \A k \in 1 .. Len(x) : Cons(v, x)[k + 1] = x[k]
    BY <2>3, ConsFacts
  <2>7. ASSUME NEW k \in 1 .. pushed + 1
        PROVE  Cons(v, x)[k] = NUM_DISCS - (pushed + 1) + k
    <3>1. CASE k = 1
      BY <1>4, <2>6, <3>1 DEF v
    <3>2. CASE k # 1
      <4>1. k - 1 \in 1 .. pushed /\ k - 1 \in 1 .. Len(x) /\ (k - 1) + 1 = k
        BY <1>4, <2>L, <3>2
      <4>2. Cons(v, x)[k] = NUM_DISCS - pushed + (k - 1)
        BY <2>4, <2>6, <4>1
      <4> QED
        BY <1>4, <4>2
    <3> QED
      BY <3>1, <3>2
  <2>8. pushed' \in 0 .. NUM_DISCS /\ Len(d["A"]) = pushed' /\ d["B"] = << >> /\ d["C"] = << >>
    BY <1>1, <1>4, <1>8
  <2> QED
    BY <1>1, <2>5, <2>7, <2>8 DEF Pushed
<1>10. Then(pow, d, w, on)
  BY <1>1, <1>2, <1>7, <1>9 DEF Then, State
<1> QED
  BY <1>10 DEF Continues

LEMMA InitEnds ==
  ASSUME NUM_DISCS \in Nat \ {0}, NEW pow, NEW c, NEW w, NEW on, Now(pow, c, w, on),
         T!towers_init, ~(pushed < NUM_DISCS)
  PROVE  Continues(pow, on)
<1>1. /\ towers_pc = "towers_init" /\ UNCHANGED <<g_nodePool, g_nodeFreeList, pegs, pushed>>
      /\ towers_pc' = IF cleared THEN "towers_solve_h" ELSE "towers_clear"
      /\ frames' = IF cleared THEN <<T!Frame(NUM_DISCS, "A", "B", "C")>> ELSE frames
      /\ UNCHANGED <<numMoves, cleared, val>>
  BY DEF T!towers_init
<1>2. /\ Core(g_nodePool, pegs, g_nodeFreeList, c) /\ Discs(w, on) /\ Pushed(g_nodePool, c, pushed)
      /\ numMoves = 0 /\ frames = << >> /\ val = 0 /\ w = FirstPegs /\ on = FirstOn
  BY <1>1 DEF Now, State
<1>3. CASE ~cleared
  <2>1. Then(pow, c, w, on)
    BY <1>1, <1>2, <1>3 DEF Then, State
  <2> QED
    BY <2>1 DEF Continues
<1>4. CASE cleared
  <2> DEFINE f == T!Frame(NUM_DISCS, "A", "B", "C")
  <2>1. f \in AllFrames
    BY DEF T!Frame, AllFrames, Pegs
  <2>2. frames' = <<f>>
    BY <1>1, <1>4
  <2> HIDE DEF f
  <2>3. frames' \in Seq(AllFrames) /\ Len(frames') = 1 /\ frames'[1] = f
    BY <2>1, <2>2
  <2>4. Stack(frames', Len(frames'), w)
    BY <1>2, <2>3, StackFirst DEF f, FirstPegs
  <2>5. Powers(pow) => Counted(pow, frames', Len(frames'), numMoves')
    BY <1>1, <1>2, <2>3, CountedFirst DEF f
  <2>6. ASSUME NEW p \in Pegs
        PROVE  Vals(g_nodePool, c[p]) = on[p]
    <3>1. CASE p = "A"
      <4>1. Len(c["A"]) = NUM_DISCS /\ \A k \in 1 .. NUM_DISCS : Vals(g_nodePool, c["A"])[k] = k
        BY <1>2 DEF Pushed
      <4>2. Vals(g_nodePool, c["A"]) = [d \in 1 .. NUM_DISCS |-> d]
        BY <4>1 DEF Vals
      <4> QED
        BY <1>2, <3>1, <4>2 DEF FirstOn
    <3>2. CASE p # "A"
      <4>1. c[p] = << >>
        BY <1>2, <3>2 DEF Pushed, Pegs
      <4>2. Vals(g_nodePool, << >>) = << >>
        BY DEF Vals
      <4> QED
        BY <1>2, <3>2, <4>1, <4>2 DEF FirstOn
    <3> QED
      BY <3>1, <3>2
  <2>7. InHand(g_nodePool, c, frames', val', on)
    BY <1>1, <1>2, <2>6 DEF InHand
  <2>8. towers_pc' = "towers_solve_h"
    BY <1>1, <1>4
  <2>9. Then(pow, c, w, on)
    BY <1>1, <1>2, <2>3, <2>4, <2>5, <2>7, <2>8 DEF Then, State
  <2> QED
    BY <2>9 DEF Continues
<1> QED
  BY <1>3, <1>4

(* towers_clear.                                                           *)
LEMMA Clears ==
  ASSUME NUM_DISCS \in Nat \ {0}, NEW pow, NEW c, NEW w, NEW on, Now(pow, c, w, on), T!towers_clear
  PROVE  Continues(pow, on)
<1>1. towers_pc = "towers_clear" /\ UNCHANGED <<frames, val>>
  BY DEF T!towers_clear
<1>2. /\ Core(g_nodePool, pegs, g_nodeFreeList, c) /\ Discs(w, on)
      /\ frames = << >> /\ val = 0 /\ w = FirstPegs /\ on = FirstOn
  BY <1>1 DEF Now, State
<1>3. HeadsOf(pegs, g_nodeFreeList, c)
  BY <1>2, CoreFacts
<1>4. ASSUME NEW p \in Pegs, pegs[p].size > 0, T!list_pop(p), towers_pc' = towers_pc
      PROVE  Continues(pow, on)
  <2>1. c[p] # << >>
    <3>1. Len(c[p]) > 0
      BY <1>2, <1>4 DEF Core
    <3>2. c[p] = << >> => Len(c[p]) <= 0
      OBVIOUS
    <3>3. Len(c[p]) \in Nat
      BY <1>3 DEF HeadsOf
    <3> QED
      BY <3>1, <3>2, <3>3
  <2>2. Core(g_nodePool', pegs', g_nodeFreeList', NodeMoved(c, p, "free"))
    BY <1>2, <1>4, <2>1, ListPops
  <2>3. Then(pow, NodeMoved(c, p, "free"), w, on)
    BY <1>1, <1>2, <1>4, <2>2 DEF Then, State
  <2> QED
    BY <2>3 DEF Continues
<1>5. ASSUME \A p \in Pegs : pegs[p].size = 0, pegs' = [p \in Pegs |-> T!list_init],
             numMoves' = 0, pushed' = 0, towers_pc' = "towers_init",
             UNCHANGED <<g_nodePool, g_nodeFreeList>>
      PROVE  Continues(pow, on)
  <2>1. ASSUME NEW p \in Pegs
        PROVE  c[p] = << >> /\ pegs[p] = T!list_init
    <3>1. p \in Lists /\ c[p] \in Seq(T!Nodes)
      BY <1>3 DEF HeadsOf
    <3>2. pegs[p].size = 0 /\ pegs[p].size = Len(c[p])
      BY <1>2, <1>5 DEF Core
    <3>3. c[p] = << >>
      BY <3>1, <3>2
    <3>4. Heads(pegs, g_nodeFreeList)[p] = Nth(c[p], 1)
      BY <1>2, <3>1 DEF Core, Linked
    <3>5. pegs[p].head = Nth(<< >>, 1)
      BY <1>3, <3>3, <3>4 DEF HeadsOf
    <3>6. Nth(<< >>, 1) = 0
      BY DEF Nth
    <3>7. pegs[p] \in [size : Nat, head : 0 .. NUM_DISCS]
      BY <1>2 DEF Core
    <3> QED
      BY <3>2, <3>3, <3>5, <3>6, <3>7 DEF T!list_init, T!NIL
  <2>2. pegs' = pegs
    <3>1. pegs \in [Pegs -> [size : Nat, head : 0 .. NUM_DISCS]]
      BY <1>2 DEF Core
    <3> QED
      BY <1>5, <2>1, <3>1
  <2>3. Pushed(g_nodePool', c, pushed')
    <3>1. c["A"] = << >> /\ c["B"] = << >> /\ c["C"] = << >>
      BY <2>1 DEF Pegs
    <3>2. Len(c["A"]) = 0
      BY <3>1
    <3> QED
      BY <1>5, <3>1, <3>2 DEF Pushed
  <2>4. Then(pow, c, w, on)
    BY <1>1, <1>2, <1>5, <2>2, <2>3 DEF Then, State
  <2> QED
    BY <2>4 DEF Continues
<1>6. \/ \E p \in Pegs : pegs[p].size > 0 /\ T!list_pop(p) /\ towers_pc' = towers_pc
      \/ /\ \A p \in Pegs : pegs[p].size = 0
         /\ pegs' = [p \in Pegs |-> T!list_init] /\ numMoves' = 0 /\ pushed' = 0
         /\ towers_pc' = "towers_init" /\ UNCHANGED <<g_nodePool, g_nodeFreeList>>
  <2>1. Pegs = T!Pegs
    BY DEF Pegs, T!Pegs
  <2> QED
    BY <2>1 DEF T!towers_clear, T!list_clear, T!Empty
<1> QED
  BY <1>4, <1>5, <1>6

-----------------------------------------------------------------------------
(* What holds while a call for one disc is to take or put it.              *)
LEMMA OneDiscTop ==
  ASSUME NUM_DISCS \in Nat \ {0}, NEW F \in Seq(AllFrames), F # << >>, NEW w, NEW on, Discs(w, on),
         Stack(F, Len(F), w), F[1].n = 1
  PROVE  LET s == F[1].startPeg
             t == F[1].destPeg
         IN  /\ s \in Pegs /\ t \in Pegs /\ s # t /\ on[s] # << >>
             /\ Head(on[s]) = OneDisc(F, Len(F)) /\ OneDisc(F, Len(F)) \in 1 .. NUM_DISCS
             /\ on[t] # << >> => Head(on[s]) < Head(on[t])
<1> DEFINE s == F[1].startPeg
           t == F[1].destPeg
           D == OneDisc(F, Len(F))
<1>1. Len(F) \in Nat /\ Len(F) > 0
  BY FramesFacts
<1>2. /\ D \in 1 .. NUM_DISCS /\ OnePlaced(F[1], D, w) /\ s \in Pegs /\ t \in Pegs
      /\ s # t /\ F[1].tempPeg # t /\ s # F[1].tempPeg
  BY <1>1, StackDisc
<1>3. w[D] = s /\ \A e \in 1 .. D - 1 : w[e] \notin {s, t}
  BY <1>2 DEF OnePlaced
<1> HIDE DEF s, t, D
<1>4. /\ on[w[D]] # << >> /\ Head(on[w[D]]) = D
      /\ on[t] # << >> => D < Head(on[t])
  BY <1>2, <1>3, DiscIsTop
<1>5. on[s] # << >> /\ Head(on[s]) = D /\ (on[t] # << >> => Head(on[s]) < Head(on[t]))
  BY <1>3, <1>4
<1> QED
  BY <1>2, <1>5 DEF s, t, D

LEMMA Takes ==
  ASSUME NUM_DISCS \in Nat \ {0}, NEW pow, NEW c, NEW w, NEW on, Now(pow, c, w, on), T!TakeDisc
  PROVE  Continues(pow, on)
<1> DEFINE s == frames[1].startPeg
           d == NodeMoved(c, s, "free")
<1>1. /\ towers_pc = "towers_solve_h" /\ frames # << >> /\ Head(frames).n = 1 /\ val = 0
      /\ val' = T!Top(Head(frames).startPeg) /\ T!list_pop(Head(frames).startPeg)
      /\ UNCHANGED <<towers_pc, numMoves, pushed, cleared, frames>>
  BY DEF T!TakeDisc, T!Solving, T!this
<1>2. /\ Core(g_nodePool, pegs, g_nodeFreeList, c) /\ Discs(w, on)
      /\ frames \in Seq(AllFrames) /\ Stack(frames, Len(frames), w)
      /\ InHand(g_nodePool, c, frames, val, on)
      /\ Powers(pow) => Counted(pow, frames, Len(frames), numMoves)
  BY <1>1 DEF Now, State
<1>3. /\ Head(frames) = frames[1] /\ frames[1].n = 1
      /\ val' = T!Top(s) /\ T!list_pop(s)
  BY <1>1, <1>2, FramesFacts
<1>4. s \in Pegs /\ on[s] # << >> /\ Head(on[s]) \in 1 .. NUM_DISCS
  BY <1>1, <1>2, <1>3, OneDiscTop
<1>5. \A p \in Pegs : Vals(g_nodePool, c[p]) = on[p]
  BY <1>1, <1>2 DEF InHand
<1>6. HeadsOf(pegs, g_nodeFreeList, c)
  BY <1>2, CoreFacts
<1> HIDE DEF s
<1>7. c[s] # << >>
  <2>1. ASSUME c[s] = << >>
        PROVE  FALSE
    <3>1. Vals(g_nodePool, << >>) = << >>
      BY DEF Vals
    <3> QED
      BY <1>4, <1>5, <2>1, <3>1
  <2> QED
    BY <2>1
<1>8. /\ Core(g_nodePool', pegs', g_nodeFreeList', d)
      /\ Vals(g_nodePool', d[s]) = Tail(Vals(g_nodePool, c[s]))
      /\ T!Top(s) = Head(Vals(g_nodePool, c[s]))
      /\ \A r \in Pegs \ {s} : Vals(g_nodePool', d[r]) = Vals(g_nodePool, c[r])
      /\ d["free"] # << >>
  BY <1>2, <1>3, <1>4, <1>7, ListPops
<1> HIDE DEF d
<1>9. val' = Head(on[s]) /\ val' # 0
  BY <1>3, <1>4, <1>5, <1>8
<1>10. \A p \in Pegs : Vals(g_nodePool', d[p]) = IF p = s THEN Tail(on[p]) ELSE on[p]
  BY <1>4, <1>5, <1>8
<1>11. InHand(g_nodePool', d, frames', val', on)
  <2>1. frames' = frames
    BY <1>1
  <2> QED
    BY <1>1, <1>3, <1>4, <1>8, <1>9, <1>10, <2>1 DEF InHand, s
<1>12. Then(pow, d, w, on)
  BY <1>1, <1>2, <1>8, <1>11 DEF Then, State
<1> QED
  BY <1>12 DEF Continues

LEMMA Puts ==
  ASSUME NUM_DISCS \in Nat \ {0}, NEW pow, NEW c, NEW w, NEW on, Now(pow, c, w, on), T!PutDisc
  PROVE  Continues(pow, on)
<1> DEFINE s == frames[1].startPeg
           t == frames[1].destPeg
           d == NodeMoved(c, "free", t)
           D == OneDisc(frames, Len(frames))
           v == [w EXCEPT ![D] = t]
           on2 == DiscMoved(on, s, t)
<1>1. /\ towers_pc = "towers_solve_h" /\ frames # << >> /\ val # 0
      /\ T!list_push(Head(frames).destPeg, val) /\ val' = 0 /\ frames' = Tail(frames)
      /\ numMoves' = numMoves + 1 /\ UNCHANGED <<towers_pc, pushed, cleared>>
  BY DEF T!PutDisc, T!Solving, T!this
<1>2. /\ Core(g_nodePool, pegs, g_nodeFreeList, c) /\ Discs(w, on)
      /\ frames \in Seq(AllFrames) /\ Stack(frames, Len(frames), w)
      /\ InHand(g_nodePool, c, frames, val, on)
      /\ Powers(pow) => Counted(pow, frames, Len(frames), numMoves)
  BY <1>1 DEF Now, State
<1>3. /\ frames[1].n = 1 /\ s \in Pegs /\ c["free"] # << >>
      /\ on[s] # << >> /\ val = Head(on[s])
      /\ \A p \in Pegs : Vals(g_nodePool, c[p]) = IF p = s THEN Tail(on[p]) ELSE on[p]
  BY <1>1, <1>2 DEF InHand
<1>4. /\ t \in Pegs /\ s # t /\ Head(on[s]) = D /\ D \in 1 .. NUM_DISCS
      /\ on[t] # << >> => Head(on[s]) < Head(on[t])
  BY <1>1, <1>2, <1>3, OneDiscTop
<1>5. /\ Head(frames) = frames[1] /\ Len(frames) \in Nat /\ Len(frames) > 0
      /\ frames' \in Seq(AllFrames) /\ Len(frames') = Len(frames) - 1
      /\ \A k \in 1 .. Len(frames) - 1 : frames'[k] = frames[k + 1]
  BY <1>1, <1>2, FramesFacts
<1>6. T!list_push(t, val) /\ val \in Nat
  BY <1>1, <1>3, <1>4, <1>5
<1>7. Stack(frames', Len(frames'), v)
  BY <1>2, <1>3, <1>5, StackMove
<1>8. Powers(pow) => Counted(pow, frames', Len(frames'), numMoves')
  <2>1. ASSUME Powers(pow)
        PROVE  Counted(pow, frames', Len(frames) - 1, numMoves + 1)
    BY <1>2, <1>3, <1>5, <2>1, CountedMove
  <2> QED
    BY <1>1, <1>5, <2>1
<1> HIDE DEF s, t, D
<1>9. /\ Core(g_nodePool', pegs', g_nodeFreeList', d)
      /\ Vals(g_nodePool', d[t]) = <<val>> \o Vals(g_nodePool, c[t])
      /\ \A r \in Pegs \ {t} : Vals(g_nodePool', d[r]) = Vals(g_nodePool, c[r])
  BY <1>2, <1>3, <1>4, <1>6, ListPushes
<1>10. Discs(v, on2) /\ Moved(on, on2)
  <2>1. Discs(v, on2)
    BY <1>2, <1>3, <1>4, DiscsMoved
  <2>2. Moved(on, on2)
    BY <1>3, <1>4 DEF Moved
  <2> QED
    BY <2>1, <2>2
<1>11. \A p \in Pegs : Vals(g_nodePool', d[p]) = on2[p]
  <2>1. on \in [Pegs -> Seq(1 .. NUM_DISCS)]
    BY <1>2 DEF Discs
  <2>2. /\ on2[s] = Tail(on[s]) /\ on2[t] = <<Head(on[s])>> \o on[t]
        /\ \A p \in Pegs \ {s, t} : on2[p] = on[p]
    <3> DEFINE below == Tail(on[s])
               b     == <<Head(on[s])>> \o on[t]
    <3>1. on2 = [on EXCEPT ![s] = below, ![t] = b]
      BY DEF DiscMoved
    <3> HIDE DEF below, b, on2
    <3>2. on2[s] = below /\ on2[t] = b /\ \A p \in Pegs \ {s, t} : on2[p] = on[p]
      BY <1>3, <1>4, <2>1, <3>1
    <3> QED
      BY <3>2 DEF below, b
  <2> HIDE DEF on2, d
  <2> QED
    BY <1>3, <1>4, <1>9, <2>2
<1>12. InHand(g_nodePool', d, frames', val', on2)
  BY <1>1, <1>11 DEF InHand
<1> HIDE DEF d, v, on2
<1>13. Then(pow, d, v, on2)
  BY <1>1, <1>5, <1>7, <1>8, <1>9, <1>10, <1>12 DEF Then, State
<1> QED
  BY <1>10, <1>13 DEF Continues

LEMMA Recurses ==
  ASSUME NUM_DISCS \in Nat \ {0}, NEW pow, NEW c, NEW w, NEW on, Now(pow, c, w, on), T!Recurse
  PROVE  Continues(pow, on)
<1> DEFINE f == frames[1]
           x == T!Call(f)
           y == [f EXCEPT !.called = @ + 1]
<1>1. /\ towers_pc = "towers_solve_h" /\ frames # << >> /\ Head(frames).n > 1
      /\ UNCHANGED <<towers_pc, g_nodePool, g_nodeFreeList, pegs, numMoves, pushed, cleared, val>>
      /\ frames' = IF Head(frames).called = 3 THEN Tail(frames)
                   ELSE <<T!Call(Head(frames)), [Head(frames) EXCEPT !.called = @ + 1]>>
                          \o Tail(frames)
  BY DEF T!Recurse, T!Solving, T!this, T!Returns
<1>2. /\ Core(g_nodePool, pegs, g_nodeFreeList, c) /\ Discs(w, on)
      /\ frames \in Seq(AllFrames) /\ Stack(frames, Len(frames), w)
      /\ InHand(g_nodePool, c, frames, val, on)
      /\ Powers(pow) => Counted(pow, frames, Len(frames), numMoves)
  BY <1>1 DEF Now, State
<1>3. /\ Head(frames) = f /\ f \in AllFrames /\ f.n > 1 /\ Len(frames) \in Nat /\ Len(frames) > 0
      /\ Tail(frames) \in Seq(AllFrames) /\ Len(Tail(frames)) = Len(frames) - 1
      /\ \A k \in 1 .. Len(frames) - 1 : Tail(frames)[k] = frames[k + 1]
  BY <1>1, <1>2, FramesFacts
<1>4. val = 0 /\ \A p \in Pegs : Vals(g_nodePool, c[p]) = on[p]
  BY <1>2, <1>3 DEF InHand
<1>5. InHand(g_nodePool', c, frames', val', on)
  BY <1>1, <1>4 DEF InHand
<1>6. CASE f.called = 3
  <2>1. frames' = Tail(frames)
    BY <1>1, <1>3, <1>6
  <2>2. Stack(frames', Len(frames'), w)
    BY <1>2, <1>3, <1>6, <2>1, StackReturn
  <2>3. Powers(pow) => Counted(pow, frames', Len(frames'), numMoves')
    <3>1. ASSUME Powers(pow)
          PROVE  Counted(pow, frames', Len(frames) - 1, numMoves)
      BY <1>2, <1>3, <1>6, <2>1, <3>1, CountedReturn
    <3> QED
      BY <1>1, <1>3, <2>1, <3>1
  <2>4. Then(pow, c, w, on)
    BY <1>1, <1>2, <1>3, <1>5, <2>1, <2>2, <2>3 DEF Then, State
  <2> QED
    BY <2>4 DEF Continues
<1>7. CASE f.called # 3
  <2>1. frames' = <<x, y>> \o Tail(frames)
    BY <1>1, <1>3, <1>7
  <2>2. x \in AllFrames /\ y \in AllFrames
    <3>1. f.called \in 0 .. 2 /\ f.n \in 1 .. NUM_DISCS /\ f.n > 1
          /\ f.startPeg \in Pegs /\ f.tempPeg \in Pegs /\ f.destPeg \in Pegs
      BY <1>3, <1>7 DEF AllFrames
    <3>2. f.n - 1 \in 1 .. NUM_DISCS /\ 1 \in 1 .. NUM_DISCS
      BY <3>1
    <3> HIDE DEF f
    <3>3. x \in AllFrames
      BY <3>1, <3>2 DEF T!Call, T!Frame, AllFrames
    <3>4. y \in AllFrames
      BY <1>3, <3>1 DEF AllFrames
    <3> QED
      BY <3>3, <3>4
  <2>3. /\ frames' \in Seq(AllFrames) /\ Len(frames') = Len(frames) + 1
        /\ frames'[1] = x /\ frames'[2] = y
        /\ \A k \in 2 .. Len(frames) : frames'[k + 1] = frames[k]
    <3> HIDE DEF x, y
    <3>1. frames # << >>
      BY <1>1
    <3> DEFINE G == <<x, y>> \o Tail(frames)
    <3>2. /\ G \in Seq(AllFrames) /\ Len(G) = Len(frames) + 1 /\ G[1] = x /\ G[2] = y
          /\ \A k \in 2 .. Len(frames) : G[k + 1] = frames[k]
      BY <1>2, <2>2, <3>1, FramesCall
    <3>3. frames' = G
      BY <2>1
    <3> HIDE DEF G
    <3> QED
      BY <3>2, <3>3, Zenon
  <2>4. Stack(frames', Len(frames) + 1, w)
    BY <1>2, <1>3, <1>7, <2>3, StackCall
  <2>5. Powers(pow) => Counted(pow, frames', Len(frames) + 1, numMoves)
    <3>1. ASSUME Powers(pow)
          PROVE  Counted(pow, frames', Len(frames) + 1, numMoves)
      BY <1>2, <1>3, <1>7, <2>3, <3>1, CountedCall
    <3> QED
      BY <3>1
  <2>7. Stack(frames', Len(frames'), w)
    BY <2>3, <2>4
  <2>8. Powers(pow) => Counted(pow, frames', Len(frames'), numMoves')
    BY <1>1, <2>3, <2>5
  <2>9. Then(pow, c, w, on)
    BY <1>1, <1>2, <1>5, <2>3, <2>7, <2>8 DEF Then, State
  <2> QED
    BY <2>9 DEF Continues
<1> QED
  BY <1>6, <1>7

LEMMA Ends ==
  ASSUME NUM_DISCS \in Nat \ {0}, NEW pow, NEW c, NEW w, NEW on, Now(pow, c, w, on), T!main
  PROVE  Continues(pow, on)
<1>1. /\ towers_pc = "towers_solve_h" /\ frames = << >> /\ towers_pc' = "done"
      /\ UNCHANGED <<g_nodePool, g_nodeFreeList, pegs, numMoves, pushed, cleared, frames, val>>
  BY DEF T!main
<1>2. Then(pow, c, w, on)
  BY <1>1 DEF Now, Then, State
<1> QED
  BY <1>2 DEF Continues

LEMMA StepContinues ==
  ASSUME NUM_DISCS \in Nat \ {0}, NEW pow, NEW c, NEW w, NEW on, Now(pow, c, w, on),
         [T!Next]_(T!vars)
  PROVE  Continues(pow, on)
<1>1. CASE UNCHANGED T!vars
  <2>1. Then(pow, c, w, on)
    BY <1>1 DEF Now, Then, T!vars
  <2> QED
    BY <2>1 DEF Continues
<1>2. CASE T!towers_init
  BY <1>2, InitPushes, InitEnds
<1> QED
  BY <1>1, <1>2, Clears, Takes, Puts, Recurses, Ends DEF T!Next

(* The first state.                                                        *)
LEMMA TowersBegin ==
  ASSUME NUM_DISCS \in Nat \ {0}, T!Init, NEW pow
  PROVE  \E c : Now(pow, c, FirstPegs, FirstOn)
<1> DEFINE s == [k \in 1 .. NUM_DISCS |-> k]
           c == [q \in Lists |-> IF q = "free" THEN s ELSE << >>]
           h == Heads(pegs, g_nodeFreeList)
<1>1. /\ towers_pc = "towers_init" /\ g_nodeFreeList = 1 /\ numMoves = 0 /\ pushed = 0
      /\ frames = << >> /\ val = 0
      /\ g_nodePool = [n \in 1 .. NUM_DISCS |->
                         IF n < NUM_DISCS THEN [val |-> n - 1, next |-> n + 1]
                         ELSE [val |-> 99, next |-> 0]]
      /\ pegs = [p \in Pegs |-> [size |-> 0, head |-> 0]]
  BY DEF T!Init, T!Nodes, T!NIL, T!list_init, T!Pegs, Pegs
<1>2. g_nodePool \in PoolType
  BY <1>1 DEF PoolType, T!Nodes
<1>3. pegs \in [Pegs -> [size : Nat, head : 0 .. NUM_DISCS]] /\ g_nodeFreeList \in 0 .. NUM_DISCS
  BY <1>1
<1>4. /\ s \in Seq(T!Nodes) /\ Len(s) = NUM_DISCS /\ \A k \in 1 .. NUM_DISCS : s[k] = k
  BY DEF T!Nodes
<1> HIDE DEF s
<1>5. /\ c \in [Lists -> Seq(T!Nodes)] /\ c["free"] = s
      /\ \A q \in Lists : q # "free" => c[q] = << >>
  BY <1>4 DEF Lists
<1>6. /\ h["free"] = 1 /\ \A q \in Lists : q # "free" => h[q] = 0
  BY <1>1 DEF Heads, Lists, Pegs
<1>7. \A q \in Lists : q # "free" => /\ 1 .. Len(c[q]) = {} /\ Nth(c[q], 1) = 0
                                     /\ Len(c[q]) = 0
  BY <1>5 DEF Nth
<1> HIDE DEF c, h
<1>8. Linked(g_nodePool, h, c)
  <2>1. \A q \in Lists : h[q] = Nth(c[q], 1)
    BY <1>4, <1>5, <1>6, <1>7 DEF Nth
  <2>2. ASSUME NEW q \in Lists, NEW k \in 1 .. Len(c[q])
        PROVE  q = "free" /\ k \in 1 .. NUM_DISCS /\ c[q][k] = k
               /\ g_nodePool[c[q][k]].next = Nth(c[q], k + 1)
    <3>1. q = "free"
      BY <1>7
    <3>2. k \in 1 .. NUM_DISCS /\ c[q][k] = k
      BY <1>4, <1>5, <3>1
    <3>3. g_nodePool[k].next = IF k < NUM_DISCS THEN k + 1 ELSE 0
      BY <1>1, <3>2
    <3>4. Nth(c[q], k + 1) = IF k < NUM_DISCS THEN k + 1 ELSE 0
      BY <1>4, <1>5, <3>1, <3>2 DEF Nth
    <3> QED
      BY <3>1, <3>2, <3>3, <3>4
  <2>3. ASSUME NEW n \in T!Nodes
        PROVE  \E q \in Lists : \E k \in 1 .. Len(c[q]) : c[q][k] = n
    <3>1. "free" \in Lists /\ n \in 1 .. Len(c["free"]) /\ c["free"][n] = n
      BY <1>4, <1>5 DEF Lists, T!Nodes
    <3> QED
      BY <3>1
  <2>4. Len(c["A"]) + Len(c["B"]) + Len(c["C"]) + Len(c["free"]) = NUM_DISCS
    <3>1. Len(c["A"]) = 0 /\ Len(c["B"]) = 0 /\ Len(c["C"]) = 0
      BY <1>7 DEF Lists
    <3>2. Len(c["free"]) = NUM_DISCS
      BY <1>4, <1>5
    <3> QED
      BY <3>1, <3>2
  <2> QED
    BY <1>5, <2>1, <2>2, <2>3, <2>4 DEF Linked
<1>9. Core(g_nodePool, pegs, g_nodeFreeList, c)
  <2>1. \A p \in Pegs : pegs[p].size = Len(c[p])
    BY <1>1, <1>7 DEF Pegs, Lists
  <2> QED
    BY <1>2, <1>3, <1>8, <2>1 DEF Core, h
<1>10. Pushed(g_nodePool, c, pushed)
  <2>1. c["A"] = << >> /\ c["B"] = << >> /\ c["C"] = << >>
    BY <1>5 DEF Lists
  <2>2. Len(c["A"]) = 0
    BY <2>1
  <2> QED
    BY <1>1, <2>1, <2>2 DEF Pushed
<1>11. Discs(FirstPegs, FirstOn)
  BY DiscsFirst DEF FirstPegs, FirstOn
<1> QED
  BY <1>1, <1>9, <1>10, <1>11 DEF Now, State

-----------------------------------------------------------------------------
(* The inductive invariant: lists of nodes (c), pegs of the discs (w) and  *)
(* discs of the pegs (on) that the state agrees with.                      *)
TwoTo == [n \in 0 .. NUM_DISCS |-> 2 ^ n]

TInv == \E c, w, on : Now(TwoTo, c, w, on)

LEMMA TInvStep ==
  ASSUME NUM_DISCS \in Nat \ {0}, TInv, [T!Next]_(T!vars)
  PROVE  \E c, w, on : Then(TwoTo, c, w, on)
<1>1. PICK c, w, on : Now(TwoTo, c, w, on)
  BY DEF TInv
<1>2. Continues(TwoTo, on)
  BY <1>1, StepContinues
<1> QED
  BY <1>2 DEF Continues

LEMMA TowersInvariant ==
  ASSUME NUM_DISCS \in Nat \ {0}
  PROVE  T!Spec => []TInv
<1>1. T!Init => TInv
  BY TowersBegin DEF TInv
<1>2. TInv /\ [T!Next]_(T!vars) => TInv'
  BY TInvStep DEF TInv, Now, Then, TwoTo
<1> QED
  BY <1>1, <1>2, PTL DEF T!Spec

(* In every state, for every number of discs, each node is on one chain,   *)
(* once, and the sizes are the lengths.                                    *)
LEMMA NowConserves ==
  ASSUME NUM_DISCS \in Nat \ {0}, NEW pow, NEW c, NEW w, NEW on, Now(pow, c, w, on)
  PROVE  T!NodesConserved
<1> DEFINE h == Heads(pegs, g_nodeFreeList)
<1>1. Core(g_nodePool, pegs, g_nodeFreeList, c) /\ Linked(g_nodePool, h, c)
  BY DEF Now, State, Core
<1>2. HeadsOf(pegs, g_nodeFreeList, c)
  BY <1>1, CoreFacts
<1>3. \A q \in Lists : T!Chain(h[q]) = c[q]
  BY <1>1, LinkedChains, ChainIsIn
<1>4. \A p \in Pegs : T!Chain(pegs[p].head) = c[p]
  BY <1>2, <1>3 DEF HeadsOf
<1>5. T!Chain(g_nodeFreeList) = c["free"]
  BY <1>2, <1>3 DEF HeadsOf
<1>6. LET all == ((c["A"] \o c["B"]) \o c["C"]) \o c["free"]
      IN  Len(all) = NUM_DISCS /\ ToSet(all) = T!Nodes
  BY <1>1, LinkedConserved
<1>7. \A p \in T!Pegs : pegs[p].size = Len(T!Chain(pegs[p].head))
  BY <1>1, <1>4 DEF Core, T!Pegs, Pegs
<1>8. /\ T!Chain(pegs["A"].head) = c["A"] /\ T!Chain(pegs["B"].head) = c["B"]
      /\ T!Chain(pegs["C"].head) = c["C"]
  BY <1>4 DEF Pegs
<1> QED
  BY <1>5, <1>6, <1>7, <1>8, Zenon DEF T!NodesConserved, T!ToSet, ToSet

(* list_push and list_pop of towers_main.c, for every number of discs:     *)
(* no node is lost, shared or linked into a cycle, sizes are lengths.      *)
THEOREM NodesAreConserved ==
  ASSUME NUM_DISCS \in Nat \ {0}
  PROVE  T!Spec => []NodesConserved
<1>1. TInv => NodesConserved
  BY NowConserves DEF TInv, NodesConserved
<1>2. T!Spec => []TInv
  BY TowersInvariant
<1> QED
  BY <1>1, <1>2, PTL

-----------------------------------------------------------------------------
(* The discs the puzzle sees are on.                                       *)
OnPegsIn(at, pool, ps, F, v) ==
    [p \in T!Pegs |->
        IF at \in {"towers_init", "towers_clear"}
        THEN IF p = "A" THEN [d \in 1 .. NUM_DISCS |-> d] ELSE << >>
        ELSE IF v # 0 /\ p = Head(F).startPeg
        THEN <<v>> \o [k \in DOMAIN ChainIn(pool, ps[p].head) |->
                         pool[ChainIn(pool, ps[p].head)[k]].val]
        ELSE [k \in DOMAIN ChainIn(pool, ps[p].head) |->
                pool[ChainIn(pool, ps[p].head)[k]].val]]

LEMMA OnPegsForm ==
  /\ T!OnPegs = OnPegsIn(towers_pc, g_nodePool, pegs, frames, val)
  /\ T!OnPegs' = OnPegsIn(towers_pc', g_nodePool', pegs', frames', val')
<1>1. T!OnPegs = OnPegsIn(towers_pc, g_nodePool, pegs, frames, val)
  BY DEF T!OnPegs, OnPegsIn, T!Values, T!this, T!Chain, ChainIn, T!NIL
<1>2. T!OnPegs' = OnPegsIn(towers_pc', g_nodePool', pegs', frames', val')
  BY DEF T!OnPegs, OnPegsIn, T!Values, T!this, T!Chain, ChainIn, T!NIL
<1> QED
  BY <1>1, <1>2

LEMMA OnPegsIs ==
  ASSUME NUM_DISCS \in Nat \ {0}, NEW pow, NEW at, NEW pool, NEW f, NEW ps, NEW moves, NEW n,
         NEW F, NEW v, NEW c, NEW w, NEW on, State(pow, at, pool, f, ps, moves, n, F, v, c, w, on)
  PROVE  OnPegsIn(at, pool, ps, F, v) = on
<1> DEFINE x == OnPegsIn(at, pool, ps, F, v)
           h == Heads(ps, f)
<1>1. Core(pool, ps, f, c) /\ Linked(pool, h, c) /\ Discs(w, on)
  BY DEF State, Core
<1>2. T!Pegs = Pegs
  BY DEF T!Pegs, Pegs
<1>3. on \in [Pegs -> Seq(1 .. NUM_DISCS)]
  BY <1>1 DEF Discs
<1>4. CASE at \in {"towers_init", "towers_clear"}
  <2>1. on = FirstOn
    BY <1>4 DEF State
  <2> QED
    BY <1>2, <1>4, <2>1 DEF OnPegsIn, FirstOn
<1>5. CASE at \notin {"towers_init", "towers_clear"}
  <2>1. HeadsOf(ps, f, c)
    BY <1>1, CoreFacts
  <2>2. ASSUME NEW p \in Pegs
        PROVE  [k \in DOMAIN ChainIn(pool, ps[p].head) |->
                  pool[ChainIn(pool, ps[p].head)[k]].val] = Vals(pool, c[p])
    <3>1. p \in Lists /\ ps[p].head = h[p] /\ c[p] \in Seq(T!Nodes)
      BY <2>1 DEF HeadsOf
    <3>2. ChainIn(pool, ps[p].head) = c[p]
      BY <1>1, <3>1, LinkedChains
    <3>3. DOMAIN c[p] = 1 .. Len(c[p])
      BY <3>1
    <3> QED
      BY <3>2, <3>3 DEF Vals
  <2>3. InHand(pool, c, F, v, on) /\ F \in Seq(AllFrames)
    BY <1>5 DEF State
  <2>4. ASSUME NEW p \in Pegs
        PROVE  on[p] = IF v # 0 /\ p = Head(F).startPeg THEN <<v>> \o Vals(pool, c[p])
                       ELSE Vals(pool, c[p])
    <3>1. CASE v = 0
      BY <2>3, <3>1 DEF InHand
    <3>2. CASE v # 0
      <4>1. /\ F # << >> /\ F[1].startPeg \in Pegs /\ on[F[1].startPeg] # << >>
            /\ v = Head(on[F[1].startPeg])
            /\ Vals(pool, c[p]) = IF p = F[1].startPeg THEN Tail(on[p]) ELSE on[p]
        BY <2>3, <3>2 DEF InHand
      <4>2. Head(F) = F[1]
        BY <2>3, <4>1, FramesFacts
      <4>3. CASE p = F[1].startPeg
        <5>1. on[p] \in Seq(1 .. NUM_DISCS) /\ on[p] # << >>
          BY <1>3, <4>1, <4>3
        <5>2. Cat(<<Head(on[p])>>, Tail(on[p])) = on[p]
          BY <5>1, HeadThenTail
        <5> QED
          BY <3>2, <4>1, <4>2, <4>3, <5>2 DEF Cat
      <4>4. CASE p # F[1].startPeg
        BY <4>1, <4>2, <4>4
      <4> QED
        BY <4>3, <4>4
    <3> QED
      BY <3>1, <3>2
  <2>5. ASSUME NEW p \in Pegs
        PROVE  x[p] = on[p]
    <3>1. p \in T!Pegs
      BY <1>2
    <3>2. x[p] = IF v # 0 /\ p = Head(F).startPeg
                 THEN <<v>> \o [k \in DOMAIN ChainIn(pool, ps[p].head) |->
                                  pool[ChainIn(pool, ps[p].head)[k]].val]
                 ELSE [k \in DOMAIN ChainIn(pool, ps[p].head) |->
                         pool[ChainIn(pool, ps[p].head)[k]].val]
      BY <1>5, <3>1, Zenon DEF OnPegsIn
    <3> QED
      BY <2>2, <2>4, <3>2, Zenon
  <2>6. x = [p \in Pegs |-> x[p]]
    BY <1>2, Zenon DEF OnPegsIn
  <2>7. on = [p \in Pegs |-> on[p]]
    BY <1>3
  <2> HIDE DEF x
  <2>8. x = on
    BY <2>5, <2>6, <2>7
  <2> QED
    BY <2>8 DEF x
<1> QED
  BY <1>4, <1>5

LEMMA MovedIsNext ==
  ASSUME Moved(T!OnPegs, T!OnPegs')
  PROVE  T!Puzzle!Next
<1>1. PICK p \in Pegs, q \in Pegs :
         /\ p # q /\ T!OnPegs[p] # << >>
         /\ T!OnPegs[q] # << >> => Head(T!OnPegs[p]) < Head(T!OnPegs[q])
         /\ T!OnPegs' = DiscMoved(T!OnPegs, p, q)
  BY DEF Moved
<1>2. p \in T!Puzzle!Pegs /\ q \in T!Puzzle!Pegs \ {p}
  BY <1>1 DEF Pegs, T!Puzzle!Pegs
<1>3. T!Puzzle!Move(p, q)
  BY <1>1, Zenon DEF T!Puzzle!Move, DiscMoved
<1> QED
  BY <1>2, <1>3 DEF T!Puzzle!Next

(* towers_solve_h moves one disc at a time, a smaller one onto a larger    *)
(* one, for every number of discs: it implements the puzzle.               *)
THEOREM TowersPlaysHanoi ==
  ASSUME NUM_DISCS \in Nat \ {0}
  PROVE  T!Spec => PlaysHanoi
<1>1. T!Init => T!Puzzle!Init
  BY DEF T!Init, T!Puzzle!Init, T!OnPegs, T!Pegs, T!Puzzle!Pegs
<1>2. TInv /\ [T!Next]_(T!vars) => [T!Puzzle!Next]_(T!OnPegs)
  <2> SUFFICES ASSUME TInv, [T!Next]_(T!vars)
               PROVE  [T!Puzzle!Next]_(T!OnPegs)
    OBVIOUS
  <2>1. PICK c, w, on : Now(TwoTo, c, w, on)
    BY DEF TInv
  <2>2. Continues(TwoTo, on)
    BY <2>1, StepContinues
  <2>3. PICK c2, w2, on2 : Then(TwoTo, c2, w2, on2) /\ (on2 = on \/ Moved(on, on2))
    BY <2>2 DEF Continues
  <2>4. T!OnPegs = on
    BY <2>1, OnPegsForm, OnPegsIs DEF Now
  <2>5. T!OnPegs' = on2
    BY <2>3, OnPegsForm, OnPegsIs DEF Then
  <2> QED
    BY <2>3, <2>4, <2>5, MovedIsNext
<1>3. T!Spec => []TInv
  BY TowersInvariant
<1> QED
  BY <1>1, <1>2, <1>3, PTL DEF PlaysHanoi, T!PlaysHanoi, T!Spec, T!Puzzle!Spec

-----------------------------------------------------------------------------
(* A peg that holds all the discs holds them in order.                     *)
AllOrdered(s, n, N) ==
    /\ \A k \in 1 .. n : s[k] \in 1 .. N
    /\ \A k \in 1 .. n : \A e \in 1 .. n : k < e => s[k] < s[e]
    /\ \A d \in 1 .. N : \E k \in 1 .. n : s[k] = d

LEMMA AllInOrderTo ==
  ASSUME NEW N \in Nat \ {0}, NEW n \in Nat, NEW s, AllOrdered(s, n, N)
  PROVE  n = N /\ \A k \in 1 .. N : s[k] = k
<1> USE DEF AllOrdered
<1>1. \A k \in 1 .. N : k <= n /\ s[k] = k
  <2> DEFINE B == {k \in 1 .. N : ~(k <= n /\ s[k] = k)}
  <2> SUFFICES ASSUME B # {}
               PROVE  FALSE
    OBVIOUS
  <2>1. PICK k \in B : \A m \in B : k <= m
    <3>1. B \subseteq Nat
      OBVIOUS
    <3> HIDE DEF B
    <3> QED
      BY <3>1, LeastOf
  <2>2. k \in 1 .. N /\ ~(k <= n /\ s[k] = k)
    BY <2>1
  <2>3. \A m \in 1 .. k - 1 : m <= n /\ s[m] = m
    <3> SUFFICES ASSUME NEW m \in 1 .. k - 1
                 PROVE  m <= n /\ s[m] = m
      OBVIOUS
    <3>1. m \in 1 .. N /\ ~(k <= m)
      BY <2>2
    <3> QED
      BY <2>1, <3>1
  <2> HIDE DEF B
  <2>4. PICK e \in 1 .. n : s[e] = k
    BY <2>2
  <2>5. ~(e < k)
    <3> SUFFICES ASSUME e < k
                 PROVE  FALSE
      OBVIOUS
    <3>1. e \in 1 .. k - 1
      BY <2>2
    <3> QED
      BY <2>2, <2>3, <2>4, <3>1
  <2>6. k \in 1 .. n /\ k < e
    BY <2>2, <2>4, <2>5
  <2>7. s[k] < k /\ s[k] \in 1 .. N
    BY <2>4, <2>6
  <2>8. s[k] \in 1 .. k - 1 /\ s[k] \in 1 .. n
    BY <2>2, <2>6, <2>7
  <2>9. s[s[k]] = s[k]
    BY <2>3, <2>8
  <2>10. s[s[k]] < s[k]
    BY <2>6, <2>7, <2>8
  <2> QED
    BY <2>7, <2>9, <2>10
<1>2. ~(n > N)
  <2> SUFFICES ASSUME n > N
               PROVE  FALSE
    OBVIOUS
  <2>1. N \in 1 .. n /\ N + 1 \in 1 .. n /\ N \in 1 .. N /\ N < N + 1
    OBVIOUS
  <2>2. s[N] < s[N + 1] /\ s[N] = N
    BY <1>1, <2>1
  <2>3. s[N + 1] \in 1 .. N
    BY <2>1
  <2> QED
    BY <2>2, <2>3
<1>3. n >= N
  BY <1>1
<1> QED
  BY <1>1, <1>2, <1>3

LEMMA AllInOrder ==
  ASSUME NUM_DISCS \in Nat \ {0}, NEW s \in Seq(1 .. NUM_DISCS),
         \A k \in 1 .. Len(s) : \A e \in 1 .. Len(s) : k < e => s[k] < s[e],
         \A d \in 1 .. NUM_DISCS : \E k \in 1 .. Len(s) : s[k] = d
  PROVE  Len(s) = NUM_DISCS /\ \A k \in 1 .. NUM_DISCS : s[k] = k
<1> DEFINE n == Len(s)
<1>1. n \in Nat /\ \A k \in 1 .. n : s[k] \in 1 .. NUM_DISCS
  BY SeqFacts
<1> HIDE DEF n
<1>2. \A k \in 1 .. n : \A e \in 1 .. n : k < e => s[k] < s[e]
  BY DEF n
<1>3. \A d \in 1 .. NUM_DISCS : \E k \in 1 .. n : s[k] = d
  BY DEF n
<1>4. n = NUM_DISCS /\ \A k \in 1 .. NUM_DISCS : s[k] = k
  <2>1. AllOrdered(s, n, NUM_DISCS)
    BY <1>1, <1>2, <1>3 DEF AllOrdered
  <2> QED
    BY <1>1, <2>1, AllInOrderTo
<1> QED
  BY <1>4 DEF n

(* What the provers are not told of ^.                                     *)
PowersOfTwo == 2 ^ 0 = 1 /\ \A n \in Nat : 2 ^ n \in Nat /\ 2 ^ (n + 1) = 2 * 2 ^ n

LEMMA TwoToFacts ==
  ASSUME NUM_DISCS \in Nat \ {0}, PowersOfTwo
  PROVE  Powers(TwoTo) /\ TwoTo[NUM_DISCS] = 2 ^ NUM_DISCS
<1>1. TwoTo \in [0 .. NUM_DISCS -> Nat] /\ TwoTo[0] = 1
  BY DEF PowersOfTwo, TwoTo
<1>2. ASSUME NEW n \in 1 .. NUM_DISCS
      PROVE  TwoTo[n] = 2 * TwoTo[n - 1]
  <2>1. n - 1 \in Nat /\ (n - 1) + 1 = n /\ n \in 0 .. NUM_DISCS /\ n - 1 \in 0 .. NUM_DISCS
    OBVIOUS
  <2>2. 2 ^ ((n - 1) + 1) = 2 * 2 ^ (n - 1)
    BY <2>1 DEF PowersOfTwo
  <2> QED
    BY <2>1, <2>2 DEF TwoTo
<1>3. TwoTo[NUM_DISCS] = 2 ^ NUM_DISCS
  BY DEF TwoTo
<1> QED
  BY <1>1, <1>2, <1>3 DEF Powers

(* What towers_verify finds in the end.                                    *)
LEMMA VerifyFinds ==
  ASSUME NUM_DISCS \in Nat \ {0}, PowersOfTwo,
         NEW c, NEW w, NEW on, Now(TwoTo, c, w, on), towers_pc \in {"towers_solve_h", "done"},
         frames = << >>
  PROVE  T!towers_verify = 1
<1>1. /\ Core(g_nodePool, pegs, g_nodeFreeList, c) /\ Discs(w, on)
      /\ Stack(frames, Len(frames), w) /\ InHand(g_nodePool, c, frames, val, on)
      /\ Counted(TwoTo, frames, Len(frames), numMoves)
  BY TwoToFacts DEF Now, State
<1>2. Len(frames) = 0
  OBVIOUS
<1>3. \A d \in 1 .. NUM_DISCS : w[d] = "C"
  BY <1>1, <1>2 DEF Stack
<1>4. numMoves = 2 ^ NUM_DISCS - 1
  BY <1>1, <1>2, TwoToFacts DEF Counted, Counts
<1>5. val = 0 /\ \A p \in Pegs : Vals(g_nodePool, c[p]) = on[p]
  BY <1>1 DEF InHand
<1>6. HeadsOf(pegs, g_nodeFreeList, c)
  BY <1>1, CoreFacts
<1>7. ASSUME NEW p \in Pegs
      PROVE  pegs[p].size = Len(on[p]) /\ T!Values(p) = on[p]
  <2>1. /\ p \in Lists /\ c[p] \in Seq(T!Nodes)
        /\ pegs[p].head = Heads(pegs, g_nodeFreeList)[p]
    BY <1>6 DEF HeadsOf
  <2>2. T!Chain(pegs[p].head) = c[p]
    BY <1>1, <2>1, LinkedChains, ChainIsIn DEF Core
  <2>3. T!Values(p) = Vals(g_nodePool, c[p])
    <3>1. DOMAIN c[p] = 1 .. Len(c[p])
      BY <2>1
    <3> QED
      BY <2>2, <3>1 DEF T!Values, Vals
  <2>4. Len(Vals(g_nodePool, c[p])) = Len(c[p])
    BY <1>1, <2>1, ValsType DEF Core
  <2>5. pegs[p].size = Len(c[p])
    BY <1>1 DEF Core
  <2> QED
    BY <1>5, <2>3, <2>4, <2>5
<1>8. ASSUME NEW p \in Pegs, p # "C"
      PROVE  pegs[p].size = 0
  <2>1. on[p] \in Seq(1 .. NUM_DISCS)
    BY <1>1 DEF Discs
  <2>2. Len(on[p]) \in Nat /\ \A k \in 1 .. Len(on[p]) : on[p][k] \in 1 .. NUM_DISCS
    BY <2>1, SeqFacts
  <2>3. ~(Len(on[p]) > 0)
    <3> SUFFICES ASSUME Len(on[p]) > 0
                 PROVE  FALSE
      OBVIOUS
    <3>1. 1 \in 1 .. Len(on[p])
      BY <2>2
    <3>2. w[on[p][1]] = p
      BY <1>1, <3>1 DEF Discs
    <3> QED
      BY <1>3, <1>8, <2>2, <3>1, <3>2
  <2> QED
    BY <1>7, <2>2, <2>3
<1>9. "C" \in Pegs /\ "A" \in Pegs /\ "B" \in Pegs
  BY DEF Pegs
<1>10. Len(on["C"]) = NUM_DISCS /\ \A k \in 1 .. NUM_DISCS : on["C"][k] = k
  <2>1. on["C"] \in Seq(1 .. NUM_DISCS)
    BY <1>1, <1>9 DEF Discs
  <2>2. \A k \in 1 .. Len(on["C"]) : \A e \in 1 .. Len(on["C"]) : k < e => on["C"][k] < on["C"][e]
    BY <1>1, <1>9 DEF Discs
  <2>3. \A d \in 1 .. NUM_DISCS : \E k \in 1 .. Len(on["C"]) : on["C"][k] = d
    BY <1>1, <1>3 DEF Discs
  <2> DEFINE s == on["C"]
  <2> HIDE DEF s
  <2>4. Len(s) = NUM_DISCS /\ \A k \in 1 .. NUM_DISCS : s[k] = k
    BY <2>1, <2>2, <2>3, AllInOrder DEF s
  <2> QED
    BY <2>4 DEF s
<1>11. pegs["A"].size = 0 /\ pegs["B"].size = 0 /\ pegs["C"].size = NUM_DISCS
  <2>1. "A" # "C" /\ "B" # "C"
    OBVIOUS
  <2> QED
    BY <1>7, <1>8, <1>9, <1>10, <2>1
<1>12. \A k \in DOMAIN T!Values("C") : T!Values("C")[k] = k
  <2>1. DOMAIN on["C"] = 1 .. Len(on["C"])
    BY <1>1, <1>9 DEF Discs
  <2> QED
    BY <1>7, <1>9, <1>10, <2>1
<1> QED
  BY <1>4, <1>11, <1>12, Zenon DEF T!towers_verify

(* When main is done towers_verify has returned 1, that is all the discs   *)
(* are in order on peg C after the fewest moves, for every number of them. *)
THEOREM TowersSolves ==
  ASSUME NUM_DISCS \in Nat \ {0}, PowersOfTwo
  PROVE  T!Spec => []T!Solved
<1>1. T!Init => T!Solved
  BY DEF T!Init, T!Solved
<1>2. TInv /\ T!Solved /\ [T!Next]_(T!vars) => T!Solved'
  <2> SUFFICES ASSUME TInv, T!Solved, [T!Next]_(T!vars)
               PROVE  T!Solved'
    OBVIOUS
  <2>1. PICK c, w, on : Now(TwoTo, c, w, on)
    BY DEF TInv
  <2>2. CASE T!main
    <3>1. towers_pc = "towers_solve_h" /\ frames = << >> /\ towers_verdict' = T!towers_verify
      BY <2>2 DEF T!main
    <3>2. T!towers_verify = 1
      BY <2>1, <3>1, VerifyFinds
    <3> QED
      BY <3>1, <3>2 DEF T!Solved
  <2>3. CASE ~T!main
    BY <2>3 DEF T!Solved, T!Next, T!vars, T!towers_init, T!towers_clear, T!TakeDisc, T!PutDisc,
                T!Recurse, T!Solving
  <2> QED
    BY <2>2, <2>3
<1>3. T!Spec => []TInv
  BY TowersInvariant
<1> QED
  BY <1>1, <1>2, <1>3, PTL DEF T!Spec

-----------------------------------------------------------------------------
(* An access does not wrap around the end of the address space, where the  *)
(* code would take it for one to the memory's beginning.                   *)
RoundedUp == ((mem_size + 7) \div 8) * 8

MemoryFits ==
    /\ AddrMod \in Nat /\ mem_size \in Nat /\ RoundedUp < AddrMod
    /\ \A addr \in Addrs : addr \in Nat /\ addr + 8 < AddrMod

HostInv ==
    /\ p_mem_model.base_addr = 0 /\ p_mem_model.limit = RoundedUp
    /\ p_mem_model.memp = contents /\ DOMAIN contents = 0 .. RoundedUp - 1

LEMMA WidthsFit ==
  ASSUME MemoryFits
  PROVE  RoundedUp \in Nat /\ \A addr \in Addrs : \A n \in Host!Widths :
            /\ n \in Nat /\ n > 0 /\ addr \in Nat /\ (addr + n) % AddrMod = addr + n
<1>1. mem_size + 7 \in Nat /\ (mem_size + 7) \div 8 \in Nat
  BY DEF MemoryFits
<1>2. RoundedUp \in Nat
  BY <1>1 DEF RoundedUp
<1>3. ASSUME NEW addr \in Addrs, NEW n \in Host!Widths
      PROVE  n \in Nat /\ n > 0 /\ addr \in Nat /\ (addr + n) % AddrMod = addr + n
  <2>1. n \in Nat /\ n > 0 /\ n <= 8
    BY DEF Host!Widths
  <2>2. addr \in Nat /\ AddrMod \in Nat /\ addr + 8 < AddrMod
    BY DEF MemoryFits
  <2>3. addr + n \in Nat /\ addr + n < AddrMod
    BY <2>1, <2>2
  <2>4. \A x \in Nat : x < AddrMod => x % AddrMod = x
    BY <2>2
  <2> QED
    BY <2>1, <2>2, <2>3, <2>4
<1> QED
  BY <1>2, <1>3

(* What the functions check is whether all bytes are in the memory.        *)
LEMMA BadIsOutside ==
  ASSUME MemoryFits, HostInv, NEW addr \in Addrs, NEW n \in Host!Widths
  PROVE  Host!bad_addr(p_mem_model, addr, n) <=> ~Host!Inside(addr, n)
<1>1. /\ RoundedUp \in Nat /\ n \in Nat /\ n > 0 /\ addr \in Nat /\ (addr + n) % AddrMod = addr + n
  BY WidthsFit
<1>2. Host!bad_addr(p_mem_model, addr, n) <=> RoundedUp < addr + n
  BY <1>1 DEF Host!bad_addr, HostInv
<1>3. Host!Inside(addr, n) <=> \A b \in addr .. addr + n - 1 : b \in 0 .. RoundedUp - 1
  BY DEF Host!Inside, HostInv
<1>4. CASE RoundedUp < addr + n
  <2>1. addr + n - 1 \in addr .. addr + n - 1 /\ addr + n - 1 \notin 0 .. RoundedUp - 1
    BY <1>1, <1>4
  <2> QED
    BY <1>2, <1>3, <1>4, <2>1
<1>5. CASE ~(RoundedUp < addr + n)
  <2>1. \A b \in addr .. addr + n - 1 : b \in 0 .. RoundedUp - 1
    BY <1>1, <1>5
  <2> QED
    BY <1>2, <1>3, <1>5, <2>1
<1> QED
  BY <1>4, <1>5

LEMMA HostStep ==
  ASSUME MemoryFits, HostInv, NEW addr \in Addrs, NEW n \in Sizes, Host!Write(addr, n)
  PROVE  HostInv'
<1> DEFINE x == [k \in 1 .. n |-> <<writes + 1, k>>]
<1>1. /\ p_mem_model' = Host!c_mem_write(p_mem_model, addr, x, n)
      /\ contents' = IF Host!Inside(addr, n) /\ n \in Host!Widths THEN Host!Overwritten(contents, addr, x)
                     ELSE contents
  BY DEF Host!Write
<1> HIDE DEF x
<1>2. CASE n \in Host!Widths /\ Host!Inside(addr, n)
  <2>1. ~Host!bad_addr(p_mem_model, addr, n)
    BY <1>2, BadIsOutside
  <2>2. p_mem_model' = [p_mem_model EXCEPT !.memp = Host!Overwritten(p_mem_model.memp, addr, x)]
    BY <1>1, <1>2, <2>1 DEF Host!c_mem_write
  <2>3. contents' = Host!Overwritten(contents, addr, x)
    BY <1>1, <1>2
  <2>4. DOMAIN Host!Overwritten(contents, addr, x) = DOMAIN contents
    BY DEF Host!Overwritten
  <2>5. RoundedUp' = RoundedUp
    BY DEF RoundedUp
  <2> QED
    BY <2>2, <2>3, <2>4, <2>5 DEF HostInv
<1>3. CASE ~(n \in Host!Widths /\ Host!Inside(addr, n))
  <2>1. p_mem_model' = p_mem_model
    BY <1>1, <1>3, BadIsOutside DEF Host!c_mem_write
  <2>2. contents' = contents
    BY <1>1, <1>3
  <2> QED
    BY <2>1, <2>2 DEF HostInv, RoundedUp
<1> QED
  BY <1>2, <1>3

LEMMA HostReads ==
  ASSUME MemoryFits, HostInv, NEW addr \in Addrs, NEW n \in Host!Widths
  PROVE  /\ Host!Exact(Host!c_mem_read(p_mem_model, addr, n), addr, n, Host!FAILED)
         /\ Host!Exact(Host!OrExit(Host!c_mem_read(p_mem_model, addr, n)), addr, n, Host!EXIT)
<1> DEFINE read == [k \in 1 .. n |-> contents[addr + k - 1]]
<1>1. Host!c_mem_read(p_mem_model, addr, n) = IF Host!Inside(addr, n) THEN read ELSE Host!FAILED
  BY BadIsOutside DEF Host!c_mem_read, HostInv
<1>2. read # Host!FAILED
  <2>1. n \in Nat /\ n > 0
    BY WidthsFit
  <2>2. 1 \in DOMAIN read
    BY <2>1
  <2>3. DOMAIN Host!FAILED = {}
    BY DEF Host!FAILED
  <2> HIDE DEF read
  <2> QED
    BY <2>2, <2>3
<1> HIDE DEF read
<1>3. Host!Exact(Host!c_mem_read(p_mem_model, addr, n), addr, n, Host!FAILED)
  BY <1>1 DEF Host!Exact, read
<1>4. Host!OrExit(Host!c_mem_read(p_mem_model, addr, n)) = IF Host!Inside(addr, n) THEN read ELSE Host!EXIT
  BY <1>1, <1>2 DEF Host!OrExit
<1> QED
  BY <1>3, <1>4 DEF Host!Exact, read

(* c_mem_read and its three callers return what c_mem_write has written,   *)
(* byte by byte, for memories of any size and any accesses.                *)
THEOREM MemoryReadsBack ==
  ASSUME MemoryFits
  PROVE  Host!Spec => []ReadsBack
<1>1. Host!Init => HostInv
  BY DEF Host!Init, Host!c_mem_init, HostInv, RoundedUp, MemoryFits
<1>2. HostInv /\ [Host!Next]_(Host!vars) => HostInv'
  BY HostStep DEF Host!Next, Host!vars, HostInv, RoundedUp
<1>3. HostInv => ReadsBack
  <2> SUFFICES ASSUME HostInv, NEW addr \in Addrs
               PROVE  /\ \A n \in Sizes :
                           IF n \in Host!Widths
                           THEN Host!Exact(Host!c_mem_read(p_mem_model, addr, n), addr, n, Host!FAILED)
                           ELSE Host!c_mem_read(p_mem_model, addr, n) = Host!FAILED
                      /\ Host!Exact(Host!c_mem_read8(p_mem_model, addr), addr, 1, Host!EXIT)
                      /\ Host!Exact(Host!c_mem_read16(p_mem_model, addr), addr, 2, Host!EXIT)
                      /\ Host!Exact(Host!c_mem_read32(p_mem_model, addr), addr, 4, Host!EXIT)
    BY DEF ReadsBack, Host!ReadsBack
  <2>1. 1 \in Host!Widths /\ 2 \in Host!Widths /\ 4 \in Host!Widths
    BY DEF Host!Widths
  <2>2. \A n \in Sizes : n \notin Host!Widths => Host!c_mem_read(p_mem_model, addr, n) = Host!FAILED
    BY DEF Host!c_mem_read
  <2>3. \A n \in Host!Widths : Host!Exact(Host!c_mem_read(p_mem_model, addr, n), addr, n, Host!FAILED)
    BY HostReads
  <2>4. \A n \in Host!Widths : Host!Exact(Host!OrExit(Host!c_mem_read(p_mem_model, addr, n)), addr, n, Host!EXIT)
    BY HostReads
  <2>5. /\ Host!Exact(Host!c_mem_read8(p_mem_model, addr), addr, 1, Host!EXIT)
        /\ Host!Exact(Host!c_mem_read16(p_mem_model, addr), addr, 2, Host!EXIT)
        /\ Host!Exact(Host!c_mem_read32(p_mem_model, addr), addr, 4, Host!EXIT)
    BY <2>1, <2>4 DEF Host!c_mem_read8, Host!c_mem_read16, Host!c_mem_read32
  <2> QED
    BY <2>2, <2>3, <2>5
<1> QED
  BY <1>1, <1>2, <1>3, PTL DEF Host!Spec

-----------------------------------------------------------------------------
(* multiply and divide.  The arguments are ints; divide is only right for  *)
(* a divisor above 0 and a dividend that can be doubled without overflow.  *)
ArithFits ==
    /\ ArithBits \in Nat \ {0}
    /\ \A g \in Args : /\ g.call \in {"multiply", "divide"}
                       /\ g.x \in Arith!int /\ g.y \in Arith!int
                       /\ g.call = "divide" => g.y > 0 /\ 2 * g.x <= Arith!Half

(* No power of two is 0, for twice what is above 0 is above 0.            *)
LEMMA PowersPositive ==
  ASSUME PowersOfTwo
  PROVE  \A n \in Nat : 2 ^ n \in Nat \ {0}
<1> DEFINE S == {n \in Nat : 2 ^ n \in Nat \ {0}}
<1>1. 0 \in S
  BY DEF PowersOfTwo
<1>2. ASSUME NEW n \in Nat, n \in S
      PROVE  n + 1 \in S
  <2>1. 2 ^ n \in Nat \ {0} /\ 2 ^ (n + 1) = 2 * 2 ^ n /\ n + 1 \in Nat
    BY <1>2 DEF PowersOfTwo
  <2> QED
    BY <2>1
<1>3. Nat \subseteq S
  <2> HIDE DEF S
  <2> QED
    BY <1>1, <1>2, NatsIn
<1> QED
  BY <1>3

LEMMA DivMod ==
  ASSUME NEW M \in Nat \ {0}
  PROVE  /\ \A n \in Int : /\ n % M \in 0 .. M - 1 /\ n \div M \in Int
                           /\ n % M = n - M * (n \div M)
         /\ \A q \in Int, r \in 0 .. M - 1 : (M * q + r) % M = r /\ (M * q + r) \div M = q
<1>1. \A n \in Int : /\ n % M \in 0 .. M - 1 /\ n \div M \in Int
                     /\ n % M = n - M * (n \div M)
  OBVIOUS
<1>2. ASSUME NEW q \in Int, NEW r \in 0 .. M - 1
      PROVE  (M * q + r) % M = r /\ (M * q + r) \div M = q
  <2> DEFINE z == M * q + r
             u == z % M
             v == z \div M
  <2>1. z \in Int
    OBVIOUS
  <2>2. u \in 0 .. M - 1 /\ v \in Int /\ u = z - M * v
    <3> HIDE DEF z
    <3> QED
      BY <1>1, <2>1
  <2> HIDE DEF u, v
  <2>3. M * (q - v) = u - r
    BY <2>2
  <2> DEFINE w == q - v
  <2>4. w \in Int
    BY <2>2
  <2>5. -M < u - r /\ u - r < M
    BY <2>2
  <2> HIDE DEF w
  <2>6. M * w = u - r
    BY <2>3 DEF w
  <2>7. ~(w >= 1)
    <3> SUFFICES ASSUME w >= 1
                 PROVE  FALSE
      OBVIOUS
    <3>1. M * (w - 1) >= 0
      BY <2>4
    <3> QED
      BY <2>2, <2>4, <2>5, <2>6, <3>1
  <2>8. ~(w <= -1)
    <3> SUFFICES ASSUME w <= -1
                 PROVE  FALSE
      OBVIOUS
    <3>1. M * (-1 - w) >= 0
      BY <2>4
    <3> QED
      BY <2>2, <2>4, <2>5, <2>6, <3>1
  <2>9. w = 0
    BY <2>4, <2>7, <2>8
  <2>10. v = q /\ u = r
    BY <2>2, <2>3, <2>6, <2>9 DEF w
  <2> QED
    BY <2>10 DEF u, v
<1> QED
  BY <1>1, <1>2

(* What is cut off is a multiple of 2 * H, and what fits is not cut.       *)
CutTo(H, v) == ((v + H) % (2 * H)) - H

LEMMA CutToFacts ==
  ASSUME NEW H \in Nat \ {0}
  PROVE  /\ \A n \in Int : CutTo(H, n) \in -H .. H - 1 /\ \E k \in Int : CutTo(H, n) = n + 2 * H * k
         /\ \A n \in Int, k \in Int : CutTo(H, n + 2 * H * k) = CutTo(H, n)
         /\ \A n \in -H .. H - 1 : CutTo(H, n) = n
<1> DEFINE M == 2 * H
<1>1. \A n \in Int : CutTo(H, n) = ((n + H) % M) - H
  BY DEF CutTo
<1>2. M \in Nat \ {0}
  OBVIOUS
<1>3. M - 1 - H = H - 1
  OBVIOUS
<1> HIDE DEF M
<1>4. ASSUME NEW n \in Int
      PROVE  CutTo(H, n) \in -H .. H - 1 /\ \E k \in Int : CutTo(H, n) = n + M * k
  <2> DEFINE q == (n + H) \div M
             r == (n + H) % M
  <2>1. n + H \in Int
    OBVIOUS
  <2>2. q \in Int /\ r \in 0 .. M - 1 /\ r = (n + H) - M * q
    BY <1>2, <2>1, DivMod
  <2>3. CutTo(H, n) = r - H
    BY <1>1
  <2> HIDE DEF q, r
  <2>4. -q \in Int /\ M * (-q) = -(M * q) /\ M * q \in Int
    BY <1>2, <2>2
  <2>5. CutTo(H, n) = n + M * (-q)
    BY <2>2, <2>3, <2>4
  <2>6. CutTo(H, n) \in -H .. H - 1
    BY <1>2, <1>3, <2>2, <2>3
  <2> QED
    BY <2>4, <2>5, <2>6
<1>5. ASSUME NEW n \in Int, NEW k \in Int
      PROVE  CutTo(H, n + M * k) = CutTo(H, n)
  <2> DEFINE q == (n + H) \div M
             r == (n + H) % M
  <2>1. n + H \in Int
    OBVIOUS
  <2>2. q \in Int /\ r \in 0 .. M - 1 /\ r = (n + H) - M * q
    BY <1>2, <2>1, DivMod
  <2>3. CutTo(H, n) = r - H
    BY <1>1
  <2> HIDE DEF q, r
  <2>4. (n + M * k) + H = M * (q + k) + r /\ q + k \in Int /\ n + M * k \in Int
    <3> DEFINE d == M * q
               e == M * k
               c == M * (q + k)
    <3>1. c = d + e /\ d \in Int /\ e \in Int
      BY <1>2, <2>2
    <3>2. r = (n + H) - d /\ r \in Int
      BY <2>2
    <3> HIDE DEF c, d, e
    <3>3. (n + e) + H = c + r
      BY <3>1, <3>2
    <3>4. n + e \in Int /\ q + k \in Int
      BY <2>2, <3>1
    <3> QED
      BY <3>3, <3>4 DEF c, e
  <2>5. (M * (q + k) + r) % M = r
    BY <1>2, <2>2, <2>4, DivMod
  <2> QED
    BY <1>1, <2>3, <2>4, <2>5
<1>6. ASSUME NEW n \in -H .. H - 1
      PROVE  CutTo(H, n) = n
  <2> DEFINE e == n + H
  <2>1. n \in Int /\ e \in 0 .. M - 1 /\ n = e - H
    BY <1>3, <1>2
  <2>2. CutTo(H, n) = (e % M) - H
    BY <1>1, <2>1
  <2> HIDE DEF e
  <2>3. e % M = e
    <3> DEFINE q == 0
               z == M * q + e
    <3>1. q \in Int /\ z = e
      BY <1>2, <2>1
    <3> HIDE DEF q
    <3>2. z % M = e
      BY <1>2, <2>1, <3>1, DivMod
    <3> HIDE DEF z
    <3> QED
      BY <3>1, <3>2
  <2> QED
    BY <2>1, <2>2, <2>3
<1> QED
  BY <1>4, <1>5, <1>6 DEF M

LEMMA CutFacts ==
  ASSUME ArithFits, PowersOfTwo
  PROVE  /\ Arith!Half \in Nat \ {0} /\ 2 * Arith!Half = 2 ^ ArithBits
         /\ Arith!int = -Arith!Half .. Arith!Half - 1
         /\ \A n \in Int : /\ Arith!Cut(n) \in Arith!int
                           /\ \E k \in Int : Arith!Cut(n) = n + 2 * Arith!Half * k
         /\ \A n \in Int, k \in Int : Arith!Cut(n + 2 * Arith!Half * k) = Arith!Cut(n)
         /\ \A n \in Arith!int : Arith!Cut(n) = n
<1> DEFINE H == Arith!Half
<1>1. H \in Nat \ {0} /\ 2 * H = 2 ^ ArithBits
  <2>1. ArithBits - 1 \in Nat /\ (ArithBits - 1) + 1 = ArithBits
    BY DEF ArithFits
  <2> QED
    BY <2>1, PowersPositive DEF PowersOfTwo, Arith!Half
<1>2. Arith!int = -H .. H - 1
  BY DEF Arith!int
<1>3. \A n : Arith!Cut(n) = CutTo(H, n)
  BY DEF Arith!Cut, CutTo
<1> HIDE DEF H
<1>4. /\ \A n \in Int : CutTo(H, n) \in -H .. H - 1 /\ \E k \in Int : CutTo(H, n) = n + 2 * H * k
      /\ \A n \in Int, k \in Int : CutTo(H, n + 2 * H * k) = CutTo(H, n)
      /\ \A n \in -H .. H - 1 : CutTo(H, n) = n
  BY <1>1, CutToFacts
<1>5. /\ \A n \in Int : Arith!Cut(n) \in Arith!int /\ \E k \in Int : Arith!Cut(n) = n + 2 * H * k
      /\ \A n \in Int, k \in Int : Arith!Cut(n + 2 * H * k) = Arith!Cut(n)
      /\ \A n \in Arith!int : Arith!Cut(n) = n
  BY <1>2, <1>3, <1>4, Zenon
<1> QED
  BY <1>1, <1>2, <1>5, Zenon DEF H

(* The low bits may be cut off before an addition or after it.             *)
LEMMA CutSums ==
  ASSUME ArithFits, PowersOfTwo, NEW n \in Int, NEW m \in Int
  PROVE  /\ Arith!Cut(Arith!Cut(n) + Arith!Cut(m)) = Arith!Cut(n + m)
         /\ Arith!Cut(2 * Arith!Cut(n)) = Arith!Cut(2 * n)
<1> DEFINE M == 2 * Arith!Half
           C(v) == Arith!Cut(v)
<1>1. /\ M \in Nat
      /\ \A v \in Int : C(v) \in Int /\ \E k \in Int : C(v) = v + M * k
      /\ \A v \in Int, k \in Int : C(v + M * k) = C(v)
  <2>1. M \in Nat /\ \A v \in Int : Arith!Cut(v) \in Int
    <3>1. /\ Arith!Half \in Nat \ {0} /\ Arith!int = -Arith!Half .. Arith!Half - 1
          /\ \A v \in Int : Arith!Cut(v) \in Arith!int
      BY CutFacts, Zenon
    <3> QED
      BY <3>1
  <2>2. \A v \in Int : \E k \in Int : Arith!Cut(v) = v + 2 * Arith!Half * k
    BY CutFacts, Zenon
  <2>3. \A v \in Int, k \in Int : Arith!Cut(v + 2 * Arith!Half * k) = Arith!Cut(v)
    BY CutFacts, Zenon
  <2> QED
    BY <2>1, <2>2, <2>3, Zenon
<1> HIDE DEF M, C
<1>2. PICK k \in Int : C(n) = n + M * k
  BY <1>1
<1>3. PICK h \in Int : C(m) = m + M * h
  BY <1>1
<1>4. /\ M * (k + h) = M * k + M * h /\ M * (2 * k) = 2 * (M * k)
      /\ M * k \in Int /\ M * h \in Int
  BY <1>1
<1>5. C(n) + C(m) = (n + m) + M * (k + h) /\ 2 * C(n) = 2 * n + M * (2 * k)
  BY <1>2, <1>3, <1>4
<1>6. n + m \in Int /\ k + h \in Int /\ 2 * n \in Int /\ 2 * k \in Int
  OBVIOUS
<1>7. C(C(n) + C(m)) = C(n + m) /\ C(2 * C(n)) = C(2 * n)
  <2>1. C((n + m) + M * (k + h)) = C(n + m) /\ C(2 * n + M * (2 * k)) = C(2 * n)
    BY <1>1, <1>6, Zenon
  <2> QED
    BY <1>5, <2>1, Zenon
<1> QED
  BY <1>7 DEF C

(* One more bit of a number.                                               *)
LEMMA NextBit ==
  ASSUME NEW n \in Int, NEW p \in Nat \ {0}
  PROVE  /\ n \div (2 * p) = (n \div p) \div 2
         /\ n % (2 * p) = (n % p) + p * ((n \div p) % 2)
         /\ n \div p \in Int /\ n % p \in Int /\ (n \div p) % 2 \in {0, 1}
<1> DEFINE q == n \div p
           r == n % p
           s == q \div 2
           b == q % 2
<1>1. q \in Int /\ r \in 0 .. p - 1 /\ r = n - p * q
  BY DivMod
<1>2. s \in Int /\ b \in 0 .. 1 /\ b = q - 2 * s
  <2>1. 2 \in Nat \ {0}
    OBVIOUS
  <2> QED
    BY <1>1, <2>1, DivMod
<1> HIDE DEF q, r, s, b
<1>3. n = (2 * p) * s + (p * b + r)
  BY <1>1, <1>2
<1>4. p * b + r \in 0 .. 2 * p - 1 /\ 2 * p \in Nat \ {0}
  <2>1. CASE b = 0
    BY <1>1, <2>1
  <2>2. CASE b = 1
    BY <1>1, <2>2
  <2> QED
    BY <1>2, <2>1, <2>2
<1>5. n % (2 * p) = p * b + r /\ n \div (2 * p) = s
  <2> DEFINE e == p * b + r
             M == 2 * p
  <2>1. e \in 0 .. M - 1 /\ M \in Nat \ {0} /\ n = M * s + e
    BY <1>3, <1>4
  <2> HIDE DEF e, M
  <2>2. n % M = e /\ n \div M = s
    BY <1>2, <2>1, DivMod
  <2> QED
    BY <2>2 DEF e, M
<1>6. b \in {0, 1} /\ p * b + r = r + p * b /\ r \in Int
  BY <1>1, <1>2
<1> QED
  BY <1>1, <1>5, <1>6 DEF q, r, s, b

-----------------------------------------------------------------------------
(* Of a product: the rounds are those PartialProduct is about, and all are *)
(* behind when multiply returns.                                           *)
Multiplies ==
    args.call = "multiply" =>
      /\ pc \in {"multiply", "done"} /\ i \in 0 .. ArithBits
      /\ pc = "done" => i = ArithBits
      /\ result = Arith!Cut((args.x % 2 ^ i) * args.y)
      /\ arith_y = Arith!Cut(args.y * 2 ^ i) /\ arith_x = args.x \div 2 ^ i

(* Of a quotient: y2 is y times a power of two.  What has been subtracted  *)
(* so far is y for every unit of the result above 1, and the rest is above *)
(* 0; the rest is no more than twice y2, or there is nothing left to do.   *)
Scaled == \E e \in Nat : tmp = 2 ^ e /\ y2 = args.y * tmp

Divides ==
    args.call = "divide" =>
      /\ pc \in {"divide", "subtract", "done"} /\ arith_y = args.y
      /\ arith_x \in Int /\ result \in Nat \ {0}
      /\ args.x = arith_x + args.y * (result - 1)
      /\ result = 1 \/ arith_x > 0
      /\ pc = "divide" => Scaled /\ arith_x = args.x
      /\ pc = "subtract" => arith_x <= args.y \/ (Scaled /\ arith_x <= 2 * y2)
      /\ pc = "done" => arith_x <= args.y

ArithInv == args \in Args /\ Multiplies /\ Divides

LEMMA ArgsFit ==
  ASSUME ArithFits, PowersOfTwo, args \in Args
  PROVE  /\ args.call \in {"multiply", "divide"}
         /\ args.x \in Int /\ args.y \in Int /\ args.x \in Arith!int /\ args.y \in Arith!int
         /\ args.call = "divide" => args.y > 0 /\ 2 * args.x <= Arith!Half
<1>1. args.x \in Arith!int /\ args.y \in Arith!int
  BY DEF ArithFits
<1>2. Arith!int \subseteq Int
  BY CutFacts
<1> QED
  BY <1>1, <1>2 DEF ArithFits

LEMMA ArithStart ==
  ASSUME ArithFits, PowersOfTwo, Arith!Init
  PROVE  ArithInv
<1>1. /\ args \in Args /\ pc = args.call /\ arith_x = args.x /\ arith_y = args.y
      /\ i = 0 /\ y2 = args.y /\ tmp = 1
      /\ result = IF args.call = "multiply" THEN 0 ELSE 1
  BY DEF Arith!Init
<1>2. /\ args.x \in Int /\ args.y \in Int /\ args.y \in Arith!int
      /\ args.call \in {"multiply", "divide"}
  BY <1>1, ArgsFit
<1>3. Multiplies
  <2>1. 2 ^ i = 1
    BY <1>1 DEF PowersOfTwo
  <2>2. args.x % 1 = 0 /\ args.x \div 1 = args.x
    BY <1>2
  <2>3. (args.x % 1) * args.y = 0 /\ args.y * 1 = args.y
    BY <1>2, <2>2
  <2>4. 0 \in Arith!int
    <3>1. Arith!Half \in Nat \ {0} /\ Arith!int = -Arith!Half .. Arith!Half - 1
      BY CutFacts, Zenon
    <3> QED
      BY <3>1
  <2>5. Arith!Cut(0) = 0 /\ Arith!Cut(args.y) = args.y
    BY <1>2, <2>4, CutFacts
  <2>6. i \in 0 .. ArithBits
    BY <1>1 DEF ArithFits
  <2> QED
    BY <1>1, <2>1, <2>2, <2>3, <2>5, <2>6 DEF Multiplies
<1>4. Divides
  <2>1. args.y * (1 - 1) = 0 /\ args.y * 1 = args.y
    BY <1>2
  <2>2. 2 ^ 0 = 1 /\ 0 \in Nat
    BY DEF PowersOfTwo
  <2>3. Scaled
    BY <1>1, <2>1, <2>2 DEF Scaled
  <2> QED
    BY <1>1, <1>2, <2>1, <2>3 DEF Divides
<1> QED
  BY <1>1, <1>3, <1>4 DEF ArithInv

(* A round of multiply adds y to the result if the lowest bit of x is set. *)
LEMMA MultiplyStep ==
  ASSUME ArithFits, PowersOfTwo, ArithInv, Arith!multiply
  PROVE  ArithInv'
<1>1. /\ pc = "multiply" /\ args' = args /\ args \in Args /\ args.call = "multiply"
      /\ i \in 0 .. ArithBits
      /\ result = Arith!Cut((args.x % 2 ^ i) * args.y)
      /\ arith_y = Arith!Cut(args.y * 2 ^ i) /\ arith_x = args.x \div 2 ^ i
  <2>1. pc = "multiply" /\ args' = args /\ args \in Args
    BY DEF Arith!multiply, ArithInv
  <2>2. args.call = "multiply"
    BY <2>1, ArgsFit DEF ArithInv, Divides
  <2> QED
    BY <2>1, <2>2 DEF ArithInv, Multiplies
<1>2. args.x \in Int /\ args.y \in Int /\ i \in Nat /\ i + 1 \in Nat /\ ArithBits \in Nat
  BY <1>1, ArgsFit DEF ArithFits
<1>3. args'.call # "divide"
  BY <1>1
<1>4. CASE Arith!BitsLeft
  <2> DEFINE p == 2 ^ i
             low == args.x % p
             A == low * args.y
             B == args.y * p
  <2>1. /\ result' = IF arith_x % 2 = 1 THEN Arith!Cut(result + arith_y) ELSE result
        /\ arith_x' = arith_x \div 2 /\ arith_y' = Arith!Cut(2 * arith_y) /\ i' = i + 1
        /\ pc' = "multiply"
    BY <1>1, <1>4 DEF Arith!multiply, Arith!Shifted
  <2>2. i < ArithBits
    BY <1>4 DEF Arith!BitsLeft
  <2>3. p \in Nat \ {0} /\ 2 ^ i' = 2 * p
    BY <1>2, <2>1, PowersPositive DEF PowersOfTwo
  <2>4. /\ args.x \div (2 * p) = arith_x \div 2
        /\ args.x % (2 * p) = low + p * (arith_x % 2)
        /\ low \in Int /\ arith_x % 2 \in {0, 1}
    <3> HIDE DEF p
    <3> QED
      BY <1>1, <1>2, <2>3, NextBit DEF p
  <2> HIDE DEF p, low
  <2>5. A \in Int /\ B \in Int /\ 2 * B = args.y * (2 * p)
    BY <1>2, <2>3, <2>4
  <2>6. result = Arith!Cut(A) /\ arith_y = Arith!Cut(B)
    BY <1>1 DEF p, low
  <2> HIDE DEF B
  <2>7. arith_y' = Arith!Cut(args.y * (2 * p))
    BY <2>1, <2>5, <2>6, CutSums
  <2>8. result' = Arith!Cut((args.x % (2 * p)) * args.y)
    <3>1. CASE arith_x % 2 = 1
      <4>1. (args.x % (2 * p)) * args.y = A + B
        <5>1. args.x % (2 * p) = low + p
          BY <2>3, <2>4, <3>1
        <5>2. (low + p) * args.y = low * args.y + args.y * p
          BY <1>2, <2>3, <2>4
        <5> QED
          BY <5>1, <5>2 DEF B
      <4> HIDE DEF A
      <4> QED
        BY <2>1, <2>5, <2>6, <3>1, <4>1, CutSums
    <3>2. CASE arith_x % 2 = 0
      <4>1. args.x % (2 * p) = low
        BY <2>3, <2>4, <3>2
      <4> QED
        BY <2>1, <2>6, <3>2, <4>1
    <3> QED
      BY <2>4, <3>1, <3>2
  <2>9. Multiplies'
    <3>1. i' \in 0 .. ArithBits
      BY <1>2, <2>1, <2>2
    <3> QED
      BY <1>1, <2>1, <2>3, <2>4, <2>7, <2>8, <3>1 DEF Multiplies
  <2> QED
    BY <1>1, <1>3, <2>9 DEF ArithInv, Divides
<1>5. CASE ~Arith!BitsLeft
  <2>1. pc' = "done" /\ UNCHANGED <<arith_x, arith_y, i, result>>
    BY <1>5 DEF Arith!multiply
  <2>2. i = ArithBits
    BY <1>1, <1>2, <1>5 DEF Arith!BitsLeft
  <2>3. Multiplies'
    BY <1>1, <2>1, <2>2 DEF Multiplies
  <2> QED
    BY <1>1, <1>3, <2>3 DEF ArithInv, Divides
<1> QED
  BY <1>4, <1>5

(* The facts of Divides while the call is one of divide.                   *)
LEMMA Dividing ==
  ASSUME ArithFits, PowersOfTwo, ArithInv, pc \in {"divide", "subtract"}
  PROVE  /\ args \in Args /\ args.call = "divide" /\ args.call # "multiply" /\ arith_y = args.y
         /\ args.x \in Int /\ args.y \in Nat \ {0} /\ args.x < Arith!Half
         /\ arith_x \in Int /\ result \in Nat \ {0}
         /\ args.x = arith_x + args.y * (result - 1)
         /\ result = 1 \/ arith_x > 0
<1>1. args \in Args /\ args.call = "divide" /\ args.call # "multiply"
  <2>1. args \in Args /\ args.call \in {"multiply", "divide"}
    BY ArgsFit DEF ArithInv
  <2> QED
    BY <2>1 DEF ArithInv, Multiplies
<1>2. args.x \in Int /\ args.y \in Nat \ {0} /\ args.x < Arith!Half
  <2>1. Arith!Half \in Nat \ {0} /\ Arith!int = -Arith!Half .. Arith!Half - 1
    BY CutFacts, Zenon
  <2>2. args.x \in Arith!int /\ args.y \in Int /\ args.y > 0
    BY <1>1, ArgsFit
  <2> QED
    BY <2>1, <2>2
<1> QED
  BY <1>1, <1>2 DEF ArithInv, Divides

(* A scaled divisor below the dividend can be doubled: it stays an int.    *)
LEMMA ScaleStep ==
  ASSUME ArithFits, PowersOfTwo, ArithInv, Arith!divide_scale
  PROVE  ArithInv'
<1>1. /\ pc = "divide" /\ UNCHANGED <<args, arith_x, arith_y, result>>
  BY DEF Arith!divide_scale
<1>2. /\ args \in Args /\ args.call = "divide" /\ args.call # "multiply" /\ arith_y = args.y
      /\ args.x \in Int /\ args.y \in Nat \ {0} /\ args.x < Arith!Half
      /\ arith_x \in Int /\ result \in Nat \ {0}
      /\ args.x = arith_x + args.y * (result - 1)
      /\ result = 1 \/ arith_x > 0
  BY <1>1, Dividing
<1>3. Scaled /\ arith_x = args.x
  BY <1>1, <1>2 DEF ArithInv, Divides
<1>4. PICK e \in Nat : tmp = 2 ^ e /\ y2 = args.y * tmp
  BY <1>3 DEF Scaled
<1>5. tmp \in Nat \ {0}
  BY <1>4, PowersPositive
<1>6. y2 \in Nat /\ tmp <= y2
  <2>1. args.y - 1 \in Nat
    BY <1>2
  <2>2. (args.y - 1) * tmp \in Nat
    BY <1>5, <2>1
  <2>3. args.y * tmp = (args.y - 1) * tmp + tmp
    BY <1>2, <1>5
  <2> DEFINE c == (args.y - 1) * tmp
  <2>4. c \in Nat /\ y2 = c + tmp
    BY <1>4, <2>2, <2>3
  <2> HIDE DEF c
  <2> QED
    BY <1>5, <2>4
<1>7. CASE arith_x > y2
  <2>1. y2' = Arith!Cut(2 * y2) /\ tmp' = Arith!Cut(2 * tmp) /\ pc' = "divide"
    BY <1>1, <1>7 DEF Arith!divide_scale
  <2>2. 2 * y2 \in Arith!int /\ 2 * tmp \in Arith!int
    <3>1. Arith!Half \in Nat \ {0} /\ Arith!int = -Arith!Half .. Arith!Half - 1
      BY CutFacts, Zenon
    <3>2. 2 * args.x <= Arith!Half
      BY <1>2, ArgsFit
    <3> QED
      BY <1>2, <1>3, <1>5, <1>6, <1>7, <3>1, <3>2
  <2>3. y2' = 2 * y2 /\ tmp' = 2 * tmp
    BY <2>1, <2>2, CutFacts, Zenon
  <2>4. Scaled'
    <3>1. e + 1 \in Nat /\ 2 ^ (e + 1) = 2 * tmp
      BY <1>4 DEF PowersOfTwo
    <3>2. args.y * (2 * tmp) = 2 * (args.y * tmp)
      BY <1>2, <1>5
    <3> QED
      BY <1>1, <1>4, <2>3, <3>1, <3>2 DEF Scaled
  <2>5. Divides'
    BY <1>1, <1>2, <1>3, <2>1, <2>4 DEF Divides
  <2> QED
    BY <1>1, <1>2, <2>5 DEF ArithInv, Multiplies
<1>8. CASE ~(arith_x > y2)
  <2>1. pc' = "subtract" /\ UNCHANGED <<y2, tmp>>
    BY <1>8 DEF Arith!divide_scale
  <2>2. Scaled'
    BY <1>1, <1>3, <2>1 DEF Scaled
  <2>3. arith_x' <= 2 * y2'
    BY <1>1, <1>2, <1>6, <1>8, <2>1
  <2>4. Divides'
    BY <1>1, <1>2, <2>1, <2>2, <2>3 DEF Divides
  <2> QED
    BY <1>1, <1>2, <2>4 DEF ArithInv, Multiplies
<1> QED
  BY <1>7, <1>8

(* What is subtracted from x and added to the result, if the scaled        *)
(* divisor fits.                                                           *)
LEMMA SubtractStep ==
  ASSUME ArithFits, PowersOfTwo, ArithInv, Arith!divide_subtract
  PROVE  ArithInv'
<1>1. /\ pc = "subtract" /\ UNCHANGED <<args, arith_y>>
  BY DEF Arith!divide_subtract
<1>2. /\ args \in Args /\ args.call = "divide" /\ args.call # "multiply" /\ arith_y = args.y
      /\ args.x \in Int /\ args.y \in Nat \ {0} /\ args.x < Arith!Half
      /\ arith_x \in Int /\ result \in Nat \ {0}
      /\ args.x = arith_x + args.y * (result - 1)
      /\ result = 1 \/ arith_x > 0
  BY <1>1, Dividing
<1>3. CASE ~(arith_x > arith_y)
  <2>1. pc' = "done" /\ UNCHANGED <<arith_x, result>>
    BY <1>3 DEF Arith!divide_subtract
  <2>2. arith_x <= args.y
    BY <1>2, <1>3
  <2>3. Divides'
    BY <1>1, <1>2, <2>1, <2>2 DEF Divides
  <2> QED
    BY <1>1, <1>2, <2>3 DEF ArithInv, Multiplies
<1>4. CASE arith_x > arith_y
  <2>1. /\ arith_x' = IF arith_x > y2 THEN arith_x - y2 ELSE arith_x
        /\ result' = IF arith_x > y2 THEN Arith!Cut(result + tmp) ELSE result
        /\ tmp' = tmp \div 2 /\ y2' = y2 \div 2 /\ pc' = "subtract"
    BY <1>1, <1>4 DEF Arith!divide_subtract, Arith!Fits, Arith!Shifted, Arith!NextDivisor
  <2>2. Scaled /\ arith_x <= 2 * y2
    <3>1. ~(arith_x <= args.y)
      BY <1>2, <1>4
    <3> QED
      BY <1>1, <1>2, <3>1 DEF ArithInv, Divides
  <2>3. PICK e \in Nat : tmp = 2 ^ e /\ y2 = args.y * tmp
    BY <2>2 DEF Scaled
  <2>4. tmp \in Nat \ {0} /\ y2 \in Nat
    <3>1. tmp \in Nat \ {0}
      BY <2>3, PowersPositive
    <3> QED
      BY <1>2, <2>3, <3>1
  (* The rest is what has not been subtracted.                             *)
  <2>5. /\ arith_x' \in Int /\ result' \in Nat \ {0}
        /\ args.x = arith_x' + args.y * (result' - 1)
        /\ result' = 1 \/ arith_x' > 0
    <3>1. CASE arith_x > y2
      <4> DEFINE r == result + tmp
                 c == args.y * (result - 1)
                 d == args.y * (r - 1)
      <4>1. r \in Nat \ {0} /\ r - 1 \in Nat
        BY <1>2, <2>4
      <4>2. d = c + y2
        <5>1. r - 1 = (result - 1) + tmp /\ result - 1 \in Int
          BY <1>2, <2>4
        <5>2. args.y * ((result - 1) + tmp) = args.y * (result - 1) + args.y * tmp
          BY <1>2, <2>4, <5>1
        <5> QED
          BY <2>3, <5>1, <5>2
      <4>3. c \in Int /\ d \in Int /\ args.x = arith_x + c
        BY <1>2, <4>1
      <4>4. r - 1 <= d
        <5>1. (args.y - 1) * (r - 1) \in Nat
          <6>1. args.y - 1 \in Nat
            BY <1>2
          <6> HIDE DEF r
          <6> QED
            BY <4>1, <6>1
        <5> DEFINE f == r - 1
                   b == (args.y - 1) * f
        <5>2. f \in Nat /\ b \in Nat /\ d = args.y * f
          BY <4>1, <5>1
        <5> HIDE DEF f
        <5>3. d = b + f
          BY <1>2, <5>2
        <5> HIDE DEF b, d
        <5>4. f <= d
          BY <5>2, <5>3
        <5> QED
          BY <5>4 DEF f
      <4> HIDE DEF c, d, r
      <4>5. args.x = (arith_x - y2) + d /\ arith_x - y2 > 0 /\ arith_x - y2 \in Int
        BY <1>2, <2>4, <3>1, <4>2, <4>3
      <4>6. r \in Arith!int
        <5>1. Arith!Half \in Nat \ {0} /\ Arith!int = -Arith!Half .. Arith!Half - 1
          BY CutFacts, Zenon
        <5>2. r <= args.x
          BY <1>2, <4>1, <4>3, <4>4, <4>5
        <5> QED
          BY <1>2, <4>1, <5>1, <5>2
      <4>7. Arith!Cut(r) = r
        BY <4>6, CutFacts, Zenon
      <4>8. arith_x' = arith_x - y2 /\ result' = r
        BY <2>1, <3>1, <4>7 DEF r
      <4> QED
        BY <4>1, <4>5, <4>8 DEF d
    <3>2. CASE ~(arith_x > y2)
      BY <1>2, <2>1, <3>2
    <3> QED
      BY <3>1, <3>2
  <2>6. arith_x' <= y2
    BY <1>2, <2>1, <2>2, <2>4
  <2>7. arith_x' <= args.y \/ (Scaled' /\ arith_x' <= 2 * y2')
    <3>1. CASE e = 0
      <4>1. tmp = 1
        BY <2>3, <3>1 DEF PowersOfTwo
      <4>2. y2 = args.y
        BY <1>2, <2>3, <4>1
      <4> QED
        BY <2>6, <4>2
    <3>2. CASE e # 0
      <4> DEFINE t == 2 ^ (e - 1)
      <4>1. e - 1 \in Nat /\ (e - 1) + 1 = e
        BY <3>2
      <4>2. t \in Nat /\ tmp = 2 * t
        BY <2>3, <4>1 DEF PowersOfTwo
      <4> HIDE DEF t
      <4> DEFINE c == args.y * t
      <4>3. c \in Nat /\ y2 = 2 * c
        BY <1>2, <2>3, <4>2
      <4> HIDE DEF c
      <4>4. tmp' = t /\ y2' = c
        BY <2>1, <4>2, <4>3
      <4>5. Scaled'
        <5>1. y2' = args'.y * tmp'
          BY <1>1, <4>4 DEF c
        <5>2. tmp' = 2 ^ (e - 1)
          BY <4>4 DEF t
        <5> QED
          BY <4>1, <5>1, <5>2 DEF Scaled
      <4> QED
        BY <2>6, <4>3, <4>4, <4>5
    <3> QED
      BY <3>1, <3>2
  <2>8. Divides'
    BY <1>1, <1>2, <2>1, <2>5, <2>7 DEF Divides
  <2> QED
    BY <1>1, <1>2, <2>8 DEF ArithInv, Multiplies
<1> QED
  BY <1>3, <1>4

LEMMA ArithStep ==
  ASSUME ArithFits, PowersOfTwo, ArithInv, [Arith!Next]_(Arith!vars)
  PROVE  ArithInv'
<1>1. CASE UNCHANGED Arith!vars
  <2>1. UNCHANGED <<pc, args, arith_x, arith_y, i, y2, tmp, result>>
    BY <1>1 DEF Arith!vars
  <2> QED
    BY <2>1 DEF ArithInv, Multiplies, Divides, Scaled
<1> QED
  BY <1>1, MultiplyStep, ScaleStep, SubtractStep DEF Arith!Next

LEMMA ArithInvariant ==
  ASSUME ArithFits, PowersOfTwo
  PROVE  Arith!Spec => []ArithInv
<1>1. Arith!Init => ArithInv
  BY ArithStart
<1>2. ArithInv /\ [Arith!Next]_(Arith!vars) => ArithInv'
  BY ArithStep
<1> QED
  BY <1>1, <1>2, PTL DEF Arith!Spec

(* After every round of multiply, for operands of any sign and any width,  *)
(* the result is the product of the bits of x that have been shifted out,  *)
(* cut to that width, and y has been shifted as far.                       *)
THEOREM MultiplyKeepsProduct ==
  ASSUME ArithFits, PowersOfTwo
  PROVE  Arith!Spec => []PartialProduct
<1>1. ArithInv => PartialProduct
  BY DEF ArithInv, Multiplies, PartialProduct, Arith!PartialProduct
<1>2. Arith!Spec => []ArithInv
  BY ArithInvariant
<1> QED
  BY <1>1, <1>2, PTL

(* When a call returns its result is the one of ResultRight.               *)
LEMMA ArithDone ==
  ASSUME ArithFits, PowersOfTwo, ArithInv
  PROVE  Arith!ResultRight
<1> SUFFICES ASSUME pc = "done"
             PROVE  result = IF args.call = "multiply" THEN Arith!Cut(args.x * args.y)
                             ELSE IF args.x <= args.y THEN 1
                             ELSE (args.x + args.y - 1) \div args.y
  BY DEF Arith!ResultRight
<1>1. /\ args \in Args /\ args.call \in {"multiply", "divide"}
      /\ args.x \in Int /\ args.y \in Int
  BY ArgsFit DEF ArithInv
<1>2. CASE args.call = "multiply"
  <2> DEFINE M == 2 * Arith!Half
             q == args.x \div M
             r == args.x % M
  <2>1. M \in Nat \ {0} /\ M = 2 ^ ArithBits
    <3>1. Arith!Half \in Nat \ {0} /\ M = 2 ^ ArithBits
      BY CutFacts, Zenon
    <3> QED
      BY <3>1
  <2>2. result = Arith!Cut((args.x % 2 ^ i) * args.y) /\ i = ArithBits
    BY <1>2 DEF ArithInv, Multiplies
  <2>3. result = Arith!Cut(r * args.y)
    BY <2>1, <2>2
  <2>4. \A v \in Int, k \in Int : Arith!Cut(v + M * k) = Arith!Cut(v)
    BY CutFacts, Zenon
  <2> HIDE DEF M
  <2>5. r \in Int /\ q \in Int /\ r = args.x - M * q
    <3>1. r \in 0 .. M - 1 /\ q \in Int /\ r = args.x - M * q
      BY <1>1, <2>1, DivMod, Zenon
    <3> HIDE DEF q, r
    <3> QED
      BY <2>1, <3>1
  <2> HIDE DEF q, r
  <2> DEFINE A == r * args.y
             k == q * args.y
             e == M * k
  <2>6. A \in Int /\ k \in Int /\ e \in Int
    BY <1>1, <2>1, <2>5
  <2>7. args.x * args.y = A + e
    <3>1. args.x = r + M * q
      <4> DEFINE d == M * q
      <4>1. d \in Int /\ r = args.x - d
        BY <2>1, <2>5
      <4> HIDE DEF d
      <4>2. args.x = r + d
        BY <1>1, <2>5, <4>1
      <4> QED
        BY <4>2 DEF d
    <3>2. (r + M * q) * args.y = r * args.y + M * (q * args.y)
      BY <1>1, <2>1, <2>5
    <3> QED
      BY <3>1, <3>2, Zenon
  <2> HIDE DEF A, k
  <2>8. Arith!Cut(A + e) = Arith!Cut(A)
    BY <2>4, <2>6, Zenon
  <2> QED
    BY <1>2, <2>3, <2>7, <2>8 DEF A
<1>3. CASE args.call # "multiply"
  <2>1. /\ args.call = "divide" /\ arith_x \in Int /\ result \in Nat \ {0}
        /\ args.x = arith_x + args.y * (result - 1)
        /\ result = 1 \/ arith_x > 0
        /\ arith_x <= args.y
    BY <1>1, <1>3 DEF ArithInv, Divides
  <2>2. args.y \in Nat \ {0}
    BY <1>1, <2>1, ArgsFit
  <2> DEFINE c == args.y * (result - 1)
  <2>3. CASE result = 1
    <3>1. c = 0
      BY <2>2, <2>3
    <3>2. args.x = arith_x
      BY <2>1, <3>1
    <3> QED
      BY <1>3, <2>1, <2>3, <3>2
  <2>4. CASE result # 1
    <3> DEFINE e == args.y * (result - 2)
               f == args.y * result
    <3>1. result - 2 \in Nat
      BY <2>1, <2>4
    <3>2. e \in Nat
      <4> DEFINE h == result - 2
      <4>1. h \in Nat
        BY <3>1
      <4> HIDE DEF h
      <4>2. args.y * h \in Nat
        BY <2>2, <4>1
      <4> QED
        BY <4>2 DEF h
    <3>3. c = e + args.y /\ f = c + args.y /\ c \in Int
      BY <2>1, <2>2
    <3>4. args.x = arith_x + c /\ arith_x > 0
      BY <2>1, <2>4
    <3> HIDE DEF c, e
    <3>5. ~(args.x <= args.y)
      BY <1>1, <2>1, <2>2, <3>2, <3>3, <3>4
    <3>6. arith_x - 1 \in 0 .. args.y - 1
      BY <2>1, <2>2, <3>4
    <3>7. (f + (arith_x - 1)) \div args.y = result
      <4> DEFINE h == arith_x - 1
      <4>1. h \in 0 .. args.y - 1 /\ result \in Int
        BY <2>1, <3>6
      <4> HIDE DEF h
      <4>2. (args.y * result + h) \div args.y = result
        BY <2>2, <4>1, DivMod, Zenon
      <4> QED
        BY <4>2 DEF h
    <3> HIDE DEF f
    <3>8. f \in Int /\ args.x + args.y - 1 = f + (arith_x - 1)
      BY <1>1, <2>1, <2>2, <3>3, <3>4
    <3> QED
      BY <1>3, <3>5, <3>7, <3>8
  <2> QED
    BY <2>3, <2>4
<1> QED
  BY <1>2, <1>3

(* multiply returns the low bits of the product, whatever the signs, and   *)
(* divide the quotient rounded up, never less than 1.                      *)
THEOREM ArithRight ==
  ASSUME ArithFits, PowersOfTwo
  PROVE  Arith!Spec => []Arith!ResultRight
<1>1. Arith!Spec => []ArithInv
  BY ArithInvariant
<1>2. ArithInv => Arith!ResultRight
  BY ArithDone
<1> QED
  BY <1>1, <1>2, PTL

-----------------------------------------------------------------------------
(* The benchmarks that fill an array.  Their data are arrays of DATA_SIZE  *)
(* ints, or images of that many rows and columns, of bytes; an int holds   *)
(* five times a byte.                                                      *)
Elements(t) == IF t.program = "sharpen" THEN (0 .. t.n - 1) \X (0 .. t.n - 1) ELSE 0 .. t.n - 1

IsTest(t) ==
    /\ t.program \in {"vvadd", "multiply", "median", "sharpen"} /\ t.n \in Nat \ {0}
    /\ t.verify_data \in [Elements(t) -> Int]
    /\ t.program # "sharpen" => t.input1 \in [Elements(t) -> Int]
    /\ t.program \in {"vvadd", "multiply"} => t.input2 \in [Elements(t) -> Int]
    /\ t.program = "sharpen" => t.input1 \in [Elements(t) -> 0 .. 255] /\ 5 * 255 < Kernel!Half

KernelsFit == KernelBits \in Nat \ {0} /\ \A t \in Tests : IsTest(t)

LEMMA KernelCut ==
  ASSUME KernelsFit, PowersOfTwo
  PROVE  /\ Kernel!Half \in Nat \ {0}
         /\ \A v \in Int : Kernel!Cut(v) \in Int /\ \E q \in Int : Kernel!Cut(v) = v + 2 * Kernel!Half * q
         /\ \A v \in -Kernel!Half .. Kernel!Half - 1 : Kernel!Cut(v) = v
<1> DEFINE H == Kernel!Half
<1>1. H \in Nat \ {0}
  <2>1. KernelBits - 1 \in Nat
    BY DEF KernelsFit
  <2> QED
    BY <2>1, PowersPositive DEF Kernel!Half
<1>2. \A v : Kernel!Cut(v) = CutTo(H, v)
  BY DEF Kernel!Cut, CutTo
<1> HIDE DEF H
<1>3. /\ \A v \in Int : CutTo(H, v) \in -H .. H - 1 /\ \E q \in Int : CutTo(H, v) = v + 2 * H * q
      /\ \A v \in -H .. H - 1 : CutTo(H, v) = v
  BY <1>1, CutToFacts
<1>4. -H .. H - 1 \subseteq Int
  BY <1>1
<1>5. /\ \A v \in Int : Kernel!Cut(v) \in Int /\ \E q \in Int : Kernel!Cut(v) = v + 2 * H * q
      /\ \A v \in -H .. H - 1 : Kernel!Cut(v) = v
  BY <1>2, <1>3, <1>4, Zenon
<1> QED
  BY <1>1, <1>5, Zenon DEF H

(* Only multiples of 2 * Half are cut off.                                 *)
LEMMA KernelCongruent ==
  ASSUME KernelsFit, PowersOfTwo, NEW v \in Int
  PROVE  Kernel!Cut(v) \in Int /\ (Kernel!Cut(v) - v) % (2 * Kernel!Half) = 0
<1> DEFINE M == 2 * Kernel!Half
           c == Kernel!Cut(v)
<1>1. M \in Nat \ {0}
  <2>1. Kernel!Half \in Nat \ {0}
    BY KernelCut, Zenon
  <2> QED
    BY <2>1
<1>2. c \in Int /\ \E q \in Int : c = v + M * q
  BY KernelCut, Zenon
<1> HIDE DEF M, c
<1>3. PICK q \in Int : c = v + M * q
  BY <1>2
<1> DEFINE z == 0
           d == M * q + z
<1>4. z \in 0 .. M - 1 /\ d = c - v
  <2> DEFINE e == M * q
  <2>1. e \in Int /\ c = v + e
    BY <1>1, <1>3
  <2> HIDE DEF e
  <2>2. e + 0 = c - v
    BY <2>1
  <2> QED
    BY <1>1, <2>2 DEF e
<1> HIDE DEF z
<1>5. d % M = z
  BY <1>1, <1>4, DivMod
<1> HIDE DEF d
<1>6. (c - v) % M = 0
  BY <1>4, <1>5 DEF z
<1> QED
  BY <1>2, <1>6 DEF M, c

-----------------------------------------------------------------------------
(* An element that stays is as right as it was.                            *)
LEMMA RightKept ==
  ASSUME NEW k, test' = test, results'[k] = results[k], Kernel!Right(k)
  PROVE  Kernel!Right(k)'
BY DEF Kernel!Right, Kernel!n, Kernel!input1, Kernel!input2

RightOn(S) == \A k \in S : Kernel!Right(k)

Seen(m) == \A h \in 0 .. m - 1 : results[Kernel!Place(h)] = test.verify_data[Kernel!Place(h)]

AtBorder(k) == \E z \in {0, test.n - 1} : z \in {k[1], k[2]}

(* Of an image, what is right: of the border, the first columns and rows;  *)
(* of the inside, the rows before the current one and its first columns.   *)
BorderSet(m) == {k \in Elements(test) : \E h \in 0 .. m - 1 : k \in Kernel!Border(h)}
InsideSet == {k \in Elements(test) : AtBorder(k) \/ k[1] < i \/ (k[1] = i /\ k[2] < j)}

KernelInv ==
    /\ test \in Tests
    /\ results \in [Elements(test) -> Int]
    /\ i \in Nat
    /\ pc \in {"vvadd", "multiply", "median", "sharpen"} => pc = test.program
    /\ pc \in {"vvadd", "multiply", "median", "median_inside", "sharpen", "sharpen_inside", "verify", "done"}
    /\ pc \in {"vvadd", "multiply"} => RightOn({k \in Elements(test) : k < i})
    /\ pc = "median_inside" =>
         test.program = "median" /\ i >= 1 /\ RightOn({k \in Elements(test) : k < i \/ k = test.n - 1})
    /\ pc = "sharpen" => i <= test.n /\ RightOn(BorderSet(i))
    /\ pc = "sharpen_inside" =>
         /\ test.program = "sharpen" /\ i >= 1 /\ j \in Nat /\ j >= 1 /\ RightOn(InsideSet)
         /\ i < test.n - 1 => j < test.n - 1
    /\ pc = "verify" => RightOn(Elements(test)) /\ Seen(i)
    /\ Kernel!VerdictRight

LEMMA DataOf ==
  ASSUME KernelsFit, test \in Tests
  PROVE  /\ IsTest(test) /\ Kernel!n = test.n /\ Kernel!n \in Nat \ {0}
         /\ Kernel!input1 = test.input1 /\ Kernel!input2 = test.input2
BY DEF KernelsFit, IsTest, Kernel!n, Kernel!input1, Kernel!input2

LEMMA KernelStart ==
  ASSUME KernelsFit, PowersOfTwo, Kernel!Init
  PROVE  KernelInv
<1>1. /\ test \in Tests /\ results = [k \in DOMAIN test.verify_data |-> Kernel!Garbage]
      /\ pc = test.program /\ i = 0 /\ j = 0
  BY DEF Kernel!Init
<1>2. IsTest(test)
  BY <1>1, DataOf
<1>3. Kernel!Garbage \in Int
  <2>1. Kernel!Half \in Nat \ {0}
    BY KernelCut, Zenon
  <2> QED
    BY <2>1 DEF Kernel!Garbage
<1>4. results \in [Elements(test) -> Int]
  BY <1>1, <1>2, <1>3 DEF IsTest
<1>5. pc \in {"vvadd", "multiply", "median", "sharpen"}
  BY <1>1, <1>2 DEF IsTest
<1>6. pc \in {"vvadd", "multiply"} => RightOn({k \in Elements(test) : k < i})
  <2> SUFFICES ASSUME pc \in {"vvadd", "multiply"}, NEW k \in Elements(test), k < i
               PROVE  FALSE
    BY DEF RightOn
  <2>1. k \in 0 .. test.n - 1 /\ test.n \in Nat
    BY <1>1, <1>2 DEF Elements, IsTest
  <2> QED
    BY <1>1, <2>1
<1>7. RightOn(BorderSet(i))
  BY <1>1 DEF RightOn, BorderSet
<1>8. pc # "median_inside" /\ pc # "sharpen_inside" /\ pc # "verify" /\ pc # "done"
  BY <1>5
<1>9. i \in Nat /\ i <= test.n
  BY <1>1, <1>2 DEF IsTest
<1> QED
  BY <1>1, <1>4, <1>5, <1>6, <1>7, <1>8, <1>9 DEF KernelInv, Kernel!VerdictRight

(* Nothing of the results changes, and what is right is all that was.      *)
LEMMA SameResults ==
  ASSUME NEW S, UNCHANGED <<test, results>>, RightOn(S)
  PROVE  \A h \in S : Kernel!Right(h)'
BY RightKept DEF RightOn

(* Right, with the test and the element as parameters.                     *)
RightOf(t, k, r) ==
    CASE t.program = "vvadd"    -> (r - t.input1[k] - t.input2[k]) % (2 * Kernel!Half) = 0
      [] t.program = "multiply" -> (r - t.input1[k] * t.input2[k]) % (2 * Kernel!Half) = 0
      [] t.program = "median"   ->
           IF k \in {0, t.n - 1} THEN r = 0
           ELSE Kernel!IsMedian(r, t.input1[k - 1], t.input1[k], t.input1[k + 1])
      [] t.program = "sharpen"  ->
           r = IF \E z \in {0, t.n - 1} : z \in {k[1], k[2]} THEN t.input1[k]
               ELSE Kernel!Sharpened(t.input1, k[1], k[2])

LEMMA RightIs ==
  ASSUME NEW k
  PROVE  /\ Kernel!Right(k) = RightOf(test, k, results[k])
         /\ Kernel!Right(k)' = RightOf(test', k, results'[k])
<1>1. Kernel!Right(k) = RightOf(test, k, results[k])
  BY Zenon DEF Kernel!Right, RightOf, Kernel!n, Kernel!input1, Kernel!input2
<1>2. Kernel!Right(k)' = RightOf(test', k, results'[k])
  BY Zenon DEF Kernel!Right, RightOf, Kernel!n, Kernel!input1, Kernel!input2, Kernel!IsMedian,
               Kernel!Sharpened, Kernel!Half
<1> QED
  BY <1>1, <1>2

LEMMA RightCases ==
  ASSUME NEW t, NEW k, NEW r
  PROVE  /\ t.program = "vvadd" =>
              ((r - t.input1[k] - t.input2[k]) % (2 * Kernel!Half) = 0 => RightOf(t, k, r))
         /\ t.program = "multiply" =>
              ((r - t.input1[k] * t.input2[k]) % (2 * Kernel!Half) = 0 => RightOf(t, k, r))
         /\ t.program = "median" =>
              ((IF k \in {0, t.n - 1} THEN r = 0
                ELSE Kernel!IsMedian(r, t.input1[k - 1], t.input1[k], t.input1[k + 1])) => RightOf(t, k, r))
         /\ t.program = "sharpen" =>
              (r = (IF \E z \in {0, t.n - 1} : z \in {k[1], k[2]} THEN t.input1[k]
                    ELSE Kernel!Sharpened(t.input1, k[1], k[2])) => RightOf(t, k, r))
<1>1. CASE t.program = "vvadd"
  BY <1>1 DEF RightOf
<1>2. CASE t.program = "multiply"
  BY <1>2 DEF RightOf
<1>3. CASE t.program = "median"
  BY <1>3 DEF RightOf
<1>4. CASE t.program = "sharpen"
  BY <1>4 DEF RightOf
<1> QED
  BY <1>1, <1>2, <1>3, <1>4, Zenon

(* The element a round sets is right, and the others stay.                 *)
LEMMA SetElement ==
  ASSUME NEW S, NEW k, NEW v, test' = test, results \in [Elements(test) -> Int],
         S \subseteq Elements(test), RightOn(S \ {k}),
         results' = [results EXCEPT ![k] = v], k \in Elements(test), v \in Int,
         RightOf(test, k, v)
  PROVE  (\A h \in S : Kernel!Right(h)') /\ results' \in [Elements(test) -> Int]
<1>1. results'[k] = v /\ \A h \in Elements(test) : h # k => results'[h] = results[h]
  OBVIOUS
<1>2. results' \in [Elements(test) -> Int]
  OBVIOUS
<1>3. ASSUME NEW h \in S
      PROVE  Kernel!Right(h)'
  <2>1. CASE h = k
    BY <1>1, <2>1, RightIs
  <2>2. CASE h # k
    BY <1>1, <2>2, RightKept DEF RightOn
  <2> QED
    BY <2>1, <2>2
<1> QED
  BY <1>2, <1>3

LEMMA VectorStep ==
  ASSUME KernelsFit, PowersOfTwo, KernelInv, Kernel!vvadd \/ Kernel!multiply_main
  PROVE  KernelInv'
<1> DEFINE element == IF pc = "vvadd" THEN Kernel!Cut(Kernel!input1[i] + Kernel!input2[i])
                      ELSE Kernel!Cut(Kernel!input1[i] * Kernel!input2[i])
           S == {k \in Elements(test) : k < i}
           S2 == {k \in Elements(test) : k < i + 1}
<1>1. /\ pc \in {"vvadd", "multiply"} /\ UNCHANGED <<test, j, pass, verdict>>
      /\ IF i < test.n
         THEN results' = [results EXCEPT ![i] = element] /\ i' = i + 1 /\ UNCHANGED pc
         ELSE pc' = "verify" /\ i' = 0 /\ UNCHANGED results
  BY DEF Kernel!vvadd, Kernel!multiply_main, Kernel!Loop, Kernel!n
<1>2. /\ test \in Tests /\ results \in [Elements(test) -> Int] /\ i \in Nat /\ pc = test.program
      /\ RightOn(S)
  BY <1>1 DEF KernelInv
<1>3. /\ IsTest(test) /\ Kernel!n = test.n /\ test.n \in Nat \ {0}
      /\ Kernel!input1 = test.input1 /\ Kernel!input2 = test.input2
  BY <1>2, DataOf
<1>4. /\ Elements(test) = 0 .. test.n - 1
      /\ test.input1 \in [Elements(test) -> Int] /\ test.input2 \in [Elements(test) -> Int]
  BY <1>1, <1>2, <1>3 DEF Elements, IsTest
<1>5. CASE i < test.n
  <2>1. i \in Elements(test) /\ Kernel!input1[i] \in Int /\ Kernel!input2[i] \in Int
    BY <1>2, <1>3, <1>4, <1>5
  <2>2. results' = [results EXCEPT ![i] = element] /\ i' = i + 1 /\ pc' = pc
    BY <1>1, <1>5
  <2>3. element \in Int /\ RightOf(test, i, element)
    <3> DEFINE a1 == Kernel!input1[i]
               b1 == Kernel!input2[i]
               M == 2 * Kernel!Half
    <3>1. a1 = test.input1[i] /\ b1 = test.input2[i]
      BY DEF Kernel!input1, Kernel!input2
    <3>2. CASE pc = "vvadd"
      <4>1. a1 + b1 \in Int
        BY <2>1
      <4>2. Kernel!Cut(a1 + b1) \in Int /\ (Kernel!Cut(a1 + b1) - (a1 + b1)) % M = 0
        BY <4>1, KernelCongruent
      <4>3. element = Kernel!Cut(a1 + b1)
        BY <3>2
      <4> HIDE DEF element, M
      <4>4. element - (a1 + b1) = element - a1 - b1
        BY <2>1, <4>2, <4>3
      <4>5. (element - a1 - b1) % M = 0
        BY <4>2, <4>3, <4>4
      <4>6. RightOf(test, i, element)
        <5> DEFINE V == (element - test.input1[i] - test.input2[i]) % (2 * Kernel!Half) = 0
        <5>1. test.program = "vvadd"
          BY <1>2, <3>2
        <5>2. V
          BY <3>1, <4>5 DEF M
        <5> QED
          BY <5>1, <5>2, RightCases, Zenon
      <4> QED
        BY <4>2, <4>3, <4>6, Zenon
    <3>3. CASE pc = "multiply"
      <4>1. a1 * b1 \in Int
        BY <2>1
      <4>2. Kernel!Cut(a1 * b1) \in Int /\ (Kernel!Cut(a1 * b1) - a1 * b1) % M = 0
        BY <4>1, KernelCongruent
      <4>3. element = Kernel!Cut(a1 * b1)
        BY <3>3
      <4> HIDE DEF element, M
      <4>4. RightOf(test, i, element)
        <5> DEFINE V == (element - test.input1[i] * test.input2[i]) % (2 * Kernel!Half) = 0
        <5>1. test.program = "multiply"
          BY <1>2, <3>3
        <5>2. V
          BY <3>1, <4>2, <4>3 DEF M
        <5> QED
          BY <5>1, <5>2, RightCases, Zenon
      <4> QED
        BY <4>2, <4>3, <4>4, Zenon
    <3> QED
      BY <1>1, <3>2, <3>3
  <2>4. RightOn(S2 \ {i})
    <3>1. \A k \in S2 \ {i} : k \in S
      BY <1>2, <1>3, <1>4
    <3> QED
      BY <1>2, <3>1 DEF RightOn
  <2> HIDE DEF element
  <2>5. (\A h \in S2 : Kernel!Right(h)') /\ results' \in [Elements(test) -> Int]
    <3>1. S2 \subseteq Elements(test)
      OBVIOUS
    <3>2. test' = test
      BY <1>1
    <3> HIDE DEF S2
    <3> QED
      BY <1>2, <2>1, <2>2, <2>3, <2>4, <3>1, <3>2, SetElement, Zenon
  <2>6. {k \in Elements(test)' : k < i'} = S2
    BY <1>1, <2>2 DEF Elements
  <2>7. RightOn({k \in Elements(test) : k < i})'
    BY <2>5, <2>6 DEF RightOn
  <2>8. results' \in [Elements(test)' -> Int] /\ i' \in Nat /\ test' \in Tests /\ pc' = test'.program
    BY <1>1, <1>2, <2>2, <2>5 DEF Elements
  <2> QED
    BY <1>1, <2>2, <2>7, <2>8 DEF KernelInv, Kernel!VerdictRight
<1>6. CASE ~(i < test.n)
  <2>1. pc' = "verify" /\ i' = 0 /\ UNCHANGED <<test, results>>
    BY <1>1, <1>6
  <2>2. Elements(test) \subseteq S
    BY <1>2, <1>3, <1>4, <1>6
  <2>3. RightOn(Elements(test))
    BY <1>2, <2>2 DEF RightOn
  <2>4. RightOn(Elements(test))'
    <3>1. \A h \in Elements(test) : Kernel!Right(h)'
      BY <2>1, <2>3, SameResults
    <3>2. Elements(test)' = Elements(test)
      BY <2>1 DEF Elements
    <3> QED
      BY <3>1, <3>2 DEF RightOn
  <2>5. Seen(i)'
    BY <2>1 DEF Seen
  <2>6. results' \in [Elements(test)' -> Int] /\ i' \in Nat /\ test' \in Tests
    BY <1>2, <2>1 DEF Elements
  <2> QED
    BY <2>1, <2>4, <2>5, <2>6 DEF KernelInv, Kernel!VerdictRight
<1> QED
  BY <1>5, <1>6

LEMMA MedianRight ==
  ASSUME NEW A \in Int, NEW B \in Int, NEW C \in Int
  PROVE  Kernel!Median3(A, B, C) \in Int /\ Kernel!IsMedian(Kernel!Median3(A, B, C), A, B, C)
BY DEF Kernel!Median3, Kernel!IsMedian

(* The two ends of the median are 0.                                       *)
LEMMA MedianEndsStep ==
  ASSUME KernelsFit, PowersOfTwo, KernelInv, Kernel!median_ends
  PROVE  KernelInv'
<1>1. /\ pc = "median" /\ UNCHANGED <<test, j, pass, verdict>>
      /\ results' = [results EXCEPT ![0] = 0, ![test.n - 1] = 0]
      /\ i' = 1 /\ pc' = "median_inside"
  BY DEF Kernel!median_ends, Kernel!n
<1>2. /\ test \in Tests /\ results \in [Elements(test) -> Int] /\ test.program = "median"
  BY <1>1 DEF KernelInv
<1>3. IsTest(test) /\ test.n \in Nat \ {0}
  BY <1>2, DataOf
<1>4. Elements(test) = 0 .. test.n - 1
  BY <1>2 DEF Elements
<1>5. /\ results' \in [Elements(test)' -> Int] /\ Elements(test)' = Elements(test)
      /\ results'[0] = 0 /\ results'[test.n - 1] = 0
  BY <1>1, <1>2, <1>3, <1>4 DEF Elements
<1>6. ASSUME NEW k \in Elements(test), k < 1 \/ k = test.n - 1
      PROVE  Kernel!Right(k)'
  <2>1. k \in {0, test.n - 1} /\ results'[k] = 0
    BY <1>3, <1>4, <1>5, <1>6
  <2>2. k \in {0, test'.n - 1} /\ test'.program = "median"
    BY <1>1, <1>2, <2>1
  <2> QED
    BY <2>1, <2>2 DEF Kernel!Right, Kernel!n
<1>7. RightOn({k \in Elements(test) : k < i \/ k = test.n - 1})'
  BY <1>1, <1>5, <1>6 DEF RightOn
<1> QED
  BY <1>1, <1>2, <1>5, <1>7 DEF KernelInv, Kernel!VerdictRight

LEMMA MedianStep ==
  ASSUME KernelsFit, PowersOfTwo, KernelInv, Kernel!median
  PROVE  KernelInv'
<1> DEFINE element == Kernel!Median3(test.input1[i - 1], test.input1[i], test.input1[i + 1])
           S == {k \in Elements(test) : k < i \/ k = test.n - 1}
           S2 == {k \in Elements(test) : k < i + 1 \/ k = test.n - 1}
<1>1. /\ pc = "median_inside" /\ UNCHANGED <<test, j, pass, verdict>>
      /\ IF i < test.n - 1
         THEN results' = [results EXCEPT ![i] = element] /\ i' = i + 1 /\ UNCHANGED pc
         ELSE pc' = "verify" /\ i' = 0 /\ UNCHANGED results
  BY DEF Kernel!median, Kernel!Loop, Kernel!n, Kernel!input1
<1>2. /\ test \in Tests /\ results \in [Elements(test) -> Int] /\ i \in Nat /\ i >= 1
      /\ test.program = "median" /\ RightOn(S)
  BY <1>1 DEF KernelInv
<1>3. IsTest(test) /\ test.n \in Nat \ {0}
  BY <1>2, DataOf
<1>4. Elements(test) = 0 .. test.n - 1 /\ test.input1 \in [Elements(test) -> Int]
  BY <1>2, <1>3 DEF Elements, IsTest
<1>5. CASE i < test.n - 1
  <2>1. /\ i \in Elements(test) /\ i \notin {0, test.n - 1} /\ test.input1[i - 1] \in Int
        /\ test.input1[i] \in Int /\ test.input1[i + 1] \in Int
    <3>1. /\ i \in 0 .. test.n - 1 /\ i \notin {0, test.n - 1}
          /\ i - 1 \in 0 .. test.n - 1 /\ i + 1 \in 0 .. test.n - 1
      BY <1>2, <1>3, <1>5
    <3> QED
      BY <1>4, <3>1
  <2>2. results' = [results EXCEPT ![i] = element] /\ i' = i + 1 /\ pc' = pc
    BY <1>1, <1>5
  <2>3. element \in Int /\ RightOf(test, i, element)
    <3>1. element \in Int /\ Kernel!IsMedian(element, test.input1[i - 1], test.input1[i], test.input1[i + 1])
      BY <2>1, MedianRight
    <3> HIDE DEF element
    <3> QED
      BY <1>2, <2>1, <3>1, RightCases
  <2>4. RightOn(S2 \ {i})
    <3>1. \A k \in S2 \ {i} : k \in S
      BY <1>2, <1>3, <1>4
    <3> QED
      BY <1>2, <3>1 DEF RightOn
  <2> HIDE DEF element
  <2>5. (\A h \in S2 : Kernel!Right(h)') /\ results' \in [Elements(test) -> Int]
    <3>1. S2 \subseteq Elements(test)
      OBVIOUS
    <3>2. test' = test
      BY <1>1
    <3> HIDE DEF S2
    <3> QED
      BY <1>2, <2>1, <2>2, <2>3, <2>4, <3>1, <3>2, SetElement, Zenon
  <2>6. {k \in Elements(test)' : k < i' \/ k = test'.n - 1} = S2
    BY <1>1, <2>2 DEF Elements
  <2>7. RightOn({k \in Elements(test) : k < i \/ k = test.n - 1})'
    BY <2>5, <2>6 DEF RightOn
  <2>8. /\ results' \in [Elements(test)' -> Int] /\ i' \in Nat /\ i' >= 1 /\ test' \in Tests
        /\ test'.program = "median"
    BY <1>1, <1>2, <2>2, <2>5 DEF Elements
  <2> QED
    BY <1>1, <2>2, <2>7, <2>8 DEF KernelInv, Kernel!VerdictRight
<1>6. CASE ~(i < test.n - 1)
  <2>1. pc' = "verify" /\ i' = 0 /\ UNCHANGED <<test, results>>
    BY <1>1, <1>6
  <2>2. Elements(test) \subseteq S
    BY <1>2, <1>3, <1>4, <1>6
  <2>3. RightOn(Elements(test))
    BY <1>2, <2>2 DEF RightOn
  <2>4. RightOn(Elements(test))'
    <3>1. \A h \in Elements(test) : Kernel!Right(h)'
      BY <2>1, <2>3, SameResults
    <3>2. Elements(test)' = Elements(test)
      BY <2>1 DEF Elements
    <3> QED
      BY <3>1, <3>2 DEF RightOn
  <2>5. Seen(i)'
    BY <2>1 DEF Seen
  <2>6. results' \in [Elements(test)' -> Int] /\ i' \in Nat /\ test' \in Tests
    BY <1>2, <2>1 DEF Elements
  <2> QED
    BY <2>1, <2>4, <2>5, <2>6 DEF KernelInv, Kernel!VerdictRight
<1> QED
  BY <1>5, <1>6

(* The sum of the nine products is the one of Sharpened, for bytes.        *)
LEMMA ClampIs ==
  ASSUME NEW s \in Int
  PROVE  Kernel!Clamp(s) \in Int /\ Kernel!Clamp(s) = Kernel!Min({255, Kernel!Max({0, s})})
<1> DEFINE m == IF s > 0 THEN s ELSE 0
<1>1. Kernel!Max({0, s}) = m
  <2>1. m \in {0, s} /\ \A y \in {0, s} : m >= y
    OBVIOUS
  <2>2. \A e \in {0, s} : (\A y \in {0, s} : e >= y) => e = m
    OBVIOUS
  <2> HIDE DEF m
  <2> QED
    BY <2>1, <2>2 DEF Kernel!Max
<1>2. Kernel!Min({255, m}) = IF m > 255 THEN 255 ELSE m
  <2> DEFINE c == IF m > 255 THEN 255 ELSE m
  <2>0. m \in Int
    OBVIOUS
  <2> HIDE DEF m
  <2>1. c \in {255, m} /\ \A y \in {255, m} : c <= y
    BY <2>0
  <2>2. \A e \in {255, m} : (\A y \in {255, m} : e <= y) => e = c
    BY <2>0
  <2> HIDE DEF c
  <2>3. Kernel!Min({255, m}) = c
    BY <2>1, <2>2 DEF Kernel!Min
  <2> QED
    BY <2>3 DEF c
<1> QED
  BY <1>1, <1>2 DEF Kernel!Clamp

WeightedAt(x, y, k, h) ==
    /\ test.input1[<<x + k - 2, y + h - 2>>] \in 0 .. 255
    /\ Kernel!Weighted(x, y, k, h) = test.input1[<<x + k - 2, y + h - 2>>] * Kernel!sharpen_filter[k][h]

LEMMA WeightedIs ==
  ASSUME KernelsFit, PowersOfTwo, test \in Tests, test.program = "sharpen",
         NEW x \in Int, NEW y \in Int, NEW k \in 1 .. 3, NEW h \in 1 .. 3,
         x + k - 2 \in 0 .. test.n - 1, y + h - 2 \in 0 .. test.n - 1
  PROVE  WeightedAt(x, y, k, h)
<1> DEFINE c == test.input1[<<x + k - 2, y + h - 2>>]
           w == Kernel!sharpen_filter[k][h]
<1>1. c \in 0 .. 255 /\ 5 * 255 < Kernel!Half /\ Kernel!input1 = test.input1
  BY DataOf DEF IsTest, Elements
<1>2. w \in -1 .. 5
  <2>1. k = 1 \/ k = 2 \/ k = 3
    OBVIOUS
  <2>2. h = 1 \/ h = 2 \/ h = 3
    OBVIOUS
  <2> QED
    BY <2>1, <2>2 DEF Kernel!sharpen_filter
<1>3. Kernel!Weighted(x, y, k, h) = Kernel!Cut(c * w)
  BY <1>1 DEF Kernel!Weighted
<1> HIDE DEF c, w
<1>4. c * w \in -Kernel!Half .. Kernel!Half - 1
  <2>1. w = -1 \/ w = 0 \/ w = 1 \/ w = 2 \/ w = 3 \/ w = 4 \/ w = 5
    BY <1>2
  <2>2. Kernel!Half \in Nat
    BY KernelCut
  <2>3. c * w >= -255 /\ c * w <= 5 * 255 /\ c * w \in Int
    BY <1>1, <2>1
  <2> QED
    BY <1>1, <2>2, <2>3
<1>5. Kernel!Cut(c * w) = c * w
  BY <1>4, KernelCut, Zenon
<1> QED
  BY <1>1, <1>3, <1>5 DEF c, w, WeightedAt

LEMMA ConvolvedRight ==
  ASSUME KernelsFit, PowersOfTwo, test \in Tests, test.program = "sharpen",
         NEW x \in 1 .. test.n - 2, NEW y \in 1 .. test.n - 2
  PROVE  /\ Kernel!Convolved(x, y) \in Int
         /\ Kernel!Convolved(x, y) = Kernel!Sharpened(test.input1, x, y)
<1> DEFINE f == test.input1
           W(k, h) == Kernel!Weighted(x, y, k, h)
           c == f[<<x, y>>]
           up == f[<<x - 1, y>>]
           down == f[<<x + 1, y>>]
           left == f[<<x, y - 1>>]
           right == f[<<x, y + 1>>]
<1>1. test.n \in Nat /\ x \in Int /\ y \in Int
  BY DataOf
<1>2. /\ x - 1 = x + 1 - 2 /\ x = x + 2 - 2 /\ x + 1 = x + 3 - 2
      /\ y - 1 = y + 1 - 2 /\ y = y + 2 - 2 /\ y + 1 = y + 3 - 2
      /\ x - 1 \in 0 .. test.n - 1 /\ x \in 0 .. test.n - 1 /\ x + 1 \in 0 .. test.n - 1
      /\ y - 1 \in 0 .. test.n - 1 /\ y \in 0 .. test.n - 1 /\ y + 1 \in 0 .. test.n - 1
  BY <1>1
<1>3. /\ Kernel!sharpen_filter[1][1] = 0 /\ Kernel!sharpen_filter[1][2] = -1 /\ Kernel!sharpen_filter[1][3] = 0
      /\ Kernel!sharpen_filter[2][1] = -1 /\ Kernel!sharpen_filter[2][2] = 5 /\ Kernel!sharpen_filter[2][3] = -1
      /\ Kernel!sharpen_filter[3][1] = 0 /\ Kernel!sharpen_filter[3][2] = -1 /\ Kernel!sharpen_filter[3][3] = 0
  BY DEF Kernel!sharpen_filter
<1>4. 1 \in 1 .. 3 /\ 2 \in 1 .. 3 /\ 3 \in 1 .. 3
  OBVIOUS
<1>5. \A k \in 1 .. 3, h \in 1 .. 3 :
          x + k - 2 \in 0 .. test.n - 1 /\ y + h - 2 \in 0 .. test.n - 1 => WeightedAt(x, y, k, h)
  BY <1>1, WeightedIs
<1> HIDE DEF f, W
<1>6. W(1, 1) = 0
  <2>1. f[<<x - 1, y - 1>>] \in 0 .. 255 /\ W(1, 1) = f[<<x - 1, y - 1>>] * Kernel!sharpen_filter[1][1]
    <3>1. WeightedAt(x, y, 1, 1)
      BY <1>2, <1>4, <1>5
    <3> QED
      BY <1>2, <3>1, Zenon DEF WeightedAt, f, W
  <2> DEFINE g == f[<<x - 1, y - 1>>]
  <2>2. g \in 0 .. 255 /\ W(1, 1) = g * 0
    BY <1>3, <2>1
  <2> HIDE DEF g
  <2>3. W(1, 1) = 0
    BY <2>2
  <2> QED
    BY <2>2, <2>3 DEF g
<1>7. up \in 0 .. 255 /\ W(1, 2) = -up
  <2>1. f[<<x - 1, y>>] \in 0 .. 255 /\ W(1, 2) = f[<<x - 1, y>>] * Kernel!sharpen_filter[1][2]
    <3>1. WeightedAt(x, y, 1, 2)
      BY <1>2, <1>4, <1>5
    <3> QED
      BY <1>2, <3>1, Zenon DEF WeightedAt, f, W
  <2> DEFINE g == f[<<x - 1, y>>]
  <2>2. g \in 0 .. 255 /\ W(1, 2) = g * (-1)
    BY <1>3, <2>1
  <2> HIDE DEF g
  <2>3. W(1, 2) = -g
    BY <2>2
  <2> QED
    BY <2>2, <2>3 DEF g
<1>8. W(1, 3) = 0
  <2>1. f[<<x - 1, y + 1>>] \in 0 .. 255 /\ W(1, 3) = f[<<x - 1, y + 1>>] * Kernel!sharpen_filter[1][3]
    <3>1. WeightedAt(x, y, 1, 3)
      BY <1>2, <1>4, <1>5
    <3> QED
      BY <1>2, <3>1, Zenon DEF WeightedAt, f, W
  <2> DEFINE g == f[<<x - 1, y + 1>>]
  <2>2. g \in 0 .. 255 /\ W(1, 3) = g * 0
    BY <1>3, <2>1
  <2> HIDE DEF g
  <2>3. W(1, 3) = 0
    BY <2>2
  <2> QED
    BY <2>2, <2>3 DEF g
<1>9. left \in 0 .. 255 /\ W(2, 1) = -left
  <2>1. f[<<x, y - 1>>] \in 0 .. 255 /\ W(2, 1) = f[<<x, y - 1>>] * Kernel!sharpen_filter[2][1]
    <3>1. WeightedAt(x, y, 2, 1)
      BY <1>2, <1>4, <1>5
    <3> QED
      BY <1>2, <3>1, Zenon DEF WeightedAt, f, W
  <2> DEFINE g == f[<<x, y - 1>>]
  <2>2. g \in 0 .. 255 /\ W(2, 1) = g * (-1)
    BY <1>3, <2>1
  <2> HIDE DEF g
  <2>3. W(2, 1) = -g
    BY <2>2
  <2> QED
    BY <2>2, <2>3 DEF g
<1>10. c \in 0 .. 255 /\ W(2, 2) = 5 * c
  <2>1. f[<<x, y>>] \in 0 .. 255 /\ W(2, 2) = f[<<x, y>>] * Kernel!sharpen_filter[2][2]
    <3>1. WeightedAt(x, y, 2, 2)
      BY <1>2, <1>4, <1>5
    <3> QED
      BY <1>2, <3>1, Zenon DEF WeightedAt, f, W
  <2> DEFINE g == f[<<x, y>>]
  <2>2. g \in 0 .. 255 /\ W(2, 2) = g * 5
    BY <1>3, <2>1
  <2> HIDE DEF g
  <2>3. W(2, 2) = 5 * g
    BY <2>2
  <2> QED
    BY <2>2, <2>3 DEF g
<1>11. right \in 0 .. 255 /\ W(2, 3) = -right
  <2>1. f[<<x, y + 1>>] \in 0 .. 255 /\ W(2, 3) = f[<<x, y + 1>>] * Kernel!sharpen_filter[2][3]
    <3>1. WeightedAt(x, y, 2, 3)
      BY <1>2, <1>4, <1>5
    <3> QED
      BY <1>2, <3>1, Zenon DEF WeightedAt, f, W
  <2> DEFINE g == f[<<x, y + 1>>]
  <2>2. g \in 0 .. 255 /\ W(2, 3) = g * (-1)
    BY <1>3, <2>1
  <2> HIDE DEF g
  <2>3. W(2, 3) = -g
    BY <2>2
  <2> QED
    BY <2>2, <2>3 DEF g
<1>12. W(3, 1) = 0
  <2>1. f[<<x + 1, y - 1>>] \in 0 .. 255 /\ W(3, 1) = f[<<x + 1, y - 1>>] * Kernel!sharpen_filter[3][1]
    <3>1. WeightedAt(x, y, 3, 1)
      BY <1>2, <1>4, <1>5
    <3> QED
      BY <1>2, <3>1, Zenon DEF WeightedAt, f, W
  <2> DEFINE g == f[<<x + 1, y - 1>>]
  <2>2. g \in 0 .. 255 /\ W(3, 1) = g * 0
    BY <1>3, <2>1
  <2> HIDE DEF g
  <2>3. W(3, 1) = 0
    BY <2>2
  <2> QED
    BY <2>2, <2>3 DEF g
<1>13. down \in 0 .. 255 /\ W(3, 2) = -down
  <2>1. f[<<x + 1, y>>] \in 0 .. 255 /\ W(3, 2) = f[<<x + 1, y>>] * Kernel!sharpen_filter[3][2]
    <3>1. WeightedAt(x, y, 3, 2)
      BY <1>2, <1>4, <1>5
    <3> QED
      BY <1>2, <3>1, Zenon DEF WeightedAt, f, W
  <2> DEFINE g == f[<<x + 1, y>>]
  <2>2. g \in 0 .. 255 /\ W(3, 2) = g * (-1)
    BY <1>3, <2>1
  <2> HIDE DEF g
  <2>3. W(3, 2) = -g
    BY <2>2
  <2> QED
    BY <2>2, <2>3 DEF g
<1>14. W(3, 3) = 0
  <2>1. f[<<x + 1, y + 1>>] \in 0 .. 255 /\ W(3, 3) = f[<<x + 1, y + 1>>] * Kernel!sharpen_filter[3][3]
    <3>1. WeightedAt(x, y, 3, 3)
      BY <1>2, <1>4, <1>5
    <3> QED
      BY <1>2, <3>1, Zenon DEF WeightedAt, f, W
  <2> DEFINE g == f[<<x + 1, y + 1>>]
  <2>2. g \in 0 .. 255 /\ W(3, 3) = g * 0
    BY <1>3, <2>1
  <2> HIDE DEF g
  <2>3. W(3, 3) = 0
    BY <2>2
  <2> QED
    BY <2>2, <2>3 DEF g
<1> DEFINE s == c + (c - up) + (c - down) + (c - left) + (c - right)
           sum == Kernel!RowSum(x, y, 1) + Kernel!RowSum(x, y, 2) + Kernel!RowSum(x, y, 3)
<1>15. /\ Kernel!RowSum(x, y, 1) = W(1, 1) + W(1, 2) + W(1, 3)
       /\ Kernel!RowSum(x, y, 2) = W(2, 1) + W(2, 2) + W(2, 3)
       /\ Kernel!RowSum(x, y, 3) = W(3, 1) + W(3, 2) + W(3, 3)
  BY Zenon DEF Kernel!RowSum, W
<1>16. Kernel!Sharpened(f, x, y) = Kernel!Min({255, Kernel!Max({0, s})})
  BY Zenon DEF Kernel!Sharpened
<1>17. Kernel!Convolved(x, y) = Kernel!Clamp(sum)
  BY Zenon DEF Kernel!Convolved
<1> HIDE DEF c, up, down, left, right
<1>18. sum = s /\ s \in Int
  BY <1>6, <1>7, <1>8, <1>9, <1>10, <1>11, <1>12, <1>13, <1>14, <1>15
<1> HIDE DEF s, sum
<1> QED
  BY <1>16, <1>17, <1>18, ClampIs DEF f

-----------------------------------------------------------------------------
(* Of an image: its pixels are the pairs of a row and a column.            *)
LEMMA ImageFacts ==
  ASSUME KernelsFit, test \in Tests, test.program = "sharpen"
  PROVE  /\ test.n \in Nat \ {0} /\ Kernel!n = test.n /\ Kernel!input1 = test.input1
         /\ Elements(test) = (0 .. test.n - 1) \X (0 .. test.n - 1)
         /\ test.input1 \in [Elements(test) -> Int]
         /\ \A k \in Elements(test) : /\ k = <<k[1], k[2]>>
                                      /\ k[1] \in 0 .. test.n - 1 /\ k[2] \in 0 .. test.n - 1
<1>1. /\ IsTest(test) /\ test.n \in Nat \ {0} /\ Kernel!n = test.n /\ Kernel!input1 = test.input1
  BY DataOf
<1>2. Elements(test) = (0 .. test.n - 1) \X (0 .. test.n - 1)
  BY DEF Elements
<1>3. test.input1 \in [Elements(test) -> Int]
  <2>1. test.input1 \in [Elements(test) -> 0 .. 255]
    BY <1>1 DEF IsTest
  <2>2. 0 .. 255 \subseteq Int
    OBVIOUS
  <2> HIDE DEF Elements
  <2> QED
    BY <2>1, <2>2
<1>4. \A k \in Elements(test) : /\ k = <<k[1], k[2]>>
                                /\ k[1] \in 0 .. test.n - 1 /\ k[2] \in 0 .. test.n - 1
  BY <1>2
<1> QED
  BY <1>1, <1>2, <1>3, <1>4

(* The four pixels a round of the first loop copies are of the border, and *)
(* the rounds copy all of it.                                              *)
LEMMA BorderFacts ==
  ASSUME KernelsFit, test \in Tests, test.program = "sharpen"
  PROVE  /\ \A h \in 0 .. test.n - 1 : \A k \in Kernel!Border(h) : AtBorder(k)
         /\ \A k \in Elements(test) : AtBorder(k) <=> k \in BorderSet(test.n)
<1>1. /\ test.n \in Nat \ {0} /\ Kernel!n = test.n
      /\ \A k \in Elements(test) : /\ k = <<k[1], k[2]>>
                                   /\ k[1] \in 0 .. test.n - 1 /\ k[2] \in 0 .. test.n - 1
  BY ImageFacts
<1>2. ASSUME NEW h \in 0 .. test.n - 1, NEW k \in Kernel!Border(h)
      PROVE  AtBorder(k)
  BY <1>1, <1>2 DEF Kernel!Border, AtBorder
<1>3. ASSUME NEW k \in Elements(test), AtBorder(k)
      PROVE  \E h \in 0 .. test.n - 1 : k \in Kernel!Border(h)
  <2> DEFINE k1 == k[1]
             k2 == k[2]
  <2>1. k = <<k1, k2>> /\ k1 \in 0 .. test.n - 1 /\ k2 \in 0 .. test.n - 1
    BY <1>1, Zenon
  <2>2. k1 \in {0, test.n - 1} \/ k2 \in {0, test.n - 1}
    BY <1>3 DEF AtBorder
  <2> HIDE DEF k1, k2
  <2>3. CASE k1 \in {0, test.n - 1}
    <3>1. k \in Kernel!Border(k2)
      BY <1>1, <2>1, <2>3 DEF Kernel!Border
    <3> QED
      BY <2>1, <3>1
  <2>4. CASE k2 \in {0, test.n - 1}
    <3>1. k \in Kernel!Border(k1)
      BY <1>1, <2>1, <2>4 DEF Kernel!Border
    <3> QED
      BY <2>1, <3>1
  <2> QED
    BY <2>2, <2>3, <2>4
<1>4. ASSUME NEW k \in Elements(test)
      PROVE  AtBorder(k) <=> k \in BorderSet(test.n)
  BY <1>2, <1>3 DEF BorderSet
<1> QED
  BY <1>2, <1>4

LEMMA BorderRight ==
  ASSUME KernelsFit, test \in Tests, test.program = "sharpen", NEW k, AtBorder(k)
  PROVE  RightOf(test, k, test.input1[k])
BY RightCases DEF AtBorder

LEMMA SharpenBorderStep ==
  ASSUME KernelsFit, PowersOfTwo, KernelInv, Kernel!sharpen_border
  PROVE  KernelInv'
<1>1. /\ pc = "sharpen" /\ UNCHANGED <<test, pass, verdict>>
      /\ IF i < test.n
         THEN /\ results' = [p \in DOMAIN results |->
                               IF p \in Kernel!Border(i) THEN test.input1[p] ELSE results[p]]
              /\ i' = i + 1 /\ UNCHANGED <<pc, j>>
         ELSE pc' = "sharpen_inside" /\ i' = 1 /\ j' = 1 /\ UNCHANGED results
  BY DEF Kernel!sharpen_border, Kernel!n, Kernel!input1
<1>2. /\ test \in Tests /\ results \in [Elements(test) -> Int] /\ i \in Nat /\ i <= test.n
      /\ test.program = "sharpen" /\ RightOn(BorderSet(i))
  BY <1>1 DEF KernelInv
<1>3. test.n \in Nat \ {0} /\ test.input1 \in [Elements(test) -> Int]
  BY <1>2, ImageFacts
<1>4. test' = test /\ Elements(test)' = Elements(test)
  BY <1>1 DEF Elements
<1>5. CASE i < test.n
  <2>1. /\ results' = [p \in DOMAIN results |->
                         IF p \in Kernel!Border(i) THEN test.input1[p] ELSE results[p]]
        /\ i' = i + 1 /\ pc' = pc
    BY <1>1, <1>5
  <2>2. /\ results' \in [Elements(test) -> Int]
        /\ \A p \in Elements(test) :
              results'[p] = IF p \in Kernel!Border(i) THEN test.input1[p] ELSE results[p]
    BY <1>2, <1>3, <2>1
  <2>3. ASSUME NEW k \in Elements(test), NEW h \in 0 .. i, k \in Kernel!Border(h)
        PROVE  Kernel!Right(k)'
    <3>1. CASE k \in Kernel!Border(i)
      <4>1. i \in 0 .. test.n - 1
        BY <1>2, <1>3, <1>5
      <4>2. AtBorder(k)
        BY <1>2, <3>1, <4>1, BorderFacts
      <4>3. RightOf(test, k, test.input1[k])
        BY <1>2, <4>2, BorderRight
      <4>4. results'[k] = test.input1[k]
        BY <2>2, <3>1
      <4> QED
        BY <1>4, <4>3, <4>4, RightIs, Zenon
    <3>2. CASE k \notin Kernel!Border(i)
      <4>1. h # i
        BY <2>3, <3>2
      <4>2. h \in 0 .. i - 1
        BY <1>2, <4>1
      <4>3. Kernel!Right(k)
        BY <1>2, <2>3, <4>2 DEF RightOn, BorderSet
      <4>4. results'[k] = results[k]
        BY <2>2, <3>2
      <4> QED
        BY <1>4, <4>3, <4>4, RightKept, Zenon
    <3> QED
      BY <3>1, <3>2
  <2>4. RightOn(BorderSet(i))'
    <3>1. i' - 1 = i /\ \A h : Kernel!Border(h)' = Kernel!Border(h)
      BY <1>2, <1>4, <2>1 DEF Kernel!Border, Kernel!n
    <3>2. ASSUME NEW k \in Elements(test)', NEW h \in 0 .. i' - 1, k \in Kernel!Border(h)'
          PROVE  Kernel!Right(k)'
      BY <1>4, <2>3, <3>1, <3>2
    <3> QED
      BY <3>2 DEF RightOn, BorderSet
  <2>5. /\ test' \in Tests /\ results' \in [Elements(test)' -> Int] /\ i' \in Nat /\ i' <= test'.n
        /\ pc' = "sharpen" /\ pc' = test'.program
    BY <1>1, <1>2, <1>3, <1>4, <1>5, <2>1, <2>2
  <2> QED
    BY <1>1, <2>4, <2>5 DEF KernelInv, Kernel!VerdictRight
<1>6. CASE ~(i < test.n)
  <2>1. /\ pc' = "sharpen_inside" /\ i' = 1 /\ j' = 1 /\ UNCHANGED <<test, results>>
    BY <1>1, <1>6
  <2>2. i = test.n
    BY <1>2, <1>3, <1>6
  <2>3. RightOn(InsideSet)'
    <3>1. ASSUME NEW k \in Elements(test), AtBorder(k) \/ k[1] < 1 \/ (k[1] = 1 /\ k[2] < 1)
          PROVE  AtBorder(k)
      <4> DEFINE k1 == k[1]
                 k2 == k[2]
      <4>1. k1 \in 0 .. test.n - 1 /\ k2 \in 0 .. test.n - 1
        BY <1>2, ImageFacts
      <4>2. AtBorder(k) \/ k1 < 1 \/ k2 < 1
        BY <3>1
      <4>3. k1 = 0 \/ k2 = 0 => AtBorder(k)
        BY DEF AtBorder
      <4> HIDE DEF k1, k2
      <4>4. (k1 < 1 => k1 = 0) /\ (k2 < 1 => k2 = 0)
        BY <1>3, <4>1
      <4> QED
        BY <4>2, <4>3, <4>4
    <3>2. \A k \in Elements(test) : AtBorder(k) => Kernel!Right(k)
      BY <1>2, <2>2, BorderFacts DEF RightOn
    <3>3. ASSUME NEW k \in Elements(test)', AtBorder(k)' \/ k[1] < i' \/ (k[1] = i' /\ k[2] < j')
          PROVE  Kernel!Right(k)'
      <4>1. AtBorder(k)' <=> AtBorder(k)
        BY <1>4 DEF AtBorder
      <4>2. Kernel!Right(k)
        BY <1>4, <2>1, <3>1, <3>2, <3>3, <4>1
      <4>3. results'[k] = results[k]
        BY <2>1
      <4> QED
        BY <1>4, <4>2, <4>3, RightKept, Zenon
    <3> QED
      BY <3>3 DEF RightOn, InsideSet
  <2>4. /\ test' \in Tests /\ results' \in [Elements(test)' -> Int] /\ i' \in Nat /\ i' >= 1
        /\ test'.program = "sharpen" /\ j' \in Nat /\ j' >= 1 /\ (i' < test'.n - 1 => j' < test'.n - 1)
    BY <1>2, <1>3, <1>4, <2>1
  <2> QED
    BY <2>1, <2>3, <2>4 DEF KernelInv, Kernel!VerdictRight
<1> QED
  BY <1>5, <1>6

LEMMA SharpenInsideStep ==
  ASSUME KernelsFit, PowersOfTwo, KernelInv, Kernel!sharpen_inside
  PROVE  KernelInv'
<1> DEFINE element == Kernel!Convolved(i, j)
           S2 == {k \in Elements(test) : \/ AtBorder(k) \/ k[1] < i
                                         \/ (k[1] = i /\ k[2] < j + 1)}
<1>1. /\ pc = "sharpen_inside" /\ UNCHANGED <<test, verdict>>
      /\ IF i < test.n - 1
         THEN /\ results' = [results EXCEPT ![<<i, j>>] = element]
              /\ i' = IF j = test.n - 2 THEN i + 1 ELSE i
              /\ j' = IF j = test.n - 2 THEN 1 ELSE j + 1
              /\ UNCHANGED <<pc, pass>>
         ELSE /\ pc' \in {"sharpen", "verify"} /\ i' = 0
              /\ UNCHANGED <<results, j>>
  BY DEF Kernel!sharpen_inside, Kernel!n
<1>2. /\ test \in Tests /\ results \in [Elements(test) -> Int] /\ test.program = "sharpen"
      /\ i \in Nat /\ i >= 1 /\ j \in Nat /\ j >= 1 /\ RightOn(InsideSet)
      /\ i < test.n - 1 => j < test.n - 1
  BY <1>1 DEF KernelInv
<1>3. /\ test.n \in Nat \ {0} /\ Elements(test) = (0 .. test.n - 1) \X (0 .. test.n - 1)
      /\ \A k \in Elements(test) : /\ k = <<k[1], k[2]>>
                                   /\ k[1] \in 0 .. test.n - 1 /\ k[2] \in 0 .. test.n - 1
  BY <1>2, ImageFacts
<1>4. test' = test /\ Elements(test)' = Elements(test) /\ \A k : AtBorder(k)' <=> AtBorder(k)
  BY <1>1 DEF Elements, AtBorder
<1>5. CASE i < test.n - 1
  <2>1. /\ results' = [results EXCEPT ![<<i, j>>] = element] /\ pc' = pc
        /\ i' = IF j = test.n - 2 THEN i + 1 ELSE i
        /\ j' = IF j = test.n - 2 THEN 1 ELSE j + 1
    BY <1>1, <1>5
  <2>2. i \in 1 .. test.n - 2 /\ j \in 1 .. test.n - 2
    BY <1>2, <1>3, <1>5
  <2>3. element \in Int /\ element = Kernel!Sharpened(test.input1, i, j)
    BY <1>2, <2>2, ConvolvedRight
  <2>4. <<i, j>> \in Elements(test) /\ ~AtBorder(<<i, j>>)
    BY <1>3, <2>2 DEF AtBorder
  <2> HIDE DEF element
  <2>5. RightOf(test, <<i, j>>, element)
    <3> DEFINE k == <<i, j>>
    <3>1. k[1] = i /\ k[2] = j
      OBVIOUS
    <3>2. ~(\E z \in {0, test.n - 1} : z \in {k[1], k[2]})
      BY <2>4 DEF AtBorder
    <3>3. element = Kernel!Sharpened(test.input1, k[1], k[2])
      BY <2>3, <3>1
    <3> HIDE DEF k
    <3>4. RightOf(test, k, element)
      BY <1>2, <3>2, <3>3, RightCases
    <3> QED
      BY <3>4 DEF k
  <2>6. RightOn(S2 \ {<<i, j>>})
    <3>1. ASSUME NEW k \in S2 \ {<<i, j>>}
          PROVE  k \in InsideSet
      <4> DEFINE k1 == k[1]
                 k2 == k[2]
      <4>1. /\ k \in Elements(test) /\ k = <<k1, k2>>
            /\ k1 \in 0 .. test.n - 1 /\ k2 \in 0 .. test.n - 1
            /\ AtBorder(k) \/ k1 < i \/ (k1 = i /\ k2 < j + 1)
        BY <1>3, <3>1, Zenon
      <4>2. ~(k1 = i /\ k2 = j)
        BY <3>1, <4>1
      <4> HIDE DEF k1, k2
      <4>3. AtBorder(k) \/ k1 < i \/ (k1 = i /\ k2 < j)
        BY <1>2, <1>3, <4>1, <4>2
      <4> QED
        BY <4>1, <4>3 DEF InsideSet, k1, k2
    <3> QED
      BY <1>2, <3>1 DEF RightOn
  <2>7. (\A h \in S2 : Kernel!Right(h)') /\ results' \in [Elements(test) -> Int]
    <3>1. S2 \subseteq Elements(test)
      OBVIOUS
    <3> HIDE DEF S2
    <3> QED
      BY <1>2, <1>4, <2>1, <2>3, <2>4, <2>5, <2>6, <3>1, SetElement, Zenon
  <2>8. RightOn(InsideSet)'
    <3>1. ASSUME NEW k \in Elements(test)', AtBorder(k)' \/ k[1] < i' \/ (k[1] = i' /\ k[2] < j')
          PROVE  Kernel!Right(k)'
      <4> DEFINE k1 == k[1]
                 k2 == k[2]
      <4>1. k \in Elements(test) /\ k1 \in 0 .. test.n - 1 /\ k2 \in 0 .. test.n - 1
        BY <1>3, <1>4
      <4>2. AtBorder(k) \/ k1 < i' \/ (k1 = i' /\ k2 < j')
        BY <1>4, <3>1
      <4>3. k2 = 0 \/ k2 = test.n - 1 => AtBorder(k)
        BY DEF AtBorder
      <4> HIDE DEF k1, k2
      <4>4. AtBorder(k) \/ k1 < i \/ (k1 = i /\ k2 < j + 1)
        <5>1. CASE j = test.n - 2
          <6>1. i' = i + 1 /\ j' = 1
            BY <2>1, <5>1
          <6> QED
            BY <1>2, <1>3, <4>1, <4>2, <4>3, <5>1, <6>1
        <5>2. CASE j # test.n - 2
          BY <1>2, <2>1, <4>2, <5>2
        <5> QED
          BY <5>1, <5>2
      <4>5. k \in S2
        BY <4>1, <4>4 DEF k1, k2
      <4> QED
        BY <2>7, <4>5
    <3> QED
      BY <3>1 DEF RightOn, InsideSet
  <2>9. /\ test' \in Tests /\ results' \in [Elements(test)' -> Int] /\ test'.program = "sharpen"
        /\ i' \in Nat /\ i' >= 1 /\ j' \in Nat /\ j' >= 1 /\ (i' < test'.n - 1 => j' < test'.n - 1)
    <3>1. /\ i' \in Nat /\ i' >= 1 /\ j' \in Nat /\ j' >= 1 /\ (i' < test.n - 1 => j' < test.n - 1)
      BY <1>2, <1>3, <2>1, <2>2
    <3> QED
      BY <1>2, <1>4, <2>7, <3>1
  <2> QED
    BY <1>1, <2>1, <2>8, <2>9 DEF KernelInv, Kernel!VerdictRight
<1>6. CASE ~(i < test.n - 1)
  <2>1. pc' \in {"sharpen", "verify"} /\ i' = 0 /\ UNCHANGED <<test, results>>
    BY <1>1, <1>6
  <2>2. RightOn(Elements(test))
    <3>1. ASSUME NEW k \in Elements(test)
          PROVE  k \in InsideSet
      <4> DEFINE k1 == k[1]
      <4>1. k1 \in 0 .. test.n - 1
        BY <1>3
      <4>2. k1 = test.n - 1 => AtBorder(k)
        BY DEF AtBorder
      <4> HIDE DEF k1
      <4>3. AtBorder(k) \/ k1 < i
        BY <1>2, <1>3, <1>6, <4>1, <4>2
      <4> QED
        BY <4>3 DEF InsideSet, k1
    <3> QED
      BY <1>2, <3>1 DEF RightOn
  <2>3. RightOn(Elements(test))'
    <3>1. \A h \in Elements(test) : Kernel!Right(h)'
      BY <2>1, <2>2, SameResults
    <3> QED
      BY <1>4, <3>1 DEF RightOn
  <2>4. Seen(i)' /\ RightOn(BorderSet(i))'
    BY <2>1 DEF Seen, RightOn, BorderSet
  <2>5. /\ test' \in Tests /\ results' \in [Elements(test)' -> Int] /\ i' \in Nat
        /\ i' <= test'.n /\ test'.program = "sharpen"
    BY <1>2, <1>3, <1>4, <2>1
  <2> QED
    BY <2>1, <2>3, <2>4, <2>5 DEF KernelInv, Kernel!VerdictRight
<1> QED
  BY <1>5, <1>6

-----------------------------------------------------------------------------
(* Every element has its turn in the comparison.                           *)
LEMMA PlacesCover ==
  ASSUME KernelsFit, test \in Tests, NEW k \in Elements(test)
  PROVE  \E h \in Nat : h < Cardinality(Elements(test)) /\ Kernel!Place(h) = k
<1>1. test.n \in Nat \ {0} /\ Kernel!n = test.n
  BY DataOf
<1> DEFINE S == 0 .. test.n - 1
<1>2. IsFiniteSet(S) /\ Cardinality(S) = test.n
  <2>1. 0 \in Int /\ test.n - 1 \in Int /\ ~(0 > test.n - 1) /\ (test.n - 1) - 0 + 1 = test.n
    BY <1>1
  <2> QED
    BY <2>1, FS_Interval, Zenon
<1>3. CASE test.program = "sharpen"
  <2> DEFINE k1 == k[1]
             k2 == k[2]
             h == test.n * k1 + k2
  <2>1. k = <<k1, k2>> /\ k1 \in S /\ k2 \in S
    BY <1>3, ImageFacts
  <2>2. Elements(test) = S \X S
    BY <1>3, ImageFacts
  <2> HIDE DEF S
  <2>3. Cardinality(Elements(test)) = test.n * test.n
    BY <1>2, <2>2, FS_Product
  <2> HIDE DEF k1, k2
  <2>4. k1 \in 0 .. test.n - 1 /\ k2 \in 0 .. test.n - 1
    BY <2>1 DEF S
  <2>5. h \div test.n = k1 /\ h % test.n = k2
    <3>1. k1 \in Int
      BY <2>4
    <3> QED
      BY <1>1, <2>4, <3>1, DivMod, Zenon
  <2>6. h \in Nat /\ h < test.n * test.n
    <3> DEFINE e == test.n * k1
               d == test.n * (test.n - 1 - k1)
    <3>1. e \in Nat /\ test.n - 1 - k1 \in Nat
      BY <1>1, <2>4
    <3>2. d \in Nat
      BY <1>1, <3>1
    <3>3. test.n * test.n = e + d + test.n
      BY <1>1, <2>4
    <3> DEFINE q == test.n * test.n
    <3>4. h = e + k2 /\ q = e + d + test.n
      BY <3>3
    <3> HIDE DEF e, d, q, h
    <3> QED
      BY <1>1, <2>4, <3>1, <3>2, <3>4 DEF q
  <2> HIDE DEF h
  <2>7. Kernel!Place(h) = k
    BY <1>1, <1>3, <2>1, <2>5 DEF Kernel!Place
  <2> QED
    BY <2>3, <2>6, <2>7
<1>4. CASE test.program # "sharpen"
  <2>1. Elements(test) = S /\ Kernel!Place(k) = k
    BY <1>4 DEF Elements, Kernel!Place
  <2>2. k \in Nat /\ k < test.n
    BY <1>1, <2>1
  <2> QED
    BY <1>2, <2>1, <2>2
<1> QED
  BY <1>3, <1>4

LEMMA ElementsCounted ==
  ASSUME KernelsFit, test \in Tests
  PROVE  Cardinality(Elements(test)) \in Nat
<1>1. test.n \in Nat \ {0}
  BY DataOf
<1>2. IsFiniteSet(0 .. test.n - 1)
  BY <1>1, FS_Interval
<1>3. IsFiniteSet((0 .. test.n - 1) \X (0 .. test.n - 1))
  BY <1>2, FS_Product
<1> QED
  BY <1>2, <1>3, FS_CardinalityType DEF Elements

LEMMA VerifyStep ==
  ASSUME KernelsFit, PowersOfTwo, KernelInv, Kernel!verify
  PROVE  KernelInv'
<1>1. /\ pc = "verify" /\ UNCHANGED <<test, results>>
  BY DEF Kernel!verify
<1>2. /\ test \in Tests /\ results \in [Elements(test) -> Int] /\ i \in Nat
      /\ RightOn(Elements(test)) /\ Seen(i)
  BY <1>1 DEF KernelInv
<1>3. test.verify_data \in [Elements(test) -> Int]
  BY <1>2, DataOf DEF IsTest
<1>4. test' \in Tests /\ results' \in [Elements(test)' -> Int]
  BY <1>1, <1>2 DEF Elements
<1>5. CASE ~Kernel!LeftToCompare
  <2>1. pc' = "done" /\ verdict' = 1 /\ i' = i
    BY <1>5 DEF Kernel!verify
  <2>2. DOMAIN results = Elements(test) /\ ~(i < Cardinality(Elements(test)))
    <3>1. Kernel!Cardinality(DOMAIN results) = Cardinality(DOMAIN results)
      BY Zenon DEF Kernel!Cardinality, Cardinality
    <3> QED
      BY <1>2, <1>5, <3>1 DEF Kernel!LeftToCompare
  <2>3. ASSUME NEW k \in Elements(test)
        PROVE  results[k] = test.verify_data[k]
    <3>1. PICK h \in Nat : h < Cardinality(Elements(test)) /\ Kernel!Place(h) = k
      BY <1>2, PlacesCover
    <3>2. Cardinality(Elements(test)) \in Nat
      BY <1>2, ElementsCounted
    <3>3. h \in 0 .. i - 1
      BY <1>2, <2>2, <3>1, <3>2
    <3> QED
      BY <1>2, <3>1, <3>3 DEF Seen
  <2>4. results = test.verify_data
    BY <1>2, <1>3, <2>3
  <2>5. Kernel!VerdictRight'
    BY <1>1, <2>1, <2>4 DEF Kernel!VerdictRight
  <2> QED
    BY <1>2, <1>4, <2>1, <2>5 DEF KernelInv
<1>6. CASE Kernel!LeftToCompare /\ results[Kernel!Place(i)] # test.verify_data[Kernel!Place(i)]
  <2>1. pc' = "done" /\ verdict' = 0 /\ i' = i
    BY <1>6 DEF Kernel!verify
  <2>2. Kernel!VerdictRight'
    BY <1>1, <1>6, <2>1 DEF Kernel!VerdictRight
  <2> QED
    BY <1>2, <1>4, <2>1, <2>2 DEF KernelInv
<1>7. CASE Kernel!LeftToCompare /\ results[Kernel!Place(i)] = test.verify_data[Kernel!Place(i)]
  <2>1. pc' = "verify" /\ verdict' = verdict /\ i' = i + 1
    BY <1>1, <1>7 DEF Kernel!verify
  <2>2. Seen(i)'
    <3>1. ASSUME NEW h \in 0 .. i
          PROVE  results[Kernel!Place(h)] = test.verify_data[Kernel!Place(h)]
      <4>1. h = i \/ h \in 0 .. i - 1
        BY <1>2
      <4> QED
        BY <1>2, <1>7, <4>1 DEF Seen
    <3>2. i' - 1 = i /\ \A h : Kernel!Place(h)' = Kernel!Place(h)
      BY <1>1, <1>2, <2>1 DEF Kernel!Place, Kernel!n
    <3> QED
      BY <1>1, <3>1, <3>2 DEF Seen
  <2>3. RightOn(Elements(test))'
    <3>1. \A h \in Elements(test) : Kernel!Right(h)'
      BY <1>1, <1>2, SameResults
    <3>2. Elements(test)' = Elements(test)
      BY <1>1 DEF Elements
    <3> QED
      BY <3>1, <3>2 DEF RightOn
  <2> QED
    BY <1>2, <1>4, <2>1, <2>2, <2>3 DEF KernelInv, Kernel!VerdictRight
<1> QED
  BY <1>5, <1>6, <1>7

LEMMA KernelStep ==
  ASSUME KernelsFit, PowersOfTwo, KernelInv, [Kernel!Next]_(Kernel!vars)
  PROVE  KernelInv'
<1>1. CASE UNCHANGED Kernel!vars
  <2>1. UNCHANGED <<pc, test, results, i, j, pass, verdict>>
    BY <1>1 DEF Kernel!vars
  <2>2. ASSUME NEW S, RightOn(S)
        PROVE  \A k \in S : Kernel!Right(k)'
    BY <2>1, <2>2, SameResults
  <2>3. /\ Elements(test)' = Elements(test) /\ InsideSet' = InsideSet /\ \A m : Seen(m)' <=> Seen(m)
    BY <2>1 DEF Elements, InsideSet, AtBorder, Seen, Kernel!Place, Kernel!n
  <2>4. BorderSet(i)' = BorderSet(i)
    BY <2>1 DEF BorderSet, Elements, Kernel!Border, Kernel!n
  <2>5. \A S : RightOn(S) => \A k \in S : Kernel!Right(k)'
    BY <2>2
  <2>6. /\ pc \in {"vvadd", "multiply"} => RightOn({k \in Elements(test) : k < i})'
        /\ pc = "median_inside" => RightOn({k \in Elements(test) : k < i \/ k = test.n - 1})'
        /\ pc = "sharpen" => RightOn(BorderSet(i))'
        /\ pc = "sharpen_inside" => RightOn(InsideSet)'
        /\ pc = "verify" => RightOn(Elements(test))' /\ Seen(i)'
    BY <2>1, <2>3, <2>4, <2>5 DEF KernelInv, RightOn
  <2> QED
    BY <2>1, <2>3, <2>6 DEF KernelInv, Kernel!VerdictRight
<1> QED
  BY <1>1, VectorStep, MedianEndsStep, MedianStep, SharpenBorderStep, SharpenInsideStep, VerifyStep
     DEF Kernel!Next

(* When vvadd, multiply, median or sharpen compares its results with those *)
(* of the data file, every element has been computed, and right; and it    *)
(* prints that they agree exactly if all do.  For data of any size.        *)
THEOREM KernelsRight ==
  ASSUME KernelsFit, PowersOfTwo
  PROVE  Kernel!Spec => [](Kernel!ResultsRight /\ Kernel!VerdictRight)
<1>1. Kernel!Init => KernelInv
  BY KernelStart
<1>2. KernelInv /\ [Kernel!Next]_(Kernel!vars) => KernelInv'
  BY KernelStep
<1>3. KernelInv => Kernel!ResultsRight /\ Kernel!VerdictRight
  BY DEF KernelInv, Kernel!ResultsRight, RightOn
<1> QED
  BY <1>1, <1>2, <1>3, PTL DEF Kernel!Spec

-----------------------------------------------------------------------------
(* Whichever program runs, its results are right: the puzzle solved, the   *)
(* data sorted and none lost, the product and the quotient right, and the  *)
(* results of the benchmarks right and truthfully compared.                *)
THEOREM AllResultsRight ==
  ASSUME NUM_DISCS \in Nat \ {0}, PowersOfTwo, HalvingsFit, ArithFits, KernelsFit
  PROVE  /\ [](program = "towers") /\ T!Spec => []ResultsRight
         /\ [](program = "qsort") /\ Spec => []ResultsRight
         /\ [](program = "arith") /\ Arith!Spec => []ResultsRight
         /\ [](program = "kernels") /\ Kernel!Spec => []ResultsRight
<1>1. /\ program = "towers" /\ T!Solved => ResultsRight
      /\ program = "qsort" /\ Sorted => ResultsRight
      /\ program = "arith" /\ Arith!ResultRight => ResultsRight
      /\ program = "kernels" /\ Kernel!ResultsRight /\ Kernel!VerdictRight => ResultsRight
  BY DEF ResultsRight
<1>2. [](program = "towers") /\ T!Spec => []ResultsRight
  <2>1. T!Spec => []T!Solved
    BY TowersSolves
  <2> QED
    BY <1>1, <2>1, PTL
<1>3. [](program = "qsort") /\ Spec => []ResultsRight
  <2>1. Spec => []Sorted
    BY SortsData
  <2> QED
    BY <1>1, <2>1, PTL
<1>4. [](program = "arith") /\ Arith!Spec => []ResultsRight
  <2>1. Arith!Spec => []Arith!ResultRight
    BY ArithRight
  <2> QED
    BY <1>1, <2>1, PTL
<1>5. [](program = "kernels") /\ Kernel!Spec => []ResultsRight
  <2>1. Kernel!Spec => [](Kernel!ResultsRight /\ Kernel!VerdictRight)
    BY KernelsRight
  <2> QED
    BY <1>1, <2>1, PTL
<1> QED
  BY <1>2, <1>3, <1>4, <1>5
=============================================================================
