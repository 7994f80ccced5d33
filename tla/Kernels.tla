------------------------------ MODULE Kernels ------------------------------
(***************************************************************************)
(* The benchmarks that fill an array and compare it with one from a file:  *)
(* vvadd_main.c, multiply_main.c, median_main.c (with median.i) and        *)
(* filters.c, of whose three colours one stands for all.  multiply is the  *)
(* function of SoftArith.tla: its result is the product.                   *)
(***************************************************************************)
EXTENDS Integers, Sequences, FiniteSets, FiniteSetsExt

CONSTANTS
    BITS,       \* of an int: 32
    Tests       \* [program, n, input1, input2, verify_data]: n is DATA_SIZE

VARIABLES
    pc, test,
    results,    \* results_data; Garbage before it is written
    i, j,
    pass,       \* calls of sharpen that have returned
    verdict

vars == <<pc, test, results, i, j, pass, verdict>>

Half == 2 ^ (BITS - 1)
Cut(x) == ((x + Half) % (2 * Half)) - Half
Garbage == -Half

n == test.n
input1 == test.input1
input2 == test.input2

Init ==
    /\ test \in Tests
    /\ results = [k \in DOMAIN test.verify_data |-> Garbage]
    /\ pc = test.program /\ i = 0 /\ j = 0 /\ pass = 0 /\ verdict = -1

(* A loop over i that sets one element of the results in each round.       *)
Loop(first, last, element) ==
    IF i < last THEN results' = [results EXCEPT ![i] = element] /\ i' = i + 1 /\ UNCHANGED pc
    ELSE pc' = "verify" /\ i' = 0 /\ UNCHANGED results

vvadd == /\ pc = "vvadd"
         /\ Loop(0, n, Cut(input1[i] + input2[i]))
         /\ UNCHANGED <<test, j, pass, verdict>>

multiply_main == /\ pc = "multiply"
                 /\ Loop(0, n, Cut(input1[i] * input2[i]))
                 /\ UNCHANGED <<test, j, pass, verdict>>

median_ends ==
    /\ pc = "median"
    /\ results' = [results EXCEPT ![0] = 0, ![n - 1] = 0]
    /\ i' = 1 /\ pc' = "median_inside"
    /\ UNCHANGED <<test, j, pass, verdict>>

(* Mutant: the second branch compares with the middle element first.       *)
MutMedian3(A, B, C) ==
    IF A < B THEN (IF B < C THEN B ELSE IF C < A THEN A ELSE C)
    ELSE (IF B < C THEN A ELSE B)

Median3(A, B, C) ==
    IF A < B THEN (IF B < C THEN B ELSE IF C < A THEN A ELSE C)
    ELSE (IF A < C THEN A ELSE IF C < B THEN B ELSE C)

median == /\ pc = "median_inside"
          /\ Loop(1, n - 1, Median3(input1[i - 1], input1[i], input1[i + 1]))
          /\ UNCHANGED <<test, j, pass, verdict>>

-----------------------------------------------------------------------------
(* sharpen: the border is copied, then every inner pixel is the weighted   *)
(* sum of its three by three neighbourhood, clamped to a byte.             *)
sharpen_filter == << <<0, -1, 0>>, <<-1, 5, -1>>, <<0, -1, 0>> >>

Clamp(sum) == IF sum > 255 THEN 255 ELSE IF sum >= 0 THEN sum ELSE 0

Weighted(x, y, k, l) == Cut(input1[<<x + k - 2, y + l - 2>>] * sharpen_filter[k][l])
RowSum(x, y, k) == Weighted(x, y, k, 1) + Weighted(x, y, k, 2) + Weighted(x, y, k, 3)
Convolved(x, y) == Clamp(RowSum(x, y, 1) + RowSum(x, y, 2) + RowSum(x, y, 3))

Border(k) == {<<0, k>>, <<n - 1, k>>, <<k, 0>>, <<k, n - 1>>}

sharpen_border ==
    /\ pc = "sharpen"
    /\ IF i < n
       THEN /\ results' = [p \in DOMAIN results |-> IF p \in Border(i) THEN input1[p] ELSE results[p]]
            /\ i' = i + 1 /\ UNCHANGED <<pc, j>>
       ELSE pc' = "sharpen_inside" /\ i' = 1 /\ j' = 1 /\ UNCHANGED results
    /\ UNCHANGED <<test, pass, verdict>>

(* main calls sharpen as often as the image has rows, with the same input. *)
sharpen_inside ==
    /\ pc = "sharpen_inside"
    /\ IF i < n - 1
       THEN /\ results' = [results EXCEPT ![<<i, j>>] = Convolved(i, j)]
            /\ i' = IF j = n - 2 THEN i + 1 ELSE i
            /\ j' = IF j = n - 2 THEN 1 ELSE j + 1
            /\ UNCHANGED <<pc, pass>>
       ELSE /\ pass' = pass + 1 /\ i' = 0
            /\ pc' = IF pass' < n THEN "sharpen" ELSE "verify"
            /\ UNCHANGED <<results, j>>
    /\ UNCHANGED <<test, verdict>>

-----------------------------------------------------------------------------
(* The results are compared one by one, row by row, up to the first        *)
(* difference.                                                             *)
Place(k) == IF test.program = "sharpen" THEN <<k \div n, k % n>> ELSE k

(* Mutant: the last element is not compared.                               *)
MutLeftToCompare == i < Cardinality(DOMAIN results) - 1

LeftToCompare == i < Cardinality(DOMAIN results)

verify ==
    /\ pc = "verify"
    /\ IF ~LeftToCompare THEN verdict' = 1 /\ pc' = "done" /\ UNCHANGED i
       ELSE IF results[Place(i)] # test.verify_data[Place(i)]
       THEN verdict' = 0 /\ pc' = "done" /\ UNCHANGED i
       ELSE i' = i + 1 /\ UNCHANGED <<verdict, pc>>
    /\ UNCHANGED <<test, results, j, pass>>

Next == vvadd \/ multiply_main \/ median_ends \/ median \/ sharpen_border \/ sharpen_inside \/ verify

Spec == Init /\ [][Next]_vars /\ WF_vars(Next)

-----------------------------------------------------------------------------
(* What the programs should compute, said without their loops: the median  *)
(* of three is the one that two others do not exceed and two do not fall   *)
(* below; sharpening adds to a pixel what it differs from its neighbours.  *)
IsMedian(m, A, B, C) ==
    /\ m \in {A, B, C}
    /\ (A >= m /\ B >= m) \/ (A >= m /\ C >= m) \/ (B >= m /\ C >= m)
    /\ (A <= m /\ B <= m) \/ (A <= m /\ C <= m) \/ (B <= m /\ C <= m)

Sharpened(f, x, y) ==
    LET c == f[<<x, y>>]
        s == c + (c - f[<<x - 1, y>>]) + (c - f[<<x + 1, y>>])
               + (c - f[<<x, y - 1>>]) + (c - f[<<x, y + 1>>])
    IN  Min({255, Max({0, s})})

Right(k) ==
    LET r == results[k] IN
    CASE test.program = "vvadd"    -> (r - input1[k] - input2[k]) % (2 * Half) = 0
      [] test.program = "multiply" -> (r - input1[k] * input2[k]) % (2 * Half) = 0
      [] test.program = "median"   ->
           IF k \in {0, n - 1} THEN r = 0 ELSE IsMedian(r, input1[k - 1], input1[k], input1[k + 1])
      [] test.program = "sharpen"  ->
           r = IF \E z \in {0, n - 1} : z \in {k[1], k[2]} THEN input1[k] ELSE Sharpened(input1, k[1], k[2])

(* When a program compares, every element has been computed, and right.    *)
ResultsRight == pc = "verify" => \A k \in DOMAIN results : Right(k)

(* "Verify = ok" is printed exactly when all data agree.                   *)
VerdictRight == pc = "done" => (verdict = 1 <=> results = test.verify_data)

(* Every program ends.                                                     *)
Terminates == <>(pc = "done")
=============================================================================
