----------------------------- MODULE QuickSort -----------------------------
(***************************************************************************)
(* qsort_main.c: quicksort with an explicit stack and insertion sort of    *)
(* small segments.  Array indices are the source's: a segment is l .. ir   *)
(* counted from 1, arr[k - 1] is its k-th element.                         *)
(***************************************************************************)
EXTENDS Integers, Sequences, FiniteSets, Functions

CONSTANTS
    Inputs,               \* arrays to be sorted: functions from 0 .. n - 1
    INSERTION_THRESHOLD,
    NSTACK

(* The data are integers, at least one.  A partitioning needs three.       *)
ASSUME SortAssumption ==
    /\ \A f \in Inputs : LET n == Cardinality(DOMAIN f)
                         IN  n \in Nat \ {0} /\ f \in [0 .. n - 1 -> Int]
    /\ INSERTION_THRESHOLD \in Nat /\ INSERTION_THRESHOLD >= 2
    /\ NSTACK \in Nat

VARIABLES
    pc,
    input_data, arr,
    l, ir, i, j, a,       \* the segment, the scans, the partitioning element
    jstack, istack,
    verdict

vars == <<pc, input_data, arr, l, ir, i, j, a, jstack, istack, verdict>>
scanVars == <<l, ir, jstack, istack, input_data, verdict>>

DATA_SIZE == Cardinality(DOMAIN input_data)

(* Mutant: the value that makes room is lost.                              *)
MutSwap(f, x, y) == [f EXCEPT ![x] = f[y]]

Swap(f, x, y) == [f EXCEPT ![x] = f[y], ![y] = f[x]]

(* A read past either end of the array gives anything.                     *)
Garbage == -1
At(k) == IF k - 1 \in DOMAIN arr THEN arr[k - 1] ELSE Garbage

Init ==
    /\ input_data \in Inputs /\ arr = input_data
    /\ pc = "segment" /\ l = 1 /\ ir = DATA_SIZE
    /\ i = 0 /\ j = 0 /\ a = 0
    /\ jstack = 0 /\ istack = [k \in 0 .. NSTACK - 1 |-> 0]
    /\ verdict = 0

-----------------------------------------------------------------------------
Small == ir - l < INSERTION_THRESHOLD

(* The element a moves left past the greater ones of its segment, from     *)
(* index j - 1 to index i.                                                 *)
Inserted(f, from) ==
    LET x == f[from - 1]
        to == CHOOSE k \in l - 1 .. from - 1 :
                /\ k = l - 1 \/ f[k - 1] <= x
                /\ \A m \in k .. from - 2 : f[m] > x
    IN  [m \in DOMAIN f |-> CASE m = to -> x
                              [] to < m /\ m <= from - 1 -> f[m - 1]
                              [] OTHER -> f[m]]

StartInsertion ==
    /\ pc = "segment" /\ Small
    /\ pc' = "insert" /\ j' = l + 1
    /\ UNCHANGED <<arr, i, a, scanVars>>

Insert ==
    /\ pc = "insert" /\ j <= ir
    /\ arr' = Inserted(arr, j) /\ j' = j + 1
    /\ UNCHANGED <<pc, i, a, scanVars>>

(* The segment is done: take the next from the stack.                      *)
Pop ==
    /\ pc = "insert" /\ j > ir /\ jstack # 0
    /\ ir' = istack[jstack] /\ l' = istack[jstack - 1] /\ jstack' = jstack - 2
    /\ pc' = "segment"
    /\ UNCHANGED <<input_data, arr, i, j, a, istack, verdict>>

(* The file of the input has the sorted data too: verify_data.             *)
verify_data ==
    [k \in DOMAIN input_data |->
       CHOOSE v \in Range(input_data) :
          /\ Cardinality({m \in DOMAIN input_data : input_data[m] < v}) <= k
          /\ k < Cardinality({m \in DOMAIN input_data : input_data[m] <= v})]

verify(test, correct) == IF test = correct THEN 1 ELSE 0

main ==
    /\ pc = "insert" /\ j > ir /\ jstack = 0
    /\ verdict' = verify(arr, verify_data) /\ pc' = "done"
    /\ UNCHANGED <<input_data, arr, l, ir, i, j, a, jstack, istack>>

-----------------------------------------------------------------------------
OrderedSwap(f, x, y) == IF f[x] > f[y] THEN Swap(f, x, y) ELSE f

(* Mutant: the middle is not compared with the right end.                  *)
MutMedianOfThreeTwo(f) ==
    LET k == (l + ir) \div 2
        f1 == OrderedSwap(Swap(f, k - 1, l), l - 1, ir - 1)
    IN  OrderedSwap(f1, l - 1, l)

(* Median of the left, the middle and the right element, moved to index l, *)
(* with the smallest before it and the largest at the end.                 *)
MedianOfThree(f) ==
    LET k == (l + ir) \div 2
        f1 == OrderedSwap(Swap(f, k - 1, l), l - 1, ir - 1)
    IN  OrderedSwap(OrderedSwap(f1, l, ir - 1), l - 1, l)

StartPartition ==
    /\ pc = "segment" /\ ~Small
    /\ arr' = MedianOfThree(arr) /\ a' = arr'[l]
    /\ i' = l + 1 /\ j' = ir /\ pc' = "scan_up"
    /\ UNCHANGED scanVars

ScanUp ==
    /\ pc = "scan_up"
    /\ i' = i + 1
    /\ pc' = IF At(i') < a THEN "scan_up" ELSE "scan_down"
    /\ UNCHANGED <<arr, j, a, scanVars>>

(* Mutant: the exchange also happens when the pointers have crossed.       *)
MutCrossedLate == j + 1 < i

Crossed == j < i

ScanDown ==
    /\ pc = "scan_down"
    /\ j' = j - 1
    /\ pc' = IF At(j') > a THEN "scan_down" ELSE "met"
    /\ UNCHANGED <<arr, i, a, scanVars>>

Exchange ==
    /\ pc = "met" /\ ~Crossed
    /\ arr' = Swap(arr, i - 1, j - 1) /\ pc' = "scan_up"
    /\ UNCHANGED <<i, j, a, scanVars>>

(* Mutant: the smaller side is pushed.                                     *)
MutRightLarger == ir - i + 1 < j - l

RightLarger == ir - i + 1 >= j - l

(* The partitioning element goes to its place, the larger side to the      *)
(* stack.                                                                  *)
Push ==
    /\ pc = "met" /\ Crossed
    /\ arr' = [arr EXCEPT ![l] = arr[j - 1], ![j - 1] = a]
    /\ jstack' = jstack + 2
    /\ istack' = [istack EXCEPT ![jstack + 2] = IF RightLarger THEN ir ELSE j - 1,
                                ![jstack + 1] = IF RightLarger THEN i ELSE l]
    /\ ir' = IF RightLarger THEN j - 1 ELSE ir
    /\ l' = IF RightLarger THEN l ELSE i
    /\ pc' = "segment"
    /\ UNCHANGED <<input_data, i, j, a, verdict>>

Next == \/ StartInsertion \/ Insert \/ Pop \/ main
        \/ StartPartition \/ ScanUp \/ ScanDown \/ Exchange \/ Push

Spec == Init /\ [][Next]_vars /\ WF_vars(Next)

-----------------------------------------------------------------------------
(* The segments still to be sorted: the current one and those of the stack.*)
Pending == {<<l, ir>>} \cup {<<istack[2 * k - 1], istack[2 * k]>> : k \in 1 .. jstack \div 2}

(* What does not lie in one pending segment is in order already: each      *)
(* partitioning puts everything on its side, segments never overlap, and   *)
(* no side is forgotten.                                                   *)
OutsideInOrder ==
    pc = "segment" =>
      \A x, y \in 1 .. DATA_SIZE :
         x < y => \/ arr[x - 1] <= arr[y - 1]
                  \/ \E s \in Pending : s[1] <= x /\ y <= s[2]

(* The scans have no test for the end of the segment: the median left      *)
(* sentinels on both sides, and every exchange leaves new ones.            *)
ScansStop ==
    /\ pc \in {"scan_up", "scan_down", "met"} => i <= ir
    /\ pc \in {"scan_down", "met"} => l < j

(* The stack holds the pending segments, whatever the input: two words for *)
(* every halving of the data (and none at index 0).                        *)
StackSuffices == jstack < NSTACK

(* At the end the data are in order, nothing is lost or doubled, and main  *)
(* prints so.                                                              *)
Sorted ==
    pc = "done" =>
      /\ verdict = 1
      /\ \A k \in DOMAIN arr : k - 1 \in DOMAIN arr => arr[k - 1] <= arr[k]
      /\ \A v \in Range(input_data) \cup Range(arr) :
            Cardinality({k \in DOMAIN arr : arr[k] = v})
              = Cardinality({k \in DOMAIN input_data : input_data[k] = v})
=============================================================================
