----------------------------- MODULE MCPrograms -----------------------------
(***************************************************************************)
(* The programs of Programs.tla and IntOps, one at a time: the module of   *)
(* each gives its steps, and the variables of the others keep their first  *)
(* values.                                                                 *)
(***************************************************************************)
EXTENDS Programs

VARIABLES machine, printed                         \* IntOps

indices == <<i, j, verdict>>
quicksort == <<input_data, arr, l, ir, a, jstack, istack>>
towers == <<towers_pc, g_nodePool, g_nodeFreeList, pegs, numMoves, pushed, cleared, frames, val,
            towers_verdict>>
softarith == <<args, arith_x, arith_y, y2, tmp, result>>
kernels == <<test, results, pass>>
intops == <<machine, printed>>
hostmemory == <<p_mem_model, contents, writes>>

(* All arrays of up to six elements with three values, all of seven with   *)
(* two, all orders of six different ones and those of seven that begin     *)
(* with an end and a middle; with segments of two or less sorted by        *)
(* insertion, and a stack of twice the logarithm of eight.                 *)
McInputs == UNION {[0 .. k -> 1 .. 3] : k \in 1 .. 5} \cup [0 .. 6 -> 1 .. 2]
              \cup {f \in [0 .. 5 -> 1 .. 6] : IsInjective(f)}
              \cup {f \in [0 .. 6 -> 1 .. 7] : f[0] \in {1, 7} /\ f[1] = 4 /\ IsInjective(f)}

Half == 16
McArgs == [call : {"multiply"}, x : -Half .. Half - 1, y : -Half .. Half - 1]
            \cup [call : {"divide"}, x : -Half .. Half \div 2, y : 1 .. Half - 1]

W32 == 4
W64 == 8
Machines == {"none", "ADD", "SLT", "SLTU", "SRL", "SRA", "BNE", "BGEU"}

McAddrs == 0 .. 17

-----------------------------------------------------------------------------
(* The data of the benchmarks, each also with one wrong expected result.   *)
Cut(v) == ((v + 2048) % 4096) - 2048
Median(S) == CHOOSE m \in S : \E lo, hi \in S : lo <= m /\ m <= hi /\ S \subseteq {lo, m, hi}
SortedMedian(u, v, w) == IF u = v \/ u = w THEN u ELSE IF v = w THEN v ELSE Median({u, v, w})

Expected(p, f, g) ==
    [k \in DOMAIN f |->
       CASE p = "vvadd"    -> Cut(f[k] + g[k])
         [] p = "multiply" -> Cut(f[k] * g[k])
         [] p = "median"   -> IF k - 1 \in DOMAIN f /\ k + 1 \in DOMAIN f
                              THEN SortedMedian(f[k - 1], f[k], f[k + 1]) ELSE 0]

Pixels == (0 .. 3) \X (0 .. 3)
SharpenedImage(f) ==
    [p \in Pixels |->
       IF {0, 3} \cap {p[1], p[2]} # {} THEN f[p]
       ELSE LET s == 5 * f[p] - f[<<p[1] - 1, p[2]>>] - f[<<p[1] + 1, p[2]>>]
                              - f[<<p[1], p[2] - 1>>] - f[<<p[1], p[2] + 1>>]
            IN  IF s < 0 THEN 0 ELSE IF s > 255 THEN 255 ELSE s]

TestsOf(p, n, f, g, v) ==
    {[program |-> p, n |-> n, input1 |-> f, input2 |-> g, verify_data |-> w] :
        w \in {v} \cup {[v EXCEPT ![k] = @ + 1] : k \in DOMAIN v}}

Vectors == UNION {TestsOf(p, 3, f, g, Expected(p, f, g)) : p \in {"vvadd", "multiply"},
                     f \in [0 .. 2 -> {-3, 2047}], g \in [0 .. 2 -> {-2048, 5}]}
Medians == UNION {TestsOf("median", 5, f, << >>, Expected("median", f, << >>)) : f \in [0 .. 4 -> 1 .. 3]}
Spots == {{<<1, 1>>}, {<<1, 2>>, <<2, 1>>, <<3, 1>>}, {<<0, 3>>, <<1, 1>>, <<1, 2>>, <<3, 2>>}}
Images == {[p \in Pixels |-> IF p \in S THEN v ELSE c] : v \in {0, 60, 255}, c \in {0, 60, 255}, S \in Spots}
Sharpens == UNION {TestsOf("sharpen", 4, f, << >>, SharpenedImage(f)) : f \in Images}
McTests == Vectors \cup Medians \cup Sharpens

-----------------------------------------------------------------------------
I == INSTANCE IntOps WITH j <- i

IdleIndices == i = 0 /\ j = 0 /\ verdict = 0
IdleQ == input_data = 0 /\ arr = 0 /\ l = 0 /\ ir = 0 /\ a = 0 /\ jstack = 0 /\ istack = 0
IdleS == args = 0 /\ arith_x = 0 /\ arith_y = 0 /\ y2 = 0 /\ tmp = 0 /\ result = 0
IdleK == test = 0 /\ results = 0 /\ pass = 0
IdleI == machine = 0 /\ printed = 0
IdleH == p_mem_model = 0 /\ contents = 0 /\ writes = 0

Start ==
    /\ T!Init
    /\ \/ /\ program = "towers" /\ pc = "none"
          /\ IdleIndices /\ IdleQ /\ IdleS /\ IdleK /\ IdleI /\ IdleH
       \/ program = "qsort" /\ Init /\ IdleS /\ IdleK /\ IdleI /\ IdleH
       \/ program = "arith" /\ Arith!Init /\ j = 0 /\ verdict = 0 /\ IdleQ /\ IdleK /\ IdleI /\ IdleH
       \/ program = "kernels" /\ Kernel!Init /\ IdleQ /\ IdleS /\ IdleI /\ IdleH
       \/ program = "intOpsTest" /\ I!Init /\ j = 0 /\ verdict = 0 /\ IdleQ /\ IdleS /\ IdleK /\ IdleH
       \/ /\ program = "memory" /\ Host!Init /\ pc = "done"
          /\ IdleIndices /\ IdleQ /\ IdleS /\ IdleK /\ IdleI

Step ==
    /\ \/ /\ program = "towers" /\ T!Next
          /\ UNCHANGED <<pc, indices, quicksort, softarith, kernels, intops, hostmemory>>
       \/ /\ program = "qsort" /\ Next
          /\ UNCHANGED <<towers, softarith, kernels, intops, hostmemory>>
       \/ /\ program = "arith" /\ Arith!Next
          /\ UNCHANGED <<towers, j, verdict, quicksort, kernels, intops, hostmemory>>
       \/ /\ program = "kernels" /\ Kernel!Next
          /\ UNCHANGED <<towers, quicksort, softarith, intops, hostmemory>>
       \/ /\ program = "intOpsTest" /\ I!Next
          /\ UNCHANGED <<towers, j, verdict, quicksort, softarith, kernels, hostmemory>>
       \/ /\ program = "memory" /\ Host!Next
          /\ UNCHANGED <<towers, pc, indices, quicksort, softarith, kernels, intops>>
    /\ UNCHANGED program

Programs ==
    Start /\ [][Step]_<<program, towers, pc, indices, quicksort, softarith, kernels, intops, hostmemory>>
          /\ WF_<<towers, pc, indices, quicksort, softarith, kernels, intops>>(Step)

-----------------------------------------------------------------------------
(* intOpsTest passes on a processor that computes right, and fails on one  *)
(* with a single wrong operation.                                          *)
TestsDecide == program = "intOpsTest" => I!TestsDecide

(* Every program ends (of SoftArith's divide: for the arguments above).    *)
Terminates == <>("done" \in {towers_pc, pc})
=============================================================================
