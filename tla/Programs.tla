------------------------------ MODULE Programs ------------------------------
(***************************************************************************)
(* The C programs and the client of the host's memory, and what each of    *)
(* them promises.  program says which of them runs.  The variables of      *)
(* QuickSort are those of its module; SoftArith and Kernels use its        *)
(* program counter and its indices.                                        *)
(***************************************************************************)
EXTENDS QuickSort

CONSTANTS
    NUM_DISCS,                                     \* of Towers
    ArithBits, Args,                               \* of SoftArith
    KernelBits, Tests,                             \* of Kernels
    AddrMod, Window, mem_size, Addrs, Sizes, MaxWrites    \* of HostMemory

VARIABLES
    program,
    towers_pc, g_nodePool, g_nodeFreeList, pegs, numMoves, pushed, cleared, frames, val,
    towers_verdict,                                \* Towers
    args, arith_x, arith_y, y2, tmp, result,       \* SoftArith
    test, results, pass,                           \* Kernels
    p_mem_model, contents, writes                  \* HostMemory

T == INSTANCE Towers WITH pc <- towers_pc, i <- pushed, verdict <- towers_verdict
Arith == INSTANCE SoftArith WITH BITS <- ArithBits, x <- arith_x, y <- arith_y
Kernel == INSTANCE Kernels WITH BITS <- KernelBits
Host == INSTANCE HostMemory

-----------------------------------------------------------------------------
(* towers keeps every node of its pool on one chain, and a peg's size is   *)
(* the length of its list.                                                 *)
NodesConserved == T!NodesConserved

(* The moves of towers are moves of the puzzle.                            *)
PlaysHanoi == T!PlaysHanoi

(* The loop of multiply has after each round the product of the bits of x  *)
(* it has shifted out, cut to the width, for operands of any sign.         *)
PartialProduct == program = "arith" => Arith!PartialProduct

(* Each program computes what it is for, and says so truthfully.  towers   *)
(* has solved the puzzle; qsort has sorted its data and lost none; multiply*)
(* returns the low bits of the product, as MUL does, and divide a quotient *)
(* that is rounded up; vvadd, multiply, median and the sharpening filter   *)
(* have every result right, and pass exactly if all are those expected.    *)
ResultsRight ==
    /\ program = "towers" => T!Solved
    /\ program = "qsort" => Sorted
    /\ program = "arith" => Arith!ResultRight
    /\ program = "kernels" => Kernel!ResultsRight /\ Kernel!VerdictRight

(* Whatever has been written to the host's memory (C_mem_model.c), in any  *)
(* size and at any address, is read back in any size; nothing else         *)
(* changes, and accesses out of its bounds are refused.                    *)
ReadsBack == program = "memory" => Host!ReadsBack
=============================================================================
