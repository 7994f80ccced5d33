----------------------------- MODULE HostMemory -----------------------------
(***************************************************************************)
(* A client of C_mem_model.c: it makes a memory and writes to it, at any   *)
(* address and with any number of bytes.  contents is what the client may  *)
(* expect to read.                                                         *)
(***************************************************************************)
EXTENDS MemModel

CONSTANTS mem_size,    \* asked of c_mem_init, at base address 0
          Addrs, Sizes,
          MaxWrites    \* bound on the writes

VARIABLES p_mem_model, contents, writes

vars == <<p_mem_model, contents, writes>>

Init == /\ p_mem_model = c_mem_init(0, mem_size)
        /\ contents = p_mem_model.memp
        /\ writes = 0

Inside(addr, n) == \A a \in addr .. addr + n - 1 : a \in DOMAIN contents

Write(addr, n) ==
    LET x == [k \in 1 .. n |-> <<writes + 1, k>>] IN
    /\ writes < MaxWrites /\ writes' = writes + 1
    /\ p_mem_model' = c_mem_write(p_mem_model, addr, x, n)
    /\ contents' = IF Inside(addr, n) /\ n \in Widths THEN Overwritten(contents, addr, x)
                   ELSE contents

Next == \E addr \in Addrs : \E n \in Sizes : Write(addr, n)

Spec == Init /\ [][Next]_vars

-----------------------------------------------------------------------------
(* Every read of a size the functions allow returns what was last written  *)
(* to each of its bytes, up to the last byte of the rounded-up memory; a   *)
(* read that reaches beyond is refused, and ends the program if it was     *)
(* made through c_mem_read8, 16 or 32.                                     *)
Exact(result, addr, n, refused) ==
    result = IF Inside(addr, n) THEN [k \in 1 .. n |-> contents[addr + k - 1]] ELSE refused

ReadsBack ==
    \A addr \in Addrs :
       /\ \A n \in Sizes : IF n \in Widths THEN Exact(c_mem_read(p_mem_model, addr, n), addr, n, FAILED)
                           ELSE c_mem_read(p_mem_model, addr, n) = FAILED
       /\ Exact(c_mem_read8(p_mem_model, addr), addr, 1, EXIT)
       /\ Exact(c_mem_read16(p_mem_model, addr), addr, 2, EXIT)
       /\ Exact(c_mem_read32(p_mem_model, addr), addr, 4, EXIT)
=============================================================================
