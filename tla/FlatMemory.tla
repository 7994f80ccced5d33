----------------------------- MODULE FlatMemory -----------------------------
(***************************************************************************)
(* What the memory controller promises: an array of words that serves one  *)
(* request at a time, all words of a line as they are at one moment.  A    *)
(* reset may spoil the line at address 0 and one other line.               *)
(***************************************************************************)
EXTENDS Sequences, Naturals, FiniteSetsExt

CONSTANTS MemLines, Off, Lane, Contents

VARIABLES mem,     \* line to word of the line to bytes
          out,     \* the words of the answer that have not been sent
          asked    \* a reset is wanted

vars == <<mem, out, asked>>

WordsOf(l) == [k \in 1 .. Cardinality(Off) |-> mem[l][k - 1]]

Read(l) == /\ \/ out' = WordsOf(l)
              \/ \E w \in Off : out' = <<mem[l][w]>>
           /\ UNCHANGED mem

(* A write changes some bytes of one word; it is answered by its address.  *)
Write(l, w) == /\ \E lanes \in SUBSET Lane :
                    \A k \in MemLines, v \in Off, b \in Lane :
                       <<k, v>> # <<l, w>> \/ b \notin lanes => mem'[k][v][b] = mem[k][v][b]
               /\ out' = <<<<l, w>>>>

Refuse(l, w) == out' = <<<<l, w>>>> /\ UNCHANGED mem

Serve == /\ out = << >> /\ out' # << >> /\ UNCHANGED asked
         /\ \E l \in MemLines : Read(l) \/ \E w \in Off : Write(l, w) \/ Refuse(l, w)

Send == out # << >> /\ out' = Tail(out) /\ UNCHANGED <<mem, asked>>

Ask == asked' = TRUE /\ UNCHANGED <<mem, out>>

Reset == /\ asked /\ asked' = FALSE /\ out' = << >>
         /\ \E l \in MemLines : \A k \in MemLines \ {0, l} : mem'[k] = mem[k]

Init == /\ \A l \in MemLines \ {0} : mem[l] = Contents[l]
        /\ out = << >> /\ asked = FALSE

Spec == Init /\ [][Serve \/ Send \/ Ask \/ Reset]_vars
=============================================================================
