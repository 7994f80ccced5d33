------------------------------- MODULE Hanoi -------------------------------
(***************************************************************************)
(* The puzzle that towers_main.c describes in its first lines: discs of    *)
(* different sizes on three pegs, moved one at a time, never a larger on a *)
(* smaller one.  A peg is the sequence of its discs, the top one first.    *)
(***************************************************************************)
EXTENDS Naturals, Sequences

CONSTANT Discs      \* how many

VARIABLE on         \* the discs on each peg

Pegs == {"A", "B", "C"}

Init == on = [p \in Pegs |-> IF p = "A" THEN [d \in 1 .. Discs |-> d] ELSE << >>]

Move(p, q) ==
    /\ on[p] # << >>
    /\ on[q] # << >> => Head(on[p]) < Head(on[q])
    /\ on' = [on EXCEPT ![p] = Tail(on[p]), ![q] = <<Head(on[p])>> \o on[q]]

Next == \E p \in Pegs : \E q \in Pegs \ {p} : Move(p, q)

Spec == Init /\ [][Next]_on
=============================================================================
