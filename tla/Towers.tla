------------------------------- MODULE Towers -------------------------------
(***************************************************************************)
(* towers_main.c: the towers of Hanoi on linked lists.  The three pegs and *)
(* a free list share one pool of nodes; a node is its number and NIL is    *)
(* the null pointer.  The calls of the recursive towers_solve_h are a      *)
(* stack of frames.                                                        *)
(***************************************************************************)
EXTENDS Naturals, Sequences, SequencesExt

CONSTANT NUM_DISCS

VARIABLES
    pc,
    g_nodePool, g_nodeFreeList,    \* the nodes; the head of the free list
    pegs,                          \* pegA, pegB and pegC: [size, head]
    numMoves,
    i,                             \* of towers_init: discs pushed
    cleared,                       \* towers_clear has been called
    frames,                        \* calls of towers_solve_h, the last one first
    val,                           \* of towers_solve_h: the disc in hand, or 0
    verdict                        \* of towers_verify

vars == <<pc, g_nodePool, g_nodeFreeList, pegs, numMoves, i, cleared, frames, val, verdict>>

NIL == 0
Nodes == 1 .. NUM_DISCS
Pegs == {"A", "B", "C"}

list_init == [size |-> 0, head |-> NIL]

list_push(p, v) ==
    /\ g_nodeFreeList' = g_nodePool[g_nodeFreeList].next
    /\ g_nodePool' = [g_nodePool EXCEPT ![g_nodeFreeList] = [val |-> v, next |-> pegs[p].head]]
    /\ pegs' = [pegs EXCEPT ![p] = [size |-> @.size + 1, head |-> g_nodeFreeList]]

(* Mutant: the freed node keeps its link into the peg.                     *)
MutListPopNoLink(p) ==
    LET freedNode == pegs[p].head IN
    /\ g_nodePool' = g_nodePool
    /\ g_nodeFreeList' = freedNode
    /\ pegs' = [pegs EXCEPT ![p] = [size |-> @.size - 1, head |-> g_nodePool[freedNode].next]]

list_pop(p) ==
    LET freedNode == pegs[p].head IN
    /\ g_nodePool' = [g_nodePool EXCEPT ![freedNode].next = g_nodeFreeList]
    /\ g_nodeFreeList' = freedNode
    /\ pegs' = [pegs EXCEPT ![p] = [size |-> @.size - 1, head |-> g_nodePool[freedNode].next]]

Top(p) == g_nodePool[pegs[p].head].val

(* The nodes reached from a head: at most one more than there are.         *)
Chain(head) ==
    LET at[k \in 1 .. NUM_DISCS + 1] ==
            IF k = 1 THEN head ELSE IF at[k - 1] = NIL THEN NIL ELSE g_nodePool[at[k - 1]].next
    IN  [k \in {m \in 1 .. NUM_DISCS + 1 : at[m] # NIL} |-> at[k]]

Values(p) == [k \in DOMAIN Chain(pegs[p].head) |-> g_nodePool[Chain(pegs[p].head)[k]].val]

-----------------------------------------------------------------------------
(* main's loop links the pool into the free list.                          *)
Init ==
    /\ pc = "towers_init"
    /\ g_nodePool = [n \in Nodes |-> IF n < NUM_DISCS THEN [val |-> n - 1, next |-> n + 1]
                                     ELSE [val |-> 99, next |-> NIL]]
    /\ g_nodeFreeList = 1
    /\ pegs = [p \in Pegs |-> list_init] /\ numMoves = 0
    /\ i = 0 /\ cleared = FALSE /\ frames = << >> /\ val = 0 /\ verdict = 0

Frame(n, startPeg, tempPeg, destPeg) ==
    [n |-> n, startPeg |-> startPeg, tempPeg |-> tempPeg, destPeg |-> destPeg, called |-> 0]

towers_init ==
    /\ pc = "towers_init"
    /\ IF i < NUM_DISCS
       THEN list_push("A", NUM_DISCS - i) /\ i' = i + 1 /\ UNCHANGED <<pc, frames>>
       ELSE /\ pc' = IF cleared THEN "towers_solve_h" ELSE "towers_clear"
            /\ frames' = IF cleared THEN <<Frame(NUM_DISCS, "A", "B", "C")>> ELSE frames
            /\ UNCHANGED <<g_nodePool, g_nodeFreeList, pegs, i>>
    /\ UNCHANGED <<numMoves, cleared, val, verdict>>

(* One peg after the other is emptied and the discs are set up again.      *)
Empty(p) == pegs[p].size = 0

list_clear(p) == /\ p \in {"B", "C"} => Empty("A")
                 /\ p = "C" => Empty("B")
                 /\ pegs[p].size > 0 /\ list_pop(p)

towers_clear ==
    /\ pc = "towers_clear"
    /\ \/ /\ \E p \in Pegs : list_clear(p)
          /\ UNCHANGED <<pc, numMoves, i, cleared>>
       \/ /\ \A p \in Pegs : Empty(p)
          /\ pegs' = [p \in Pegs |-> list_init] /\ numMoves' = 0 /\ i' = 0
          /\ cleared' = TRUE /\ pc' = "towers_init"
          /\ UNCHANGED <<g_nodePool, g_nodeFreeList>>
    /\ UNCHANGED <<frames, val, verdict>>

(* A call for one disc: the pop, then the push and the return.             *)
this == Head(frames)
Solving == pc = "towers_solve_h" /\ frames # << >>

TakeDisc ==
    /\ Solving /\ this.n = 1 /\ val = 0
    /\ val' = Top(this.startPeg) /\ list_pop(this.startPeg)
    /\ UNCHANGED <<pc, numMoves, i, cleared, frames, verdict>>

PutDisc ==
    /\ Solving /\ val # 0
    /\ list_push(this.destPeg, val) /\ val' = 0
    /\ numMoves' = numMoves + 1 /\ frames' = Tail(frames)
    /\ UNCHANGED <<pc, i, cleared, verdict>>

(* Mutant: the first call moves the tower where the large disc must go.    *)
MutCallFirst(f) ==
    CASE f.called = 0 -> Frame(f.n - 1, f.startPeg, f.tempPeg, f.destPeg)
      [] f.called = 1 -> Frame(1, f.startPeg, f.tempPeg, f.destPeg)
      [] OTHER        -> Frame(f.n - 1, f.tempPeg, f.startPeg, f.destPeg)

(* The three calls a call for more discs makes, with their arguments.      *)
Call(f) ==
    CASE f.called = 0 -> Frame(f.n - 1, f.startPeg, f.destPeg, f.tempPeg)
      [] f.called = 1 -> Frame(1, f.startPeg, f.tempPeg, f.destPeg)
      [] OTHER        -> Frame(f.n - 1, f.tempPeg, f.startPeg, f.destPeg)

(* Mutant: the third call is left out.                                     *)
MutReturnsTwo(f) == f.called = 2

Returns(f) == f.called = 3

Recurse ==
    /\ Solving /\ this.n > 1
    /\ frames' = IF Returns(this) THEN Tail(frames)
                 ELSE <<Call(this), [this EXCEPT !.called = @ + 1]>> \o Tail(frames)
    /\ UNCHANGED <<pc, g_nodePool, g_nodeFreeList, pegs, numMoves, i, cleared, val, verdict>>

towers_verify ==
    IF pegs["A"].size # 0 THEN 2
    ELSE IF pegs["B"].size # 0 THEN 3
    ELSE IF pegs["C"].size # NUM_DISCS THEN 4
    ELSE IF \E k \in DOMAIN Values("C") : Values("C")[k] # k THEN 5
    ELSE IF numMoves # 2 ^ NUM_DISCS - 1 THEN 6
    ELSE 1

(* main prints "Verify = ok" whenever the verdict is not 0.                *)
main == /\ pc = "towers_solve_h" /\ frames = << >>
        /\ verdict' = towers_verify /\ pc' = "done"
        /\ UNCHANGED <<g_nodePool, g_nodeFreeList, pegs, numMoves, i, cleared, frames, val>>

Next == towers_init \/ towers_clear \/ TakeDisc \/ PutDisc \/ Recurse \/ main

Spec == Init /\ [][Next]_vars /\ WF_vars(Next)

-----------------------------------------------------------------------------
(* Every node is on one peg or on the free list, once, every chain ends,   *)
(* and a peg's size is the length of its chain.  So a push finds a free    *)
(* node, although the pool has no more nodes than there are discs.         *)
NodesConserved ==
    LET all == Chain(pegs["A"].head) \o Chain(pegs["B"].head) \o Chain(pegs["C"].head)
                 \o Chain(g_nodeFreeList)
    IN  /\ Len(all) = NUM_DISCS /\ ToSet(all) = Nodes
        /\ \A p \in Pegs : pegs[p].size = Len(Chain(pegs[p].head))

(* The moves are moves of the puzzle: the disc in hand is still on its peg.*)
OnPegs ==
    [p \in Pegs |->
        IF pc \in {"towers_init", "towers_clear"}
        THEN IF p = "A" THEN [d \in 1 .. NUM_DISCS |-> d] ELSE << >>
        ELSE IF val # 0 /\ p = this.startPeg THEN <<val>> \o Values(p) ELSE Values(p)]

Puzzle == INSTANCE Hanoi WITH Discs <- NUM_DISCS, on <- OnPegs

PlaysHanoi == Puzzle!Spec

(* The puzzle is solved, in the fewest moves: towers_verify returns 1, and *)
(* none of the other codes that main takes for success as well.            *)
Solved == pc = "done" => verdict = 1
=============================================================================
