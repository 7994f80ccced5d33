---------------------------- MODULE BoundedFifo ----------------------------
(***************************************************************************)
(* What a hardware FIFO promises to the rules that use it: a sequence of   *)
(* at most Capacity messages.  In one clock edge it may be cleared, take a *)
(* message, give one, or do both at once, as its ports say.                *)
(***************************************************************************)
EXTENDS Naturals, Sequences

CONSTANTS Msg,        \* what can be enqueued
          Capacity    \* number of slots

VARIABLES q,          \* the messages held, oldest first
          ports       \* what was asked at the last edge

fifoVars == <<q, ports>>

Init == q = << >>

Enqueue(p) == p.ENQ /\ ~p.DEQ /\ Len(q) < Capacity /\ q' = Append(q, p.D_IN)

Dequeue(p) == p.DEQ /\ ~p.ENQ /\ q # << >> /\ q' = Tail(q)

(* Both ports in the same cycle: legal even on a full queue. *)
Exchange(p) == p.ENQ /\ p.DEQ /\ q # << >> /\ q' = Append(Tail(q), p.D_IN)

Hold(p) == ~p.ENQ /\ ~p.DEQ /\ UNCHANGED q

Edge(p) ==
    /\ ports' = p
    /\ \/ p.CLR /\ q' = << >>
       \/ ~p.CLR /\ (Enqueue(p) \/ Dequeue(p) \/ Exchange(p) \/ Hold(p))

Next == \E CLR, ENQ, DEQ \in BOOLEAN, D_IN \in Msg :
            Edge([CLR |-> CLR, ENQ |-> ENQ, DEQ |-> DEQ, D_IN |-> D_IN])

Spec == Init /\ [][Next]_fifoVars
=============================================================================
