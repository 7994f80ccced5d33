------------------------------- MODULE FIFO2 -------------------------------
(***************************************************************************)
(* The two-slot FIFO of verilog/FIFO2.v, the only buffer between the       *)
(* modules of the SoC.  A word is the set of its bits that are 1, so the   *)
(* AND-OR multiplexer in front of data0_reg is a union, and a selector     *)
(* that picks two sources, or none, corrupts the word as it would in the   *)
(* circuit.  empty_reg and full_reg are active low, as in the source: TRUE *)
(* means "not empty" and "not full".                                       *)
(***************************************************************************)
EXTENDS Naturals, Sequences

CONSTANTS Bit,      \* the bit positions of a word
          PowerUp,  \* what the initial block puts in the data registers
          guarded   \* the module's parameter: no ENQ to a full FIFO, even with DEQ

ASSUME FIFO2Assumption == PowerUp \in SUBSET Bit /\ guarded \in BOOLEAN

Word == SUBSET Bit

VARIABLES empty_reg, full_reg, data0_reg, data1_reg,
          ports    \* history: CLR, ENQ, DEQ and D_IN of the last edge

vars == <<empty_reg, full_reg, data0_reg, data1_reg, ports>>

Ports(CLR, ENQ, DEQ, D_IN) == [CLR |-> CLR, ENQ |-> ENQ, DEQ |-> DEQ, D_IN |-> D_IN]

Init == /\ empty_reg = FALSE
        /\ full_reg = TRUE
        /\ data0_reg = PowerUp
        /\ data1_reg = PowerUp
        /\ ports = Ports(FALSE, FALSE, FALSE, PowerUp)

(* Mutant: the input is not loaded when the only word leaves.              *)
MutD0diNoExchange(ENQ, DEQ) == ENQ /\ ~empty_reg

(* The four selectors of the load logic. *)
d0di(ENQ, DEQ) == (ENQ /\ ~empty_reg) \/ (ENQ /\ DEQ /\ full_reg)
d0d1(DEQ) == DEQ /\ ~full_reg
d0h(ENQ, DEQ) == \/ ~DEQ /\ ~ENQ
                 \/ ~DEQ /\ empty_reg
                 \/ ~ENQ /\ full_reg
d1di(ENQ) == ENQ /\ empty_reg

Masked(select, word) == IF select THEN word ELSE {}

(* Mutant: a clear forgets the "not full" flag.                            *)
MutFlagsClear(CLR, ENQ, DEQ) ==
    \/ CLR /\ empty_reg' = FALSE /\ UNCHANGED full_reg
    \/ ~CLR /\ ENQ /\ ~DEQ /\ empty_reg' = TRUE /\ full_reg' = ~empty_reg
    \/ ~CLR /\ DEQ /\ ~ENQ /\ full_reg' = TRUE /\ empty_reg' = ~full_reg
    \/ ~CLR /\ (ENQ <=> DEQ) /\ UNCHANGED <<empty_reg, full_reg>>

(* The flags after an edge. *)
Flags(CLR, ENQ, DEQ) ==
    \/ CLR /\ empty_reg' = FALSE /\ full_reg' = TRUE
    \/ ~CLR /\ ENQ /\ ~DEQ /\ empty_reg' = TRUE /\ full_reg' = ~empty_reg
    \/ ~CLR /\ DEQ /\ ~ENQ /\ full_reg' = TRUE /\ empty_reg' = ~full_reg
    \/ ~CLR /\ (ENQ <=> DEQ) /\ UNCHANGED <<empty_reg, full_reg>>

(* The error checks at the end of the file: what a caller must not do. *)
DeqError(DEQ) == ~empty_reg /\ DEQ
EnqError(ENQ, DEQ) == ~full_reg /\ ENQ /\ (~DEQ \/ guarded)

(* One rising clock edge. *)
Edge(CLR, ENQ, DEQ, D_IN) ==
    /\ ~DeqError(DEQ)
    /\ ~EnqError(ENQ, DEQ)
    /\ Flags(CLR, ENQ, DEQ)
    /\ data0_reg' = Masked(d0di(ENQ, DEQ), D_IN)
                       \cup Masked(d0d1(DEQ), data1_reg)
                       \cup Masked(d0h(ENQ, DEQ), data0_reg)
    /\ data1_reg' = IF d1di(ENQ) THEN D_IN ELSE data1_reg
    /\ ports' = Ports(CLR, ENQ, DEQ, D_IN)

Next == \E CLR, ENQ, DEQ \in BOOLEAN, D_IN \in Word : Edge(CLR, ENQ, DEQ, D_IN)

Spec == Init /\ [][Next]_vars

-----------------------------------------------------------------------------
(* Both registers hold words, and the flags never say "empty" and "full"   *)
(* at once.                                                                 *)
TypeOK == /\ empty_reg \in BOOLEAN /\ full_reg \in BOOLEAN
          /\ data0_reg \in Word /\ data1_reg \in Word
          /\ empty_reg \/ full_reg

(* The queue the registers stand for: D_OUT (data0_reg) is its head. *)
Contents == IF ~empty_reg THEN << >>
            ELSE IF full_reg THEN <<data0_reg>>
            ELSE <<data0_reg, data1_reg>>

Fifo == INSTANCE BoundedFifo WITH Msg <- Word, Capacity <- 2, q <- Contents

(* Under callers that respect the error checks, the flags and the AND-OR   *)
(* load logic together behave as a queue of two words: no word that was    *)
(* put in is lost, duplicated, reordered or merged with another, also when *)
(* both ports fire at once.                                                *)
IsFifo == Fifo!Spec
=============================================================================
