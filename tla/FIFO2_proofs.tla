---------------------------- MODULE FIFO2_proofs ----------------------------
(***************************************************************************)
(* For every width of the words, the two-slot FIFO keeps its flags apart   *)
(* and behaves as a queue of two.  TypeOK is inductive as it stands: that  *)
(* "empty" and "full" are never raised together is all the queue needs.    *)
(***************************************************************************)
EXTENDS FIFO2, TLAPS

(* The power-up values are in order.                                       *)
LEMMA InitType == Init => TypeOK
  BY FIFO2Assumption DEF Init, TypeOK, Word

(* No edge that respects the error checks breaks the registers or raises   *)
(* both flags.                                                             *)
LEMMA NextType == TypeOK /\ [Next]_vars => TypeOK'
<1> SUFFICES ASSUME TypeOK, [Next]_vars PROVE TypeOK'
  OBVIOUS
<1>1. CASE UNCHANGED vars
  BY <1>1 DEF vars, TypeOK
<1>2. CASE Next
  <2> PICK CLR \in BOOLEAN, ENQ \in BOOLEAN, DEQ \in BOOLEAN, D_IN \in Word :
           Edge(CLR, ENQ, DEQ, D_IN)
    BY <1>2 DEF Next
  <2>1. data0_reg' \in Word /\ data1_reg' \in Word
    BY DEF Edge, Masked, TypeOK, Word
  <2>2. /\ empty_reg' \in BOOLEAN /\ full_reg' \in BOOLEAN
        /\ empty_reg' \/ full_reg'
    <3>1. CASE CLR
      BY <3>1 DEF Edge, Flags
    <3>2. CASE ~CLR /\ ENQ /\ ~DEQ
      BY <3>2 DEF Edge, Flags, TypeOK
    <3>3. CASE ~CLR /\ DEQ /\ ~ENQ
      BY <3>3 DEF Edge, Flags, TypeOK
    <3>4. CASE ~CLR /\ (ENQ <=> DEQ)
      BY <3>4 DEF Edge, Flags, TypeOK
    <3> QED
      BY <3>1, <3>2, <3>3, <3>4
  <2> QED
    BY <2>1, <2>2 DEF TypeOK
<1> QED
  BY <1>1, <1>2 DEF vars

(* The flags of the FIFO are never "empty" and "full" at once.             *)
THEOREM TypeCorrect == Spec => []TypeOK
  BY InitType, NextType, PTL DEF Spec

(* The AND-OR multiplexer: exactly one source is selected, or the word of  *)
(* an empty FIFO, which nobody reads.                                      *)
LEMMA Selected ==
  ASSUME TypeOK,
         NEW CLR \in BOOLEAN, NEW ENQ \in BOOLEAN, NEW DEQ \in BOOLEAN, NEW D_IN \in Word,
         Edge(CLR, ENQ, DEQ, D_IN)
  PROVE  /\ ENQ /\ ~empty_reg => data0_reg' = D_IN
         /\ ENQ /\ DEQ /\ full_reg => data0_reg' = D_IN
         /\ DEQ /\ ~full_reg => data0_reg' = data1_reg
         /\ ~DEQ /\ empty_reg => data0_reg' = data0_reg
         /\ ENQ /\ empty_reg => data1_reg' = D_IN
         /\ ~ENQ => data1_reg' = data1_reg
<1>1. ENQ /\ ~empty_reg => data0_reg' = D_IN
  BY DEF Edge, DeqError, EnqError, Masked, d0di, d0d1, d0h, TypeOK, Word
<1>2. ENQ /\ DEQ /\ full_reg => data0_reg' = D_IN
  BY DEF Edge, DeqError, EnqError, Masked, d0di, d0d1, d0h, TypeOK, Word
<1>3. DEQ /\ ~full_reg => data0_reg' = data1_reg
  BY DEF Edge, DeqError, EnqError, Masked, d0di, d0d1, d0h, TypeOK, Word
<1>4. ~DEQ /\ empty_reg => data0_reg' = data0_reg
  BY DEF Edge, DeqError, EnqError, Masked, d0di, d0d1, d0h, TypeOK, Word
<1>5. /\ ENQ /\ empty_reg => data1_reg' = D_IN
      /\ ~ENQ => data1_reg' = data1_reg
  BY DEF Edge, d1di
<1> QED
  BY <1>1, <1>2, <1>3, <1>4, <1>5

(* An edge is the step of the queue that its ports ask for.                *)
LEMMA EdgeIsStep ==
  ASSUME TypeOK,
         NEW CLR \in BOOLEAN, NEW ENQ \in BOOLEAN, NEW DEQ \in BOOLEAN, NEW D_IN \in Word,
         Edge(CLR, ENQ, DEQ, D_IN)
  PROVE  Fifo!Next
<1> DEFINE p == Ports(CLR, ENQ, DEQ, D_IN)
<1> USE Selected
<1>p. p.CLR = CLR /\ p.ENQ = ENQ /\ p.DEQ = DEQ /\ p.D_IN = D_IN
  BY DEF Ports
<1>q. Fifo!Edge(p) => Fifo!Next
  BY DEF Fifo!Next, Ports
<1>r. ports' = p
  BY DEF Edge
<1> HIDE DEF p
<1>1. CASE CLR
  <2>1. Contents' = << >>
    BY <1>1 DEF Edge, Flags, Contents
  <2> QED
    BY <1>1, <2>1, <1>p, <1>q, <1>r DEF Fifo!Edge
<1>2. CASE ~CLR /\ ENQ /\ ~DEQ
  <2>1. CASE ~empty_reg
    <3>1. Contents = << >> /\ Contents' = <<D_IN>>
      BY <1>2, <2>1 DEF Edge, Flags, Contents, TypeOK
    <3>2. Fifo!Enqueue(p)
      BY <3>1, <1>2, <1>p DEF Fifo!Enqueue
    <3> QED
      BY <3>2, <1>2, <1>p, <1>q, <1>r DEF Fifo!Edge
  <2>2. CASE empty_reg
    <3>1. full_reg
      BY <1>2 DEF Edge, EnqError, TypeOK
    <3>2. Contents = <<data0_reg>> /\ Contents' = <<data0_reg, D_IN>>
      BY <1>2, <2>2, <3>1 DEF Edge, Flags, Contents, TypeOK
    <3>3. Fifo!Enqueue(p)
      BY <3>2, <1>2, <1>p DEF Fifo!Enqueue
    <3> QED
      BY <3>3, <1>2, <1>p, <1>q, <1>r DEF Fifo!Edge
  <2> QED
    BY <2>1, <2>2
<1>3. CASE ~CLR /\ DEQ /\ ~ENQ
  <2>1. empty_reg
    BY <1>3 DEF Edge, DeqError, TypeOK
  <2>2. Contents # << >> /\ Contents' = Tail(Contents)
    <3>1. CASE full_reg
      <4>1. Contents = <<data0_reg>> /\ Contents' = << >>
        BY <1>3, <2>1, <3>1 DEF Edge, Flags, Contents, TypeOK
      <4> QED
        BY <4>1
    <3>2. CASE ~full_reg
      <4>1. Contents = <<data0_reg, data1_reg>> /\ Contents' = <<data1_reg>>
        BY <1>3, <2>1, <3>2 DEF Edge, Flags, Contents, TypeOK
      <4> QED
        BY <4>1
    <3> QED
      BY <3>1, <3>2
  <2>3. Fifo!Dequeue(p)
    BY <2>2, <1>3, <1>p DEF Fifo!Dequeue
  <2> QED
    BY <2>3, <1>3, <1>p, <1>q, <1>r DEF Fifo!Edge
<1>4. CASE ~CLR /\ ENQ /\ DEQ
  <2>1. empty_reg
    BY <1>4 DEF Edge, DeqError, TypeOK
  <2>2. Contents # << >> /\ Contents' = Append(Tail(Contents), D_IN)
    <3>1. CASE full_reg
      <4>1. Contents = <<data0_reg>> /\ Contents' = <<D_IN>>
        BY <1>4, <2>1, <3>1 DEF Edge, Flags, Contents, TypeOK
      <4> QED
        BY <4>1
    <3>2. CASE ~full_reg
      <4>1. UNCHANGED <<empty_reg, full_reg>>
        BY <1>4 DEF Edge, Flags
      <4>2. data0_reg' = data1_reg /\ data1_reg' = D_IN
        BY <1>4, <2>1, <3>2
      <4>3. Contents = <<data0_reg, data1_reg>> /\ Contents' = <<data1_reg, D_IN>>
        BY <2>1, <3>2, <4>1, <4>2 DEF Contents
      <4> QED
        BY <4>3
    <3> QED
      BY <3>1, <3>2
  <2>3. Fifo!Exchange(p)
    BY <2>2, <1>4, <1>p DEF Fifo!Exchange
  <2> QED
    BY <2>3, <1>4, <1>p, <1>q, <1>r DEF Fifo!Edge
<1>5. CASE ~CLR /\ ~ENQ /\ ~DEQ
  <2>1. UNCHANGED <<empty_reg, full_reg>>
    BY <1>5 DEF Edge, Flags
  <2>2. empty_reg => data0_reg' = data0_reg /\ data1_reg' = data1_reg
    BY <1>5
  <2>3. Contents' = Contents
    BY <2>1, <2>2 DEF Contents
  <2> QED
    BY <2>3, <1>5, <1>p, <1>q, <1>r DEF Fifo!Edge, Fifo!Hold
<1> QED
  BY <1>1, <1>2, <1>3, <1>4, <1>5

(* Between callers that respect the error checks the registers of FIFO2.v  *)
(* implement a queue of two words, of any width.                           *)
THEOREM FifoCorrect == Spec => IsFifo
<1>1. Init => Fifo!Init
  BY DEF Init, Fifo!Init, Contents
<1>2. TypeOK /\ [Next]_vars => [Fifo!Next]_<<Contents, ports>>
  <2> SUFFICES ASSUME TypeOK, [Next]_vars PROVE Fifo!Next \/ UNCHANGED <<Contents, ports>>
    OBVIOUS
  <2>1. CASE UNCHANGED vars
    BY <2>1 DEF vars, Contents
  <2>2. CASE Next
    <3> PICK CLR \in BOOLEAN, ENQ \in BOOLEAN, DEQ \in BOOLEAN, D_IN \in Word :
             Edge(CLR, ENQ, DEQ, D_IN)
      BY <2>2 DEF Next
    <3> QED
      BY EdgeIsStep
  <2> QED
    BY <2>1, <2>2
<1> QED
  BY <1>1, <1>2, TypeCorrect, PTL DEF Spec, IsFifo, Fifo!Spec, Fifo!fifoVars
=============================================================================
