--------------------------------- MODULE UART ---------------------------------
(***************************************************************************)
(* mkUART.v, target 2 of the fabric.  It answers a request at a time; a    *)
(* character written to its transmit register goes to the console, and the *)
(* request waits at the head of t_reqs[2] while the console has no room.   *)
(*                                                                         *)
(* A register is known by its byte: the line, the word and the first lane  *)
(* a request asks for.  What a register holds decides nothing but bit 7 of *)
(* rg_lcr, so a response has the address for the word that was read.       *)
(***************************************************************************)
EXTENDS Fabric

CONSTANTS Registers,     \* the bytes at which there is one: 00, 04, .. 1C, 7F
          Thr, Lcr,      \* 00, where rg_thr is written, and 0C
          HighBit        \* what a byte can be that has its bit 7 set

ASSUME UARTAssumption ==
    /\ \A b \in Registers : b[1] \in DeviceLines
    /\ {Thr, Lcr} \subseteq Registers /\ Thr # Lcr

VARIABLE uart            \* tx, how many characters f_to_console holds; dlab, bit 7 of rg_lcr

Register(r) == <<r.addr[1], r.addr[2], Min(r.lanes)>>
Stores(r) == r.op = "ST" /\ ~r.burst
ToConsole(r) == Stores(r) /\ Register(r) = Thr /\ ~uart.dlab

(* A burst is refused, and whatever is asked of a byte without a register. *)
Unknown(r) == r.burst \/ Register(r) \notin Registers

(* RL_rl_process_req.  Its guard rg_state holds from the first reset on.   *)
uart_process_req ==
    /\ t_reqs[2] # << >> /\ HasRoom(t_rsps[2])
    /\ LET r == Head(t_reqs[2]) IN
         /\ ToConsole(r) => uart.tx < Slots
         /\ t_rsps' = Put(t_rsps, 2, Response(r, Unknown(r), r.addr, r.addr))
         /\ uart' = [tx |-> IF ToConsole(r) THEN uart.tx + 1 ELSE uart.tx,
                     dlab |-> IF Stores(r) /\ Register(r) = Lcr
                              THEN r.word[Register(r)[3]] \in HighBit ELSE uart.dlab]
    /\ t_reqs' = Taken(t_reqs, 2)
    /\ UNCHANGED <<i_reqs, i_rsps>>

(* mkTop_Sim_Standalone.v hands a character to the driver, when the driver *)
(* has room (SimDriver.tla): after any delay here.                         *)
to_console_cnx ==
    /\ uart.tx > 0 /\ uart' = [uart EXCEPT !.tx = @ - 1]
    /\ UNCHANGED fabricVars

(* After the first reset, which does not touch rg_lcr: it is 8'hAA still.  *)
UARTInit == uart = [tx |-> 0, dlab |-> TRUE]
=============================================================================
