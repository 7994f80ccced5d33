------------------------------- MODULE Fabric -------------------------------
(***************************************************************************)
(* mkFabric.v: requests of initiators (0 the SoC controller, 1 the         *)
(* instruction cache, 2 the data cache) go to the target their address     *)
(* selects, responses go back to the initiator they name.  One request and *)
(* one response move in an edge; the lowest number that can move does.     *)
(*                                                                         *)
(* FIFOs in a row are one buffer: i_reqs of an initiator is vf_i_reqs and  *)
(* the FIFO at the initiator, t_reqs of a target vf_t_reqs and the one at  *)
(* the target, and the same for responses.  An address is a line and a     *)
(* word of it; lanes are the bytes of a word that are meant.               *)
(***************************************************************************)
EXTENDS Naturals, Sequences, SequencesExt, FiniteSetsExt

CONSTANTS Initiators, Targets,
          Lines,                   \* of the address space: those of
          MemLines, DeviceLines,   \* memory, of the UART, and of nobody
          Slots                    \* what a buffer holds

ASSUME FabricAssumption ==
    /\ Initiators = 0 .. 2 /\ Targets = {0, 2, 3} /\ Slots \in Nat \ {0}
    /\ MemLines \subseteq Lines /\ DeviceLines \subseteq Lines \ MemLines

VARIABLES i_reqs, t_reqs, t_rsps, i_rsps

fabricVars == <<i_reqs, t_reqs, t_rsps, i_rsps>>

(* Target 2 is the UART.  Target 1, the control port of the processor, is  *)
(* left out: Lines has none of its addresses, which only the driver uses   *)
(* (SimDriver.tla).                                                        *)
target_id(addr) == CASE addr[1] \in MemLines    -> 0
                     [] addr[1] \in DeviceLines -> 2
                     [] OTHER                   -> 3

HasRoom(buffer) == Len(buffer) < Slots

(* Puts x at the end of buffer k of a function of buffers.                 *)
Put(buffers, k, x) == [buffers EXCEPT ![k] = Append(@, x)]
Taken(buffers, k) == [buffers EXCEPT ![k] = Tail(@)]

(* A response: at, the address it is for, is kept to state properties.     *)
Response(r, err, word, at) ==
    [initiator |-> r.initiator, op |-> r.op, err |-> err, word |-> word, at |-> at]

-----------------------------------------------------------------------------
CanRoute(i) == i_reqs[i] # << >> /\ HasRoom(t_reqs[target_id(Head(i_reqs[i]).addr)])

rl_initiators_to_targets(i) ==
    /\ CanRoute(i) /\ \A h \in Initiators : h < i => ~CanRoute(h)
    /\ t_reqs' = Put(t_reqs, target_id(Head(i_reqs[i]).addr), Head(i_reqs[i]))
    /\ i_reqs' = Taken(i_reqs, i)
    /\ UNCHANGED <<t_rsps, i_rsps>>

CanReturn(t) == t_rsps[t] # << >> /\ HasRoom(i_rsps[Head(t_rsps[t]).initiator])

rl_targets_to_initiators(t) ==
    /\ CanReturn(t) /\ \A h \in Targets : h < t => ~CanReturn(h)
    /\ i_rsps' = Put(i_rsps, Head(t_rsps[t]).initiator, Head(t_rsps[t]))
    /\ t_rsps' = Taken(t_rsps, t)
    /\ UNCHANGED <<i_reqs, t_reqs>>

(* Target 3 is the fabric: all addresses nothing else has. Requests to its *)
(* verbosity register, which only the displays use, are left out.          *)
rl_process_config_reqs ==
    /\ t_reqs[3] # << >> /\ HasRoom(t_rsps[3])
    /\ LET r == Head(t_reqs[3]) IN t_rsps' = Put(t_rsps, 3, Response(r, TRUE, r.addr, r.addr))
    /\ t_reqs' = Taken(t_reqs, 3)
    /\ UNCHANGED <<i_reqs, i_rsps>>

(* Its reset.  (The FIFOs at the other modules are not cleared by it; they *)
(* are empty whenever it happens in Memory.tla.)                           *)
ClearFabric ==
    /\ i_reqs' = [i \in Initiators |-> << >>] /\ i_rsps' = [i \in Initiators |-> << >>]
    /\ t_reqs' = [t \in Targets |-> << >>] /\ t_rsps' = [t \in Targets |-> << >>]

FabricInit ==
    /\ i_reqs = [i \in Initiators |-> << >>] /\ i_rsps = [i \in Initiators |-> << >>]
    /\ t_reqs = [t \in Targets |-> << >>] /\ t_rsps = [t \in Targets |-> << >>]

Routing == \/ \E i \in Initiators : rl_initiators_to_targets(i)
           \/ \E t \in Targets : rl_targets_to_initiators(t)
           \/ rl_process_config_reqs
=============================================================================
