------------------------------- MODULE Memory -------------------------------
(***************************************************************************)
(* The memory system of mkSoC_Top.v: instruction cache, fabric, memory     *)
(* controller and memory, and UART, with the SoC controller and the data   *)
(* cache as clients that send requests, and the reset of all of them.      *)
(***************************************************************************)
EXTENDS ICache, UART

CONSTANTS Fetches,         \* addresses of the program
          ClientRequests,  \* of initiators 0 and 2: request to the initiators that send it
          AtATime,         \* initiator to how many requests it has on the way at most
          Together,        \* how many these two have on the way together
          Resets           \* whether the SoC is reset after the first time

Addr == Lines \X Off

ASSUME MemoryAssumption ==
    /\ Fetches \subseteq Addr
    /\ \A r \in DOMAIN ClientRequests :
         /\ r \in [initiator : {0}, op : {"LD", "ST"}, burst : BOOLEAN, addr : Addr,
                   lanes : SUBSET Lane, word : [Lane -> Byte] \cup {<< >>}]
         /\ r.op = "ST" => ~r.burst /\ r.word # << >> /\ r.addr \notin Fetches
         /\ ClientRequests[r] \subseteq {0, 2}
    /\ Resets \in BOOLEAN

VARIABLES
    resetting,     \* on, rg_state of mkSoC_Top; waiting, who has not answered
    owed           \* initiator to target to the addresses of the words it waits for

vars == <<resetting, owed, uart, icacheVars, controllerVars, rawVars, fabricVars>>

Modules == {"fabric", "mem_controller", "icache"}

-----------------------------------------------------------------------------
(* The words of a response: those of the line, or one.                     *)
Beats(r) == IF r.burst /\ target_id(r.addr) = 0
            THEN [k \in 1 .. Cardinality(Off) |-> <<r.addr[1], k - 1>>] ELSE <<r.addr>>

(* What is owed after a new request of i, and after its next response.     *)
(* Those of one target arrive in order, those of different ones do not.    *)
Owes(i, r) == [owed EXCEPT ![i][target_id(r.addr)] = @ \o Beats(r)]
Gets(i) == [owed EXCEPT ![i][target_id(Head(i_rsps[i]).at)] = Tail(@)]

Outstanding(i) == MapThenSumSet(LAMBDA t : Len(owed[i][t]), Targets)

Client(i) ==
    /\ ~resetting.on /\ HasRoom(i_reqs[i])
    /\ Outstanding(i) < AtATime[i] /\ Outstanding(0) + Outstanding(2) < Together
    /\ \E r \in DOMAIN ClientRequests :
         LET q == [r EXCEPT !.initiator = i] IN
         /\ i \in ClientRequests[r]
         /\ i_reqs' = Put(i_reqs, i, q)
         /\ owed' = Owes(i, q)
    /\ UNCHANGED <<resetting, uart, t_reqs, t_rsps, i_rsps, icacheVars, controllerVars, rawVars>>

Arrives(i) ==
    /\ i_rsps[i] # << >> /\ i_rsps' = Taken(i_rsps, i)
    /\ owed' = Gets(i)
    /\ UNCHANGED <<resetting, uart, i_reqs, t_reqs, t_rsps, icacheVars, controllerVars, rawVars>>

Fetch == /\ ~resetting.on
         /\ \E a \in Fetches, misaligned \in BOOLEAN :
               /\ rg_state = "READY" \/ valid \/ rg_state = "REREQ" \/ Redirects
               /\ req(a, misaligned)
         /\ UNCHANGED <<resetting, uart, owed>>

Cache == /\ \/ rl_process_RAM_outs /\ owed' = Owes(1, Burst)
            \/ rl_refill_loop /\ owed' = Gets(1)
            \/ (rl_start_refill \/ rl_rereq) /\ UNCHANGED owed
         /\ UNCHANGED <<resetting, uart>>

-----------------------------------------------------------------------------
(* The reset of the SoC.  Nothing is on the way when it begins: what it    *)
(* would leave behind otherwise makes every later answer wrong.            *)
Quiet == \A i \in Initiators, t \in Targets : owed[i][t] = << >>

rl_reset_start ==
    /\ Resets /\ ~resetting.on /\ Quiet
    /\ resetting' = [on |-> TRUE, waiting |-> Modules]
    /\ rl_start_reset
    /\ UNCHANGED <<owed, uart, controllerVars, rawVars, fabricVars>>

Answers(m) == m \in resetting.waiting /\ resetting' = [resetting EXCEPT !.waiting = @ \ {m}]

ResetFabric == /\ Answers("fabric") /\ ClearFabric
               /\ UNCHANGED <<owed, uart, icacheVars, controllerVars, rawVars>>
ResetController == Answers("mem_controller") /\ rl_reset /\ UNCHANGED <<owed, uart, icacheVars>>
ResetICache == /\ Answers("icache") /\ rl_reset_sets
               /\ UNCHANGED <<owed, uart, controllerVars, rawVars, fabricVars>>

rl_reset_complete ==
    /\ resetting.on /\ resetting.waiting = {} /\ resetting' = [resetting EXCEPT !.on = FALSE]
    /\ UNCHANGED <<owed, uart, icacheVars, controllerVars, rawVars, fabricVars>>

Resetting == ResetFabric \/ ResetController \/ ResetICache \/ rl_reset_complete

-----------------------------------------------------------------------------
Init ==
    /\ FabricInit /\ UARTInit /\ ControllerInit /\ ICacheInit
    /\ resetting = [on |-> FALSE, waiting |-> {}]
    /\ owed = [i \in Initiators |-> [t \in Targets |-> << >>]]

Fabrics == Routing /\ UNCHANGED <<resetting, owed, uart, icacheVars, controllerVars, rawVars>>
Controller == Serving /\ UNCHANGED <<resetting, owed, uart, icacheVars>>
Console == /\ uart_process_req \/ to_console_cnx
           /\ UNCHANGED <<resetting, owed, icacheVars, controllerVars, rawVars>>

Next ==
    \/ \E i \in {0, 2} : Client(i) \/ Arrives(i)
    \/ Fetch \/ Cache \/ Fabrics \/ Controller \/ Console
    \/ rl_reset_start \/ Resetting

Spec == Init /\ [][Next]_vars

-----------------------------------------------------------------------------
(* The processor gets the instruction that is at the address it asked for, *)
(* or an exception for the reason there is: whatever line was in its set   *)
(* before, and whatever was replaced, whoever else uses the memory.  (A    *)
(* second fetch from a line without memory is not told so: the tag of the  *)
(* line that could not be filled is valid.)                                *)
FetchRight ==
    valid =>
      IF exc THEN rg_exc_code = FAULT => target_id(rg_addr) # 0
      ELSE target_id(rg_addr) = 0 => instr = Contents[rg_addr[1]][rg_addr[2]]

(* Between an initiator and a target is exactly what the initiator waits   *)
(* for, in the order it asked: nothing is lost, doubled, overtaken or sent *)
(* to another initiator, in the middle of a burst or at full buffers.      *)
AskedOf(i, t, r) == IF r.initiator = i /\ target_id(r.addr) = t THEN Beats(r) ELSE << >>
Asked(i, t, q) == FlattenSeq([k \in DOMAIN q |-> AskedOf(i, t, q[k])])

ToldOf(i, t, x) == IF x.initiator = i /\ target_id(x.at) = t THEN <<x.at>> ELSE << >>
Told(i, t, q) == FlattenSeq([k \in DOMAIN q |-> ToldOf(i, t, q[k])])

(* What the memory controller has still to send of the request it serves,  *)
(* and what target t has not yet answered of the requests it has.          *)
BeingSent(i) ==
    LET b == AskedOf(i, 0, Request)
    IN  IF b = << >> THEN b ELSE SubSeq(b, Len(b) - Len(rg_rsp.words) + 1, Len(b))

Unsent(i, t) == IF t = 0 /\ mc_state = "SEND"
                THEN BeingSent(i) \o Asked(i, 0, Tail(t_reqs[0]))
                ELSE Asked(i, t, t_reqs[t])

OnPath(i, t) == Told(i, t, i_rsps[i]) \o Told(i, t, t_rsps[t])
                \o Unsent(i, t) \o Asked(i, t, i_reqs[i])

InOrder == \A i \in Initiators, t \in Targets : OnPath(i, t) = owed[i][t]

(* The controller with its one dirty line, its write-backs and its reloads *)
(* is an array that serves a request at a time.                            *)
Flat == INSTANCE FlatMemory WITH
            mem <- View,
            out <- rg_rsp.words,
            asked <- "mem_controller" \in resetting.waiting

ImplementsFlatMemory == Flat!Spec

(* Whoever waits, something that is not a new request can happen: the      *)
(* initiators, the fabric, the memory controller, the memory, the UART and *)
(* its console never wait for each other, at full buffers, in a refill or  *)
(* in a reset.                                                             *)
Waits == \/ ~Quiet \/ resetting.on
         \/ rg_state \in {"START_REFILL", "REFILL_LOOP", "REREQ"}
         \/ rg_state = "PROCESS" /\ ~Hit

Moves == \/ \E i \in {0, 2} : Arrives(i)
         \/ Cache \/ Fabrics \/ Controller \/ Console \/ Resetting

NeverStuck == Waits => ENABLED Moves
=============================================================================
