--------------------------- MODULE MemController ----------------------------
(***************************************************************************)
(* mkMem_Controller.v with mkMem_Model.v behind it: the controller keeps   *)
(* one raw line of the memory, writes it back when it is dirty and another *)
(* line is asked for, and answers reads of a word or of the whole line,    *)
(* and writes of any bytes of a word.  It is target 0 of the fabric; the   *)
(* request it works on stays at the head of t_reqs[0] until its last word  *)
(* has been sent.                                                          *)
(***************************************************************************)
EXTENDS Fabric

CONSTANTS Off,             \* words of a line: 0 .. n
          Lane, Byte,      \* bytes of a word; what a byte can be
          Contents         \* what the memory holds at first

ASSUME MemControllerAssumption ==
    /\ IsFiniteSet(Off) /\ Off # {} /\ Off = 0 .. Cardinality(Off) - 1
    /\ 0 \in MemLines
    /\ Contents \in [MemLines -> [Off -> [Lane -> Byte]]]

VARIABLES
    mc_state,                      \* READY, RELOAD, SEND
    rg_cached_addr, rg_cached_burst, rg_cached_clean,
    rg_rsp,                        \* rg_rsp_burst: the words still to be sent, and status
    f_raw_mem_reqs, f_raw_mem_rsps,
    rf                             \* the register file of mkMem_Model

controllerVars == <<mc_state, rg_cached_addr, rg_cached_burst, rg_cached_clean, rg_rsp>>
rawVars == <<f_raw_mem_reqs, f_raw_mem_rsps, rf>>

NoRsp == [err |-> FALSE, words |-> << >>]
Unset == << >>             \* a byte of a register before it is first written

(* The request to be served, and whether its line is there.                *)
Waiting == mc_state = "READY" /\ t_reqs[0] # << >>
Request == Head(t_reqs[0])
line == Request.addr[1]
off == Request.addr[2]
Cached == rg_cached_addr = line

-----------------------------------------------------------------------------
rl_writeback_dirty ==
    /\ Waiting /\ ~Cached /\ ~rg_cached_clean /\ HasRoom(f_raw_mem_reqs)
    /\ f_raw_mem_reqs' = Append(f_raw_mem_reqs, [write |-> TRUE, line |-> rg_cached_addr,
                                                 words |-> rg_cached_burst])
    /\ rg_cached_clean' = TRUE
    /\ UNCHANGED <<mc_state, rg_cached_addr, rg_cached_burst, rg_rsp, f_raw_mem_rsps, rf,
                   fabricVars>>

(* Mutant: a dirty line is dropped.                                        *)
MutMayReplace == TRUE

MayReplace == rg_cached_clean

rl_miss_clean_req ==
    /\ Waiting /\ ~Cached /\ MayReplace /\ HasRoom(f_raw_mem_reqs)
    /\ f_raw_mem_reqs' = Append(f_raw_mem_reqs, [write |-> FALSE, line |-> line, words |-> << >>])
    /\ rg_cached_addr' = line /\ mc_state' = "RELOAD"
    /\ UNCHANGED <<rg_cached_burst, rg_cached_clean, rg_rsp, f_raw_mem_rsps, rf,
                   fabricVars>>

rl_reload ==
    /\ mc_state = "RELOAD" /\ f_raw_mem_rsps # << >>
    /\ rg_cached_burst' = Head(f_raw_mem_rsps) /\ mc_state' = "READY"
    /\ f_raw_mem_rsps' = Tail(f_raw_mem_rsps)
    /\ UNCHANGED <<rg_cached_addr, rg_cached_clean, rg_rsp, f_raw_mem_reqs, rf,
                   fabricVars>>

Merged(old, lanes, new) == [k \in Lane |-> IF k \in lanes THEN new[k] ELSE old[k]]

(* A read of less than a word and a write of a line are refused.           *)
Refused == IF Request.op = "LD" THEN ~Request.burst /\ Request.lanes # Lane ELSE Request.burst
Words == IF Refused \/ Request.op = "ST" THEN <<Request.addr>>
         ELSE IF Request.burst THEN [k \in 1 .. Cardinality(Off) |-> rg_cached_burst[k - 1]]
         ELSE <<rg_cached_burst[off]>>

rl_process_req ==
    /\ Waiting /\ Cached
    /\ rg_rsp' = [err |-> Refused, words |-> Words] /\ mc_state' = "SEND"
    /\ IF Request.op = "ST" /\ ~Refused
       THEN /\ rg_cached_burst' = [rg_cached_burst EXCEPT
                                     ![off] = Merged(@, Request.lanes, Request.word)]
            /\ rg_cached_clean' = FALSE
       ELSE UNCHANGED <<rg_cached_burst, rg_cached_clean>>
    /\ UNCHANGED <<rg_cached_addr, rawVars, fabricVars>>

(* The address the next word of the response is for.                       *)
At == IF Request.burst /\ ~rg_rsp.err
      THEN <<line, Cardinality(Off) - Len(rg_rsp.words)>> ELSE Request.addr

(* Mutant: a request is done with the first word of its line.              *)
MutLastWord == TRUE

LastWord == Len(rg_rsp.words) = 1

rl_send_rsp ==
    /\ mc_state = "SEND" /\ HasRoom(t_rsps[0])
    /\ t_rsps' = Put(t_rsps, 0, Response(Request, rg_rsp.err, Head(rg_rsp.words), At))
    /\ t_reqs' = IF LastWord THEN Taken(t_reqs, 0) ELSE t_reqs
    /\ mc_state' = IF LastWord THEN "READY" ELSE mc_state
    /\ rg_rsp' = IF LastWord THEN NoRsp ELSE [rg_rsp EXCEPT !.words = Tail(@)]
    /\ UNCHANGED <<rg_cached_addr, rg_cached_burst, rg_cached_clean, rawVars, i_reqs, i_rsps>>

(* The line at address 0 is said to be there, and dirty, with whatever the *)
(* register of the cached line holds.                                      *)
rl_reset ==
    /\ mc_state' = "READY" /\ rg_cached_addr' = 0 /\ rg_cached_clean' = FALSE
    /\ f_raw_mem_reqs' = << >> /\ f_raw_mem_rsps' = << >>
    /\ rg_rsp' = NoRsp
    /\ t_reqs' = [t_reqs EXCEPT ![0] = << >>] /\ t_rsps' = [t_rsps EXCEPT ![0] = << >>]
    /\ UNCHANGED <<rg_cached_burst, rf, i_reqs, i_rsps>>

-----------------------------------------------------------------------------
(* mkTop_Sim_Standalone.v moves requests and responses between the FIFOs   *)
(* of the two, which are one buffer here.                                  *)
rl_process_reqs ==
    /\ f_raw_mem_reqs # << >> /\ f_raw_mem_reqs' = Tail(f_raw_mem_reqs)
    /\ LET r == Head(f_raw_mem_reqs) IN
       IF r.write THEN rf' = [rf EXCEPT ![r.line] = r.words] /\ UNCHANGED f_raw_mem_rsps
       ELSE /\ HasRoom(f_raw_mem_rsps)
            /\ f_raw_mem_rsps' = Append(f_raw_mem_rsps, rf[r.line]) /\ UNCHANGED rf
    /\ UNCHANGED <<controllerVars, fabricVars>>

(* After the reset that follows power-up.                                  *)
ControllerInit ==
    /\ mc_state = "READY" /\ rg_cached_addr = 0 /\ rg_cached_clean = FALSE
    /\ rg_cached_burst = [w \in Off |-> [k \in Lane |-> Unset]]
    /\ rg_rsp = NoRsp
    /\ f_raw_mem_reqs = << >> /\ f_raw_mem_rsps = << >>
    /\ rf = Contents

Serving == \/ rl_writeback_dirty \/ rl_miss_clean_req \/ rl_reload \/ rl_process_req
           \/ rl_send_rsp \/ rl_process_reqs

-----------------------------------------------------------------------------
(* The memory as its clients see it: the cached line, else the newest      *)
(* write-back on its way, else the register file.                          *)
OnTheWay(l) == {k \in DOMAIN f_raw_mem_reqs : f_raw_mem_reqs[k].write /\ f_raw_mem_reqs[k].line = l}

Stored(l) == IF OnTheWay(l) = {} THEN rf[l] ELSE f_raw_mem_reqs[Max(OnTheWay(l))].words

View == [l \in MemLines |->
           IF mc_state # "RELOAD" /\ rg_cached_addr = l THEN rg_cached_burst ELSE Stored(l)]
=============================================================================
