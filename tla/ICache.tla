------------------------------- MODULE ICache -------------------------------
(***************************************************************************)
(* mkICache.v, initiator 1 of the fabric.  A fetch that misses asks for    *)
(* the whole line, the words arrive one by one, and the fetch is then      *)
(* tried again.  A new fetch is accepted in every state; it takes the      *)
(* place of the old one.  The two RAMs are read when a request or rl_rereq *)
(* comes and not written before rl_process_RAM_outs has used what they     *)
(* gave, so that rule reads them here.                                     *)
(***************************************************************************)
EXTENDS MemController

CONSTANTS CSet, cset,      \* sets of the cache; the set of a line
          Redirects        \* whether a fetch may be replaced during a refill

ASSUME ICacheAssumption == Redirects \in BOOLEAN /\ cset \in [Lines -> CSet]

VARIABLES
    rg_state,              \* RESET, READY, EXCEPTION, PROCESS, START_REFILL, ...
    rg_addr, rg_exc_code,
    rg_wordset_in_cache,   \* the word of the line that is expected
    ctag, words            \* the two RAMs; a tag holds a line, or none

icacheVars == <<rg_state, rg_addr, rg_exc_code, rg_wordset_in_cache, ctag, words>>

NoTag == {}
MISALIGNED == 0
FAULT == 1

set == cset[rg_addr[1]]

-----------------------------------------------------------------------------
Hit == ctag[set] = {rg_addr[1]}

(* valid, exc and instr, as the processor sees them.                       *)
exc == rg_state = "EXCEPTION"
valid == exc \/ (rg_state = "PROCESS" /\ Hit)
instr == words[set][rg_addr[2]]

enq_rdy == HasRoom(i_reqs[1])

Refilling == \/ rg_state \in {"START_REFILL", "REFILL_LOOP"}
             \/ rg_state = "PROCESS" /\ ~Hit

(* The processor asks for the instruction at a, or at a misaligned one     *)
(* close to it: when it has seen the answer, or when it traps or goes on   *)
(* after a stop.  (A miss sends its request in the edge it is replaced in.)*)
req(a, misaligned) ==
    /\ rg_state # "RESET" /\ (Refilling => Redirects)
    /\ ~(rg_state = "PROCESS" /\ ~Hit /\ enq_rdy)
    /\ rg_addr' = a
    /\ rg_state' = IF misaligned THEN "EXCEPTION" ELSE "PROCESS"
    /\ rg_exc_code' = IF misaligned THEN MISALIGNED ELSE rg_exc_code
    /\ UNCHANGED <<rg_wordset_in_cache, ctag, words, controllerVars, rawVars, fabricVars>>

Burst == [initiator |-> 1, op |-> "LD", burst |-> TRUE, addr |-> <<rg_addr[1], 0>>,
          lanes |-> Lane, word |-> << >>]

rl_process_RAM_outs ==
    /\ rg_state = "PROCESS" /\ ~Hit /\ enq_rdy
    /\ i_reqs' = Put(i_reqs, 1, Burst) /\ rg_state' = "START_REFILL"
    /\ UNCHANGED <<rg_addr, rg_exc_code, rg_wordset_in_cache, ctag, words,
                   t_reqs, t_rsps, i_rsps, controllerVars, rawVars>>

(* Mutant: the refill starts with the word that was asked for.             *)
MutFirstWord == rg_addr[2]

FirstWord == 0

rl_start_refill ==
    /\ rg_state = "START_REFILL" /\ rg_state' = "REFILL_LOOP"
    /\ ctag' = [ctag EXCEPT ![set] = {rg_addr[1]}]
    /\ rg_wordset_in_cache' = FirstWord
    /\ UNCHANGED <<rg_addr, rg_exc_code, words, fabricVars, controllerVars, rawVars>>

(* Mutant: one word too many is expected.                                  *)
MutLastOfLine == rg_wordset_in_cache = Cardinality(Off)

LastOfLine == rg_wordset_in_cache = Cardinality(Off) - 1

rl_refill_loop ==
    /\ rg_state = "REFILL_LOOP" /\ i_rsps[1] # << >>
    /\ LET rsp == Head(i_rsps[1]) IN
       IF rsp.err
       THEN /\ rg_state' = "EXCEPTION" /\ rg_exc_code' = FAULT
            /\ UNCHANGED <<words, rg_wordset_in_cache>>
       ELSE /\ words' = [words EXCEPT ![set][rg_wordset_in_cache] = rsp.word]
            /\ rg_state' = IF LastOfLine THEN "REREQ" ELSE rg_state
            /\ rg_wordset_in_cache' = IF LastOfLine THEN rg_wordset_in_cache
                                      ELSE rg_wordset_in_cache + 1
            /\ UNCHANGED rg_exc_code
    /\ i_rsps' = Taken(i_rsps, 1)
    /\ UNCHANGED <<rg_addr, ctag, i_reqs, t_reqs, t_rsps, controllerVars, rawVars>>

rl_rereq ==
    /\ rg_state = "REREQ" /\ rg_state' = "PROCESS"
    /\ UNCHANGED <<rg_addr, rg_exc_code, rg_wordset_in_cache, ctag, words,
                   fabricVars, controllerVars, rawVars>>

(* req_reset and rl_start_reset; then the sets are cleared, one an edge.   *)
rl_start_reset == rg_state' = "RESET" /\ UNCHANGED <<rg_addr, rg_exc_code, rg_wordset_in_cache,
                                                     ctag, words>>

rl_reset_sets ==
    /\ rg_state = "RESET" /\ rg_state' = "READY"
    /\ ctag' = [s \in CSet |-> NoTag]
    /\ UNCHANGED <<rg_addr, rg_exc_code, rg_wordset_in_cache, words>>

ICacheInit ==
    /\ rg_state = "READY" /\ rg_addr = <<0, 0>> /\ rg_exc_code = MISALIGNED
    /\ rg_wordset_in_cache = 0
    /\ ctag = [s \in CSet |-> NoTag]
    /\ words = [s \in CSet |-> [w \in Off |-> [k \in Lane |-> Unset]]]
=============================================================================
