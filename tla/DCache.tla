------------------------------- MODULE DCache -------------------------------
(***************************************************************************)
(* mkDCache.v: the direct-mapped, write-through data cache, one action per *)
(* rule, with the buffers to and from the memory behind it.  A load that   *)
(* misses fetches a line, one word a response; a store goes to memory at   *)
(* once and its response is discarded later, against a credit counter;     *)
(* addresses from 2^30 on belong to devices and pass the cache by.         *)
(*                                                                         *)
(* An address is <<tag, set, word of the line>>, a word a function from    *)
(* byte lanes.  The two RAMs are read in the edge of the request (or of    *)
(* rl_rereq) and not written before rl_process_RAM_outs has used what they *)
(* gave, so that rule reads them here.                                     *)
(***************************************************************************)
EXTENDS Naturals, Sequences, FiniteSetsExt, SequencesExt

CONSTANTS
    Tag, IOTag,        \* tags below 2^30, and tags of device addresses
    Set, Off,          \* sets of the cache; words of a line, 0 .. n
    Lane, Value,       \* byte lanes of a word; what a byte may hold
    Mapped,            \* the tags behind which there is memory or a device
    Misaligned,        \* whether an address may be misaligned: a set of BOOLEANs
    ReqSlots,          \* requests that fit between the cache and the memory
    RspSlots,          \* responses that fit on the way back
    CtrMod,            \* 2^width of the credit counter (16)
    Resets             \* whether the SoC resets the cache after power-up

NoTag == "invalid"

ASSUME DCacheAssumption ==
    /\ IsFiniteSet(Off) /\ Off # {} /\ Off = 0 .. Cardinality(Off) - 1
    /\ Tag # {} /\ Set # {} /\ Lane # {} /\ Value # {}
    /\ Misaligned \subseteq BOOLEAN
    /\ Tag \cap IOTag = {} /\ Mapped \subseteq Tag \cup IOTag
    /\ NoTag \notin Tag \cup IOTag
    /\ ReqSlots \in Nat \ {0} /\ RspSlots \in Nat \ {0} /\ CtrMod \in Nat \ {0, 1}

Addr == (Tag \cup IOTag) \X Set \X Off
Backed == {a \in Addr : a[1] \in Mapped}
Word == [Lane -> Value]

VARIABLES
    rg_state,
    rg,                \* rg_op, rg_addr, rg_f3 and rg_word: the last request
    rg_exc_code,
    rg_word_in_line,   \* rg_wordset_in_cache: the word being refilled
    rg_cset_addr,      \* the sets still to be cleared by the reset
    ctr,               \* ctr_wr_rsps_pending_crg
    tags, words,       \* the two RAMs
    reqs, rsps,        \* what is on the way to the memory, and back
    beat,              \* words of the burst at the head that have been read
    mem,               \* external: memory and device registers
    pending,           \* the processor waits for an answer
    ans                \* what it saw with the last answer

vars == <<rg_state, rg, rg_exc_code, rg_word_in_line, rg_cset_addr, ctr, tags, words,
          reqs, rsps, beat, mem, pending, ans>>
procVars == <<pending, ans>>
busVars == <<reqs, rsps, beat, mem>>
ramVars == <<tags, words>>
seqVars == <<rg_word_in_line, rg_cset_addr>>

STATES == {"INIT", "RESET", "READY", "EXCEPTION", "PROCESS", "START_REFILL",
           "REFILL_LOOP", "REREQ", "WRITE_RESPONSE", "IO_REQ", "IO_READ_RSP"}

SomeWord == CHOOSE w \in Word : TRUE

(* The word that comes with a load or a misaligned store is not looked at. *)
Requests == {r \in [op : {"LD", "ST"}, addr : Addr, lanes : (SUBSET Lane) \ {{}},
                    word : Word, misaligned : Misaligned] :
               r.op = "LD" \/ r.misaligned => r.word = SomeWord}

Fault(code) == [exc |-> TRUE, code |-> code, word |-> << >>]
Data(w) == [exc |-> FALSE, code |-> 0, word |-> w]

LOAD_MISALIGNED == 4
LOAD_FAULT == 5
STORE_MISALIGNED == 6

tag == rg.addr[1]
set == rg.addr[2]
off == rg.addr[3]

Overlay(old, lanes, new) == [l \in Lane |-> IF l \in lanes THEN new[l] ELSE old[l]]
Extract(w, lanes) == [l \in lanes |-> w[l]]

-----------------------------------------------------------------------------
(* The processor.  It asks only when it has seen the last answer.          *)
Answer(a) == pending /\ pending' = FALSE /\ ans' = a

(* The code of a misaligned access is chosen by the access before it:      *)
(* rg_op is read in the edge that sets it.                                 *)
MisalignedCode == IF rg.op = "ST" THEN STORE_MISALIGNED ELSE LOAD_MISALIGNED

req(r) ==
    /\ ~pending /\ rg_state \notin {"INIT", "RESET"}
    /\ rg' = r /\ pending' = TRUE
    /\ rg_state' = IF r.misaligned THEN "EXCEPTION"
                   ELSE IF r.addr[1] \in IOTag THEN "IO_REQ" ELSE "PROCESS"
    /\ rg_exc_code' = IF r.misaligned THEN MisalignedCode ELSE rg_exc_code
    /\ UNCHANGED <<seqVars, ctr, ramVars, busVars, ans>>

-----------------------------------------------------------------------------
(* The cache.                                                              *)
(* Mutant: any valid line is a hit.                                        *)
MutHitAnyTag == tags[set] # NoTag

Hit == tags[set] = tag

(* Mutant: a request is sent to a full buffer.                             *)
MutEnqRdyIgnored == TRUE

enq_rdy == Len(reqs) < ReqSlots

Send(op) == reqs' = Append(reqs, [op |-> op, addr |-> rg.addr, lanes |-> rg.lanes,
                                  word |-> rg.word])

(* Mutant: a write is not counted.                                         *)
MutIncForgotten == UNCHANGED ctr

Inc == ctr' = (ctr + 1) % CtrMod

rl_load_hit ==
    /\ rg_state = "PROCESS" /\ rg.op = "LD" /\ Hit
    /\ Answer(Data(Extract(words[set][off], rg.lanes)))
    /\ UNCHANGED <<rg_state, rg, rg_exc_code, seqVars, ctr, ramVars, busVars>>

rl_load_miss ==
    /\ rg_state = "PROCESS" /\ rg.op = "LD" /\ ~Hit
    /\ enq_rdy /\ Send("BURST")
    /\ rg_state' = "START_REFILL"
    /\ UNCHANGED <<rg, rg_exc_code, seqVars, ctr, ramVars, rsps, beat, mem, procVars>>

(* Mutant: a store of some lanes overwrites the whole word in the cache.   *)
MutRlStoreWholeWord ==
    /\ rg_state = "PROCESS" /\ rg.op = "ST"
    /\ enq_rdy /\ Send("WRITE") /\ Inc
    /\ words' = IF Hit THEN [words EXCEPT ![set][off] = rg.word] ELSE words
    /\ rg_state' = "WRITE_RESPONSE"
    /\ UNCHANGED <<rg, rg_exc_code, seqVars, tags, rsps, beat, mem, procVars>>

(* Write-through; a line is not allocated, but one that is there follows.  *)
rl_store ==
    /\ rg_state = "PROCESS" /\ rg.op = "ST"
    /\ enq_rdy /\ Send("WRITE") /\ Inc
    /\ words' = IF Hit THEN [words EXCEPT ![set][off] = Overlay(@, rg.lanes, rg.word)]
                ELSE words
    /\ rg_state' = "WRITE_RESPONSE"
    /\ UNCHANGED <<rg, rg_exc_code, seqVars, tags, rsps, beat, mem, procVars>>

rl_process_RAM_outs == rl_load_hit \/ rl_load_miss \/ rl_store

(* The tag is made valid before the words are there.                       *)
rl_start_refill ==
    /\ rg_state = "START_REFILL" /\ rg_state' = "REFILL_LOOP"
    /\ tags' = [tags EXCEPT ![set] = tag]
    /\ rg_word_in_line' = 0
    /\ UNCHANGED <<rg, rg_exc_code, rg_cset_addr, ctr, words, busVars, procVars>>

(* Mutant: a rule takes a response of any kind.                            *)
MutHead1AnyKind(kinds) == rsps # << >>

Head1(kinds) == rsps # << >> /\ Head(rsps).kind \in kinds
(* Mutant: a response is looked at but not taken.                          *)
MutDeqForgotten == UNCHANGED busVars

Deq == rsps' = Tail(rsps) /\ UNCHANGED <<reqs, beat, mem>>

(* One word of the line.  An error ends the refill, with the tag valid.    *)
rl_refill_loop ==
    /\ rg_state = "REFILL_LOOP" /\ Head1({"BURST"})
    /\ Deq
    /\ IF Head(rsps).err
       THEN /\ rg_state' = "EXCEPTION" /\ rg_exc_code' = LOAD_FAULT
            /\ UNCHANGED <<rg_word_in_line, words>>
       ELSE /\ words' = [words EXCEPT ![set][rg_word_in_line] = Head(rsps).word]
            /\ IF rg_word_in_line + 1 \in Off
               THEN rg_word_in_line' = rg_word_in_line + 1 /\ UNCHANGED rg_state
               ELSE rg_state' = "REREQ" /\ UNCHANGED rg_word_in_line
            /\ UNCHANGED rg_exc_code
    /\ UNCHANGED <<rg, rg_cset_addr, ctr, tags, procVars>>

rl_rereq ==
    /\ rg_state = "REREQ" /\ rg_state' = "PROCESS"
    /\ UNCHANGED <<rg, rg_exc_code, seqVars, ctr, ramVars, busVars, procVars>>

(* valid stays up in the next two states; the processor looks once.        *)
rl_write_response ==
    /\ rg_state = "WRITE_RESPONSE" /\ Answer(Data(<< >>))
    /\ UNCHANGED <<rg_state, rg, rg_exc_code, seqVars, ctr, ramVars, busVars>>

rl_exception ==
    /\ rg_state = "EXCEPTION" /\ Answer(Fault(rg_exc_code))
    /\ UNCHANGED <<rg_state, rg, rg_exc_code, seqVars, ctr, ramVars, busVars>>

rl_io_req ==
    /\ rg_state = "IO_REQ" /\ enq_rdy
    /\ IF rg.op = "ST" THEN rg_state' = "WRITE_RESPONSE" /\ Send("WRITE") /\ Inc
       ELSE rg_state' = "IO_READ_RSP" /\ Send("READ") /\ UNCHANGED ctr
    /\ UNCHANGED <<rg, rg_exc_code, seqVars, ramVars, rsps, beat, mem, procVars>>

(* An error is answered like a word; the exception comes one edge late.    *)
rl_io_read_rsp ==
    /\ rg_state = "IO_READ_RSP" /\ Head1({"READ", "BURST"})
    /\ Deq
    /\ Answer(Data(Extract(Head(rsps).word, rg.lanes)))
    /\ IF Head(rsps).err THEN rg_state' = "EXCEPTION" /\ rg_exc_code' = LOAD_FAULT
       ELSE UNCHANGED <<rg_state, rg_exc_code>>
    /\ UNCHANGED <<rg, seqVars, ctr, ramVars>>

rl_discard_write_rsp ==
    /\ ctr # 0 /\ Head1({"WRITE"})
    /\ Deq
    /\ ctr' = ctr - 1
    /\ UNCHANGED <<rg_state, rg, rg_exc_code, seqVars, ramVars, procVars>>

-----------------------------------------------------------------------------
(* Reset: every set is cleared, one per edge.  The credit counter and the  *)
(* two buffers at the cache keep what they hold; everything between them   *)
(* and the memory is lost.                                                 *)
req_reset ==
    /\ rg_state = "INIT" \/ (Resets /\ rg_state # "RESET")
    /\ rg_state' = "RESET" /\ rg_cset_addr' = Set
    /\ pending' = FALSE
    /\ reqs' \in {q \in Suffixes(reqs) : Len(q) <= 2}
    /\ rsps' \in {q \in Prefixes(rsps) : Len(q) <= 2} /\ beat' = 0
    /\ UNCHANGED <<rg, rg_exc_code, rg_word_in_line, ctr, ramVars, mem, ans>>

rl_reset ==
    /\ rg_state = "RESET"
    /\ \E s \in rg_cset_addr :
          /\ tags' = [tags EXCEPT ![s] = NoTag]
          /\ rg_cset_addr' = rg_cset_addr \ {s}
          /\ rg_state' = IF rg_cset_addr = {s} THEN "READY" ELSE "RESET"
    /\ UNCHANGED <<rg, rg_exc_code, rg_word_in_line, ctr, words, busVars, procVars>>

-----------------------------------------------------------------------------
(* The memory and the devices.  The fabric keeps the order of requests to  *)
(* the same target only.                                                   *)
Target(r) == IF r.addr[1] \notin Mapped THEN "nobody"
             ELSE IF r.addr[1] \in IOTag THEN "device" ELSE "memory"

FirstOfTarget(i) == \A j \in 1 .. i - 1 : Target(reqs[j]) # Target(reqs[i])

Respond(kind, err, w) ==
    /\ Len(rsps) < RspSlots
    /\ rsps' = Append(rsps, [kind |-> kind, err |-> err, word |-> w])

MemoryServes(i) ==
    LET r == reqs[i] IN
    /\ FirstOfTarget(i)
    /\ IF Target(r) = "nobody"
       THEN Respond(r.op, TRUE, SomeWord) /\ reqs' = RemoveAt(reqs, i) /\ UNCHANGED <<mem, beat>>
       ELSE CASE r.op = "WRITE" ->
                   /\ mem' = [mem EXCEPT ![r.addr] = Overlay(@, r.lanes, r.word)]
                   /\ Respond("WRITE", FALSE, SomeWord)
                   /\ reqs' = RemoveAt(reqs, i) /\ UNCHANGED beat
              [] r.op = "READ" ->
                   /\ Respond("READ", FALSE, mem[r.addr])
                   /\ reqs' = RemoveAt(reqs, i) /\ UNCHANGED <<mem, beat>>
              [] r.op = "BURST" ->
                   /\ Respond("BURST", FALSE, mem[<<r.addr[1], r.addr[2], beat>>])
                   /\ IF beat + 1 \in Off
                      THEN beat' = beat + 1 /\ UNCHANGED reqs
                      ELSE beat' = 0 /\ reqs' = RemoveAt(reqs, i)
                   /\ UNCHANGED mem
    /\ UNCHANGED <<rg_state, rg, rg_exc_code, seqVars, ctr, ramVars, procVars>>

-----------------------------------------------------------------------------
(* The RAMs power up with a pattern whose valid bit is set.                *)
Init ==
    /\ rg_state = "INIT"
    /\ rg \in [op : {"LD"}, addr : {CHOOSE a \in Addr : TRUE}, lanes : {Lane},
               word : {SomeWord}, misaligned : {FALSE}]
    /\ rg_exc_code = 0 /\ rg_word_in_line = 0 /\ rg_cset_addr = {}
    /\ ctr = 0
    /\ tags \in [Set -> Tag]
    /\ words = [s \in Set |-> [o \in Off |-> SomeWord]]
    /\ reqs = << >> /\ rsps = << >> /\ beat = 0
    /\ mem = [a \in Backed |-> SomeWord]
    /\ pending = FALSE /\ ans = Data(<< >>)

Rules == \/ rl_process_RAM_outs \/ rl_start_refill \/ rl_refill_loop \/ rl_rereq
         \/ rl_write_response \/ rl_exception \/ rl_io_req \/ rl_io_read_rsp \/ rl_reset

Memory == \E i \in DOMAIN reqs : MemoryServes(i)

Next == \/ \E r \in Requests : req(r)
        \/ Rules \/ rl_discard_write_rsp \/ req_reset \/ Memory

Spec == Init /\ [][Next]_vars

(* A rule that can fire does, and the memory answers.                      *)
FairSpec == Spec /\ WF_vars(Rules) /\ WF_vars(rl_discard_write_rsp)
                 /\ WF_vars(Memory) /\ WF_vars(req_reset)

-----------------------------------------------------------------------------
TypeOK ==
    /\ rg_state \in STATES
    /\ rg \in [op : {"LD", "ST"}, addr : Addr, lanes : (SUBSET Lane) \ {{}}, word : Word,
              misaligned : BOOLEAN]
    /\ rg_exc_code \in {0, LOAD_MISALIGNED, LOAD_FAULT, STORE_MISALIGNED}
    /\ rg_word_in_line \in Off
    /\ rg_cset_addr \subseteq Set
    /\ ctr \in 0 .. CtrMod - 1
    /\ tags \in [Set -> Tag \cup {NoTag}]
    /\ words \in [Set -> [Off -> Word]]
    /\ reqs \in Seq([op : {"READ", "BURST", "WRITE"}, addr : Addr,
                     lanes : (SUBSET Lane) \ {{}}, word : Word])
    /\ Len(reqs) <= ReqSlots
    /\ rsps \in Seq([kind : {"READ", "BURST", "WRITE"}, err : BOOLEAN, word : Word])
    /\ Len(rsps) <= RspSlots
    /\ beat \in Off
    /\ mem \in [Backed -> Word]
    /\ pending \in BOOLEAN

(* The memory as it will be when the writes on the way have arrived.       *)
WritesTo(a, l) == {i \in DOMAIN reqs : /\ reqs[i].op = "WRITE"
                                      /\ reqs[i].addr = a /\ l \in reqs[i].lanes}

memView == [a \in Backed |-> [l \in Lane |->
              IF WritesTo(a, l) = {} THEN mem[a][l] ELSE reqs[Max(WritesTo(a, l))].word[l]]]

(* A word of a valid line is the word the memory will hold, except for the *)
(* words of the line that is still being refilled: a write-through never   *)
(* overtakes or misses the burst that fills the same line.                 *)
Refilled(s, o) == ~(rg_state = "REFILL_LOOP" /\ s = set /\ o >= rg_word_in_line)

LinesCurrent ==
    rg_state \notin {"INIT", "RESET"} =>
      \A s \in Set, o \in Off :
         tags[s] \in Mapped /\ Refilled(s, o) => words[s][o] = memView[<<tags[s], s, o>>]

(* The credit counter counts the writes on the way, there or back; so it   *)
(* is never 0 when a write response arrives, which would then block the    *)
(* responses behind it for ever.                                           *)
WritesInFlight == Cardinality({i \in DOMAIN reqs : reqs[i].op = "WRITE"})
                    + Cardinality({i \in DOMAIN rsps : rsps[i].kind = "WRITE"})

CreditsMatch == ctr = WritesInFlight

(* Every read response on the way is for the load the processor waits for. *)
ReadsWanted ==
    ((\E i \in DOMAIN reqs : reqs[i].op # "WRITE") \/ (\E i \in DOMAIN rsps : rsps[i].kind # "WRITE"))
      => pending /\ rg.op = "LD" /\ rg_state \in {"START_REFILL", "REFILL_LOOP", "IO_READ_RSP"}

(* The processor is always answered.                                       *)
Answered == pending ~> ~pending
=============================================================================
