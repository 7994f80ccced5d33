---------------------------- MODULE DCache_proofs ----------------------------
(***************************************************************************)
(* What holds of the data cache for every set of tags, sets, words and     *)
(* lanes, and every depth of the buffers between the cache and its memory. *)
(***************************************************************************)
EXTENDS DCacheRefinement, SeqLemmas

(* What the power-up reset starts from and the SoC gives the cache: no     *)
(* second reset, and a counter that the two buffers together cannot wrap.  *)
PowerUpOnly == ~Resets
CounterFits == CtrMod > ReqSlots + RspSlots

-----------------------------------------------------------------------------
(* The inductive invariant.                                                *)
Refilling == rg_state \in {"START_REFILL", "REFILL_LOOP"}
Awaiting == Refilling \/ (rg_state = "IO_READ_RSP" /\ pending)

(* What each state says of the request it works for.                       *)
StateInv ==
    /\ rg_state \in {"INIT", "RESET"} => ~pending /\ reqs = << >> /\ rsps = << >>
    /\ rg_state = "RESET" => \A s \in Set \ rg_cset_addr : tags[s] = NoTag
    /\ rg_state \in {"PROCESS", "START_REFILL", "REFILL_LOOP", "REREQ"}
         => tag \in Tag /\ ~rg.misaligned
    /\ rg_state \in {"START_REFILL", "REFILL_LOOP", "REREQ"} => pending /\ rg.op = "LD"
    /\ rg_state \in {"REFILL_LOOP", "REREQ"} => Hit
    /\ rg_state = "PROCESS" /\ ~pending => rg.op = "LD" /\ Hit
    /\ rg_state \in {"IO_REQ", "IO_READ_RSP"} => tag \in IOTag /\ ~rg.misaligned
    /\ rg_state = "IO_REQ" => pending
    /\ rg_state = "IO_READ_RSP" => rg.op = "LD"
    /\ rg_state = "WRITE_RESPONSE" => rg.op = "ST" /\ ~rg.misaligned
    /\ rg_state = "EXCEPTION" /\ pending =>
         IF rg.misaligned THEN rg_exc_code \in {LOAD_MISALIGNED, STORE_MISALIGNED}
         ELSE rg.op = "LD" /\ rg.addr \notin Backed /\ rg_exc_code = LOAD_FAULT

(* The words a load in progress is still to get are numbered from          *)
(* FirstWord: first those in the responses, in their order, then those the *)
(* request at the end of the buffer still stands for.  count[i] is the     *)
(* number of the word after the first i responses.                         *)
ReadOp == IF Refilling THEN "BURST" ELSE "READ"
FirstWord == IF rg_state = "REFILL_LOOP" THEN rg_word_in_line ELSE 0
LastWord == IF Refilling /\ tag \in Mapped THEN Cardinality(Off) ELSE 1
WordAddr(k) == IF Refilling THEN <<tag, set, k>> ELSE rg.addr

ReadAsked == \E i \in DOMAIN reqs : reqs[i].op # "WRITE"

Counts(count) ==
    /\ count[0] = FirstWord
    /\ \A i \in DOMAIN rsps :
          count[i] = count[i - 1] + (IF rsps[i].kind = "WRITE" THEN 0 ELSE 1)
    /\ \A i, j \in 0 .. Len(rsps) : i <= j => count[i] <= count[j]
    /\ count[Len(rsps)] = IF ReadAsked THEN beat ELSE LastWord

RequestLast ==
    \A i \in DOMAIN reqs : reqs[i].op # "WRITE" =>
       i = Len(reqs) /\ reqs[i].op = ReadOp /\ reqs[i].addr = rg.addr

(* A word on the way is the word the memory will hold.                     *)
WordsRight(count) ==
    \A i \in DOMAIN rsps : rsps[i].kind # "WRITE" =>
       /\ rsps[i].kind = ReadOp
       /\ rsps[i].err = (tag \notin Mapped)
       /\ tag \in Mapped => rsps[i].word = memView[WordAddr(count[i - 1])]

ReadInv ==
    IF Awaiting
    THEN /\ RequestLast
         /\ IF ReadAsked THEN beat < LastWord ELSE beat = 0
         /\ \E count \in [0 .. Len(rsps) -> 0 .. Cardinality(Off)] :
               Counts(count) /\ WordsRight(count)
    ELSE /\ \A i \in DOMAIN reqs : reqs[i].op = "WRITE"
         /\ \A i \in DOMAIN rsps : rsps[i].kind = "WRITE"
         /\ beat = 0

-----------------------------------------------------------------------------
(* Types.                                                                  *)
ReqType == [op : {"READ", "BURST", "WRITE"}, addr : Addr, lanes : (SUBSET Lane) \ {{}},
            word : Word]
RspType == [kind : {"READ", "BURST", "WRITE"}, err : BOOLEAN, word : Word]

LEMMA OffFacts ==
  /\ Cardinality(Off) \in Nat \ {0} /\ Off = 0 .. Cardinality(Off) - 1
  /\ 0 \in Off
  /\ \A k \in Off : k \in Nat /\ (k + 1 \in Off \/ k + 1 = Cardinality(Off))
<1>1. Cardinality(Off) \in Nat
  BY DCacheAssumption, FS_CardinalityType
<1>2. Off # {} /\ Off = 0 .. Cardinality(Off) - 1
  BY DCacheAssumption
<1>3. Cardinality(Off) # 0
  BY <1>1, <1>2
<1> QED
  BY <1>1, <1>2, <1>3

LEMMA WordFacts ==
  /\ SomeWord \in Word
  /\ \A u, w \in Word, lanes \in SUBSET Lane : Overlay(u, lanes, w) \in Word
<1>1. PICK v \in Value : TRUE
  BY DCacheAssumption
<1>2. [l \in Lane |-> v] \in Word
  BY DEF Word
<1>3. SomeWord \in Word
  BY <1>2 DEF SomeWord
<1> QED
  BY <1>3 DEF Overlay, Word

LEMMA AddrFacts ==
  \A a \in Addr : /\ a = <<a[1], a[2], a[3]>>
                  /\ a[1] \in Tag \cup IOTag /\ a[2] \in Set /\ a[3] \in Off
  BY DEF Addr

(* The parts of the request the cache works for.                           *)
LEMMA RequestType ==
  ASSUME TypeOK
  PROVE  /\ rg.op \in {"LD", "ST"} /\ rg.addr \in Addr /\ rg.word \in Word
         /\ rg.lanes \in (SUBSET Lane) \ {{}} /\ rg.misaligned \in BOOLEAN
         /\ tag \in Tag \cup IOTag /\ set \in Set /\ off \in Off
         /\ rg.addr = <<tag, set, off>>
  BY AddrFacts DEF TypeOK, tag, set, off

LEMMA BufferTypes ==
  ASSUME TypeOK
  PROVE  /\ reqs \in Seq(ReqType) /\ rsps \in Seq(RspType)
         /\ Len(reqs) \in Nat /\ DOMAIN reqs = 1 .. Len(reqs)
         /\ Len(rsps) \in Nat /\ DOMAIN rsps = 1 .. Len(rsps)
         /\ \A i \in 1 .. Len(reqs) : reqs[i] \in ReqType
         /\ \A i \in 1 .. Len(rsps) : rsps[i] \in RspType
<1>1. reqs \in Seq(ReqType) /\ rsps \in Seq(RspType)
  BY DEF TypeOK, ReqType, RspType
<1> QED
  BY <1>1, LenProperties, ElementOfSeq

(* What Send, Deq and Respond make of the buffers.                         *)
LEMMA SendType ==
  ASSUME TypeOK, NEW op \in {"READ", "BURST", "WRITE"}, enq_rdy, Send(op)
  PROVE  /\ reqs' \in Seq(ReqType) /\ Len(reqs') = Len(reqs) + 1
         /\ Len(reqs') <= ReqSlots
         /\ \A i \in 1 .. Len(reqs) : reqs'[i] = reqs[i]
         /\ reqs'[Len(reqs) + 1] = [op |-> op, addr |-> rg.addr, lanes |-> rg.lanes,
                                    word |-> rg.word]
<1> DEFINE r == [op |-> op, addr |-> rg.addr, lanes |-> rg.lanes, word |-> rg.word]
<1>1. r \in ReqType
  BY RequestType DEF ReqType
<1>2. reqs' = Append(reqs, r)
  BY DEF Send
<1> HIDE DEF r
<1>3. /\ reqs' \in Seq(ReqType) /\ Len(reqs') = Len(reqs) + 1
      /\ \A i \in 1 .. Len(reqs) : reqs'[i] = reqs[i]
      /\ reqs'[Len(reqs) + 1] = r
  BY <1>1, <1>2, BufferTypes, AppendProperties
<1>4. Len(reqs') <= ReqSlots
  BY <1>3, BufferTypes, DCacheAssumption DEF enq_rdy
<1> QED
  BY <1>3, <1>4 DEF r

LEMMA DeqType ==
  ASSUME TypeOK, rsps # << >>, Deq
  PROVE  /\ Head(rsps) \in RspType /\ Head(rsps) = rsps[1] /\ 1 \in DOMAIN rsps
         /\ rsps' \in Seq(RspType) /\ Len(rsps') = Len(rsps) - 1
         /\ Len(rsps') <= RspSlots
         /\ \A i \in 1 .. Len(rsps') : rsps'[i] = rsps[i + 1]
<1>1. rsps \in Seq(RspType) /\ Len(rsps) \in Nat \ {0} /\ DOMAIN rsps = 1 .. Len(rsps)
  BY BufferTypes, EmptySeq
<1>2. /\ Head(rsps) \in RspType /\ rsps' \in Seq(RspType) /\ Len(rsps') = Len(rsps) - 1
      /\ \A i \in 1 .. Len(rsps') : rsps'[i] = rsps[i + 1]
  BY <1>1, HeadTailProperties DEF Deq
<1>3. Head(rsps) = rsps[1]
  BY <1>1
<1>4. Len(rsps) <= RspSlots /\ RspSlots \in Nat
  BY DCacheAssumption DEF TypeOK
<1> QED
  BY <1>1, <1>2, <1>3, <1>4

LEMMA RespondType ==
  ASSUME TypeOK, NEW kind \in {"READ", "BURST", "WRITE"}, NEW err \in BOOLEAN,
         NEW w \in Word, Respond(kind, err, w)
  PROVE  /\ rsps' \in Seq(RspType) /\ Len(rsps') = Len(rsps) + 1
         /\ Len(rsps') <= RspSlots
         /\ \A i \in 1 .. Len(rsps) : rsps'[i] = rsps[i]
         /\ rsps'[Len(rsps) + 1] = [kind |-> kind, err |-> err, word |-> w]
<1> DEFINE r == [kind |-> kind, err |-> err, word |-> w]
<1>1. r \in RspType
  BY DEF RspType
<1>2. rsps' = Append(rsps, r) /\ Len(rsps) < RspSlots
  BY DEF Respond
<1> HIDE DEF r
<1>3. /\ rsps' \in Seq(RspType) /\ Len(rsps') = Len(rsps) + 1
      /\ \A i \in 1 .. Len(rsps) : rsps'[i] = rsps[i]
      /\ rsps'[Len(rsps) + 1] = r
  BY <1>1, <1>2, BufferTypes, AppendProperties
<1>4. Len(rsps') <= RspSlots
  BY <1>2, <1>3, BufferTypes, DCacheAssumption
<1> QED
  BY <1>3, <1>4 DEF r

LEMMA InitType == Init => TypeOK
<1>1. SUFFICES ASSUME Init PROVE TypeOK
  OBVIOUS
<1>2. PICK a \in Addr : rg \in [op : {"LD"}, addr : {a}, lanes : {Lane},
                               word : {SomeWord}, misaligned : {FALSE}]
  <2>1. PICK t \in Tag, s \in Set : TRUE
    BY DCacheAssumption
  <2>2. <<t, s, 0>> \in Addr
    BY OffFacts DEF Addr
  <2>3. (CHOOSE a \in Addr : TRUE) \in Addr
    BY <2>2
  <2> QED
    BY <1>1, <2>3 DEF Init
<1>3. rg \in [op : {"LD", "ST"}, addr : Addr, lanes : (SUBSET Lane) \ {{}}, word : Word,
              misaligned : BOOLEAN]
  <2>1. Lane \in (SUBSET Lane) \ {{}} /\ SomeWord \in Word
    BY WordFacts, DCacheAssumption
  <2> QED
    BY <1>2, <2>1
<1>4. /\ tags \in [Set -> Tag \cup {NoTag}]
      /\ words \in [Set -> [Off -> Word]]
      /\ mem \in [Backed -> Word]
  BY <1>1, WordFacts DEF Init
<1>5. /\ Len(reqs) <= ReqSlots /\ Len(rsps) <= RspSlots
      /\ reqs \in Seq(ReqType) /\ rsps \in Seq(RspType)
  BY <1>1, DCacheAssumption, EmptySeq DEF Init
<1>6. /\ rg_state = "INIT" /\ rg_exc_code = 0 /\ rg_word_in_line = 0 /\ rg_cset_addr = {}
      /\ ctr = 0 /\ beat = 0 /\ pending = FALSE
  BY <1>1 DEF Init
<1>7. 0 \in 0 .. CtrMod - 1
  BY DCacheAssumption
<1> QED
  BY <1>3, <1>4, <1>5, <1>6, <1>7, OffFacts DEF TypeOK, STATES, ReqType, RspType

LEMMA reqType ==
  ASSUME TypeOK, NEW r \in Requests, req(r)
  PROVE  TypeOK'
<1>1. r \in [op : {"LD", "ST"}, addr : Addr, lanes : (SUBSET Lane) \ {{}}, word : Word,
             misaligned : BOOLEAN]
  BY DCacheAssumption DEF Requests
<1>2. rg_exc_code' \in {0, LOAD_MISALIGNED, LOAD_FAULT, STORE_MISALIGNED}
  BY DEF req, TypeOK, MisalignedCode
<1>3. rg_state' \in STATES /\ pending' \in BOOLEAN
  BY DEF req, STATES
<1> QED
  BY <1>1, <1>2, <1>3 DEF req, TypeOK, seqVars, ramVars, busVars

LEMMA CtrType ==
  ASSUME TypeOK
  PROVE  /\ ctr \in 0 .. CtrMod - 1 /\ CtrMod \in Nat \ {0, 1}
         /\ (ctr + 1) % CtrMod \in 0 .. CtrMod - 1
         /\ ctr # 0 => ctr - 1 \in 0 .. CtrMod - 1
  BY DCacheAssumption DEF TypeOK

LEMMA rl_process_RAM_outsType ==
  ASSUME TypeOK, rl_process_RAM_outs
  PROVE  TypeOK'
<1>1. CASE rl_load_hit
  BY <1>1 DEF rl_load_hit, Answer, TypeOK, seqVars, ramVars, busVars
<1>2. CASE rl_load_miss
  <2>1. enq_rdy /\ Send("BURST")
    BY <1>2 DEF rl_load_miss
  <2>2. reqs' \in Seq(ReqType) /\ Len(reqs') <= ReqSlots
    BY <2>1, SendType
  <2> QED
    BY <1>2, <2>2
       DEF rl_load_miss, TypeOK, seqVars, ramVars, procVars, STATES, ReqType
<1>3. CASE rl_store
  <2>1. enq_rdy /\ Send("WRITE")
    BY <1>3 DEF rl_store
  <2>2. reqs' \in Seq(ReqType) /\ Len(reqs') <= ReqSlots
    BY <2>1, SendType
  <2>3. words' \in [Set -> [Off -> Word]]
    <3>1. words \in [Set -> [Off -> Word]]
      BY DEF TypeOK
    <3>2. Overlay(words[set][off], rg.lanes, rg.word) \in Word
      BY <3>1, RequestType, WordFacts
    <3> QED
      BY <1>3, <3>1, <3>2, RequestType DEF rl_store
  <2>4. ctr' \in 0 .. CtrMod - 1
    BY <1>3, CtrType DEF rl_store, Inc
  <2> QED
    BY <1>3, <2>2, <2>3, <2>4 DEF rl_store, TypeOK, seqVars, procVars, STATES, ReqType
<1> QED
  BY <1>1, <1>2, <1>3 DEF rl_process_RAM_outs

LEMMA rl_start_refillType ==
  ASSUME TypeOK, tag \in Tag, rl_start_refill
  PROVE  TypeOK'
  BY OffFacts, RequestType
     DEF rl_start_refill, TypeOK, STATES, busVars, procVars

LEMMA rl_refill_loopType ==
  ASSUME TypeOK, rl_refill_loop
  PROVE  TypeOK'
<1>1. rsps # << >> /\ Deq
  BY DEF rl_refill_loop, Head1
<1>2. Head(rsps) \in RspType /\ rsps' \in Seq(RspType) /\ Len(rsps') <= RspSlots
  BY <1>1, DeqType
<1>3. UNCHANGED <<rg, rg_cset_addr, ctr, tags, reqs, beat, mem, pending, ans>>
  BY DEF rl_refill_loop, Deq, procVars
<1>4. /\ rg_state' \in STATES
      /\ rg_exc_code' \in {0, LOAD_MISALIGNED, LOAD_FAULT, STORE_MISALIGNED}
      /\ rg_word_in_line' \in Off
  BY DEF rl_refill_loop, TypeOK, STATES
<1>5. words' \in [Set -> [Off -> Word]]
  <2>1. Head(rsps).word \in Word /\ words \in [Set -> [Off -> Word]]
        /\ rg_word_in_line \in Off /\ set \in Set
    BY <1>2, RequestType DEF RspType, TypeOK
  <2> QED
    BY <2>1 DEF rl_refill_loop
<1> QED
  BY <1>2, <1>3, <1>4, <1>5 DEF TypeOK, RspType

LEMMA AnsweringRulesType ==
  ASSUME TypeOK, rl_rereq \/ rl_write_response \/ rl_exception
  PROVE  TypeOK'
  BY DEF TypeOK, rl_rereq, rl_write_response, rl_exception, Answer, seqVars, ramVars,
         busVars, procVars, STATES

LEMMA rl_io_reqType ==
  ASSUME TypeOK, rl_io_req
  PROVE  TypeOK'
<1>1. PICK op \in {"READ", "WRITE"} : enq_rdy /\ Send(op)
  BY DEF rl_io_req
<1>2. reqs' \in Seq(ReqType) /\ Len(reqs') <= ReqSlots
  BY <1>1, SendType
<1>3. ctr' \in 0 .. CtrMod - 1 /\ rg_state' \in STATES
  BY CtrType DEF rl_io_req, Inc, STATES
<1> QED
  BY <1>2, <1>3 DEF rl_io_req, TypeOK, seqVars, ramVars, procVars, ReqType

LEMMA rl_io_read_rspType ==
  ASSUME TypeOK, rl_io_read_rsp
  PROVE  TypeOK'
<1>1. rsps # << >> /\ Deq
  BY DEF rl_io_read_rsp, Head1
<1>2. rsps' \in Seq(RspType) /\ Len(rsps') <= RspSlots /\ UNCHANGED <<reqs, beat, mem>>
  BY <1>1, DeqType DEF Deq
<1>3. /\ rg_state' \in STATES /\ pending' = FALSE
      /\ rg_exc_code' \in {0, LOAD_MISALIGNED, LOAD_FAULT, STORE_MISALIGNED}
  BY DEF rl_io_read_rsp, TypeOK, STATES, Answer
<1> QED
  BY <1>2, <1>3 DEF rl_io_read_rsp, TypeOK, RspType, seqVars, ramVars

LEMMA rl_discard_write_rspType ==
  ASSUME TypeOK, rl_discard_write_rsp
  PROVE  TypeOK'
<1>1. rsps # << >> /\ Deq
  BY DEF rl_discard_write_rsp, Head1
<1>2. rsps' \in Seq(RspType) /\ Len(rsps') <= RspSlots /\ UNCHANGED <<reqs, beat, mem>>
  BY <1>1, DeqType DEF Deq
<1>3. ctr' \in 0 .. CtrMod - 1
  BY CtrType DEF rl_discard_write_rsp
<1> QED
  BY <1>2, <1>3 DEF rl_discard_write_rsp, TypeOK, RspType, seqVars, ramVars, procVars

LEMMA req_resetType ==
  ASSUME TypeOK, req_reset
  PROVE  TypeOK'
<1>1. reqs' \in Seq(ReqType) /\ Len(reqs') <= ReqSlots
  <2>1. ASSUME NEW l \in 1 .. Len(reqs), reqs' = SubSeq(reqs, l, Len(reqs))
        PROVE  reqs' \in Seq(ReqType) /\ Len(reqs') <= Len(reqs)
    BY <2>1, BufferTypes, SubSeqProperties
  <2>2. CASE reqs' = << >>
    BY <2>2, EmptySeq, DCacheAssumption
  <2> QED
    BY <2>1, <2>2, BufferTypes, DCacheAssumption DEF req_reset, Suffixes, TypeOK
<1>2. rsps' \in Seq(RspType) /\ Len(rsps') <= RspSlots
  <2>1. PICK l \in 0 .. Len(rsps) : rsps' = SubSeq(rsps, 1, l)
    BY DEF req_reset, Prefixes
  <2>2. rsps' \in Seq(RspType) /\ Len(rsps') <= Len(rsps)
    BY <2>1, BufferTypes, SubSeqProperties
  <2> QED
    BY <2>2, BufferTypes, DCacheAssumption DEF TypeOK
<1>3. rg_state' \in STATES /\ pending' = FALSE /\ beat' = 0 /\ rg_cset_addr' = Set
  BY DEF req_reset, STATES
<1> QED
  BY <1>1, <1>2, <1>3, OffFacts DEF req_reset, TypeOK, ReqType, RspType, ramVars

LEMMA rl_resetType ==
  ASSUME TypeOK, rl_reset
  PROVE  TypeOK'
<1>1. PICK s \in rg_cset_addr :
        /\ tags' = [tags EXCEPT ![s] = NoTag]
        /\ rg_cset_addr' = rg_cset_addr \ {s}
        /\ rg_state' = IF rg_cset_addr = {s} THEN "READY" ELSE "RESET"
  BY DEF rl_reset
<1>2. tags' \in [Set -> Tag \cup {NoTag}] /\ rg_state' \in STATES
  BY <1>1 DEF TypeOK, STATES
<1> QED
  BY <1>1, <1>2 DEF rl_reset, TypeOK, busVars, procVars

-----------------------------------------------------------------------------
(* The four ways in which the memory serves a request.                     *)
ServesNobody(i) ==
    /\ Target(reqs[i]) = "nobody" /\ Respond(reqs[i].op, TRUE, SomeWord)
    /\ reqs' = RemoveAt(reqs, i) /\ mem' = mem /\ beat' = beat

ServesWrite(i) ==
    /\ Target(reqs[i]) # "nobody" /\ reqs[i].op = "WRITE"
    /\ mem' = [mem EXCEPT ![reqs[i].addr] = Overlay(@, reqs[i].lanes, reqs[i].word)]
    /\ Respond("WRITE", FALSE, SomeWord)
    /\ reqs' = RemoveAt(reqs, i) /\ beat' = beat

ServesRead(i) ==
    /\ Target(reqs[i]) # "nobody" /\ reqs[i].op = "READ"
    /\ Respond("READ", FALSE, mem[reqs[i].addr])
    /\ reqs' = RemoveAt(reqs, i) /\ mem' = mem /\ beat' = beat

ServesBurst(i) ==
    /\ Target(reqs[i]) # "nobody" /\ reqs[i].op = "BURST"
    /\ Respond("BURST", FALSE, mem[<<reqs[i].addr[1], reqs[i].addr[2], beat>>])
    /\ \/ beat + 1 \in Off /\ beat' = beat + 1 /\ reqs' = reqs
       \/ beat + 1 \notin Off /\ beat' = 0 /\ reqs' = RemoveAt(reqs, i)
    /\ mem' = mem

LEMMA ServesCases ==
  ASSUME TypeOK, NEW i \in DOMAIN reqs, MemoryServes(i)
  PROVE  /\ FirstOfTarget(i)
         /\ ServesNobody(i) \/ ServesWrite(i) \/ ServesRead(i) \/ ServesBurst(i)
         /\ UNCHANGED <<rg_state, rg, rg_exc_code, rg_word_in_line, rg_cset_addr, ctr,
                        tags, words, pending, ans>>
<1>1. reqs[i].op \in {"READ", "BURST", "WRITE"}
  BY BufferTypes DEF ReqType
<1>2. UNCHANGED <<rg_state, rg, rg_exc_code, rg_word_in_line, rg_cset_addr, ctr,
                  tags, words, pending, ans>>
  BY DEF MemoryServes, seqVars, ramVars, procVars
<1>3. FirstOfTarget(i)
  BY DEF MemoryServes
<1>4. CASE Target(reqs[i]) = "nobody"
  BY <1>2, <1>3, <1>4 DEF MemoryServes, ServesNobody
<1>5. CASE Target(reqs[i]) # "nobody" /\ reqs[i].op = "WRITE"
  BY <1>2, <1>3, <1>5 DEF MemoryServes, ServesWrite
<1>6. CASE Target(reqs[i]) # "nobody" /\ reqs[i].op = "READ"
  BY <1>2, <1>3, <1>6 DEF MemoryServes, ServesRead
<1>7. CASE Target(reqs[i]) # "nobody" /\ reqs[i].op = "BURST"
  BY <1>2, <1>3, <1>7 DEF MemoryServes, ServesBurst
<1> QED
  BY <1>1, <1>4, <1>5, <1>6, <1>7

LEMMA BackedFacts ==
  ASSUME TypeOK, NEW r \in ReqType, Target(r) # "nobody"
  PROVE  /\ r.addr \in Backed
         /\ \A k \in Off : <<r.addr[1], r.addr[2], k>> \in Backed
  BY AddrFacts DEF Target, Backed, ReqType, Addr

LEMMA MemoryType ==
  ASSUME TypeOK, NEW i \in DOMAIN reqs, MemoryServes(i)
  PROVE  TypeOK'
<1>1. reqs[i] \in ReqType /\ beat \in Off /\ mem \in [Backed -> Word]
  BY BufferTypes DEF TypeOK
<1>2. /\ RemoveAt(reqs, i) \in Seq(ReqType)
      /\ Len(RemoveAt(reqs, i)) <= ReqSlots
      /\ reqs \in Seq(ReqType) /\ Len(reqs) <= ReqSlots
  BY BufferTypes, RemoveAtFacts, DCacheAssumption DEF TypeOK
<1>3. /\ reqs' \in Seq(ReqType) /\ Len(reqs') <= ReqSlots
      /\ beat' \in Off
  BY <1>1, <1>2, ServesCases, OffFacts DEF ServesNobody, ServesWrite, ServesRead, ServesBurst
<1>4. rsps' \in Seq(RspType) /\ Len(rsps') <= RspSlots
  <2>1. CASE ServesNobody(i)
    BY <1>1, <2>1, RespondType, WordFacts DEF ServesNobody, ReqType
  <2>2. CASE ServesWrite(i)
    BY <2>2, RespondType, WordFacts DEF ServesWrite
  <2>3. CASE ServesRead(i)
    BY <1>1, <2>3, RespondType, BackedFacts DEF ServesRead
  <2>4. CASE ServesBurst(i)
    BY <1>1, <2>4, RespondType, BackedFacts DEF ServesBurst
  <2> QED
    BY ServesCases, <2>1, <2>2, <2>3, <2>4
<1>5. mem' \in [Backed -> Word]
  <2>1. CASE ServesWrite(i)
    <3>1. reqs[i].addr \in Backed
      BY <1>1, <2>1, BackedFacts DEF ServesWrite
    <3>2. Overlay(mem[reqs[i].addr], reqs[i].lanes, reqs[i].word) \in Word
      BY <1>1, <3>1, WordFacts DEF ReqType
    <3> QED
      BY <1>1, <2>1, <3>1, <3>2 DEF ServesWrite
  <2> QED
    BY <1>1, <2>1, ServesCases DEF ServesNobody, ServesRead, ServesBurst
<1> QED
  BY <1>3, <1>4, <1>5, ServesCases DEF TypeOK, ReqType, RspType

(* The type invariant needs to know where a refill's tag comes from: the   *)
(* state PROCESS and what follows it are for addresses below 2^30 only.    *)
Cached == rg_state \in {"PROCESS", "START_REFILL", "REFILL_LOOP", "REREQ"}
TypeInv == TypeOK /\ (Cached => tag \in Tag)

LEMMA TypeInductive ==
  ASSUME TypeInv, [Next]_vars
  PROVE  TypeInv'
<1>1. TypeOK /\ (Cached => tag \in Tag)
  BY DEF TypeInv
<1>2. CASE \E r \in Requests : req(r)
  <2>1. PICK r \in Requests : req(r)
    BY <1>2
  <2>2. r.addr[1] \in Tag \cup IOTag
    BY AddrFacts DEF Requests
  <2>3. (Cached => tag \in Tag)'
    BY <2>1, <2>2 DEF req, Cached, tag
  <2> QED
    BY <1>1, <2>1, <2>3, reqType DEF TypeInv
<1>3. CASE rl_process_RAM_outs
  <2>1. (Cached => tag \in Tag)'
    BY <1>1, <1>3 DEF rl_process_RAM_outs, rl_load_hit, rl_load_miss, rl_store, Cached, tag
  <2> QED
    BY <1>1, <1>3, <2>1, rl_process_RAM_outsType DEF TypeInv
<1>4. CASE rl_start_refill
  <2>1. Cached
    BY <1>4 DEF rl_start_refill, Cached
  <2>2. (Cached => tag \in Tag)'
    BY <1>1, <1>4, <2>1 DEF rl_start_refill, Cached, tag
  <2> QED
    BY <1>1, <1>4, <2>1, <2>2, rl_start_refillType DEF TypeInv
<1>5. CASE rl_refill_loop
  <2>1. (Cached => tag \in Tag)'
    BY <1>1, <1>5 DEF rl_refill_loop, Cached, tag
  <2> QED
    BY <1>1, <1>5, <2>1, rl_refill_loopType DEF TypeInv
<1>6. CASE rl_rereq \/ rl_write_response \/ rl_exception
  <2>1. (Cached => tag \in Tag)'
    BY <1>1, <1>6 DEF rl_rereq, rl_write_response, rl_exception, Cached, tag
  <2> QED
    BY <1>1, <1>6, <2>1, AnsweringRulesType DEF TypeInv
<1>7. CASE rl_io_req
  <2>1. (Cached => tag \in Tag)'
    BY <1>7 DEF rl_io_req, Cached, tag
  <2> QED
    BY <1>1, <1>7, <2>1, rl_io_reqType DEF TypeInv
<1>8. CASE rl_io_read_rsp
  <2>1. (Cached => tag \in Tag)'
    BY <1>8 DEF rl_io_read_rsp, Cached, tag
  <2> QED
    BY <1>1, <1>8, <2>1, rl_io_read_rspType DEF TypeInv
<1>9. CASE rl_discard_write_rsp
  <2>1. (Cached => tag \in Tag)'
    BY <1>1, <1>9 DEF rl_discard_write_rsp, Cached, tag
  <2> QED
    BY <1>1, <1>9, <2>1, rl_discard_write_rspType DEF TypeInv
<1>10. CASE req_reset
  <2>1. (Cached => tag \in Tag)'
    BY <1>10 DEF req_reset, Cached
  <2> QED
    BY <1>1, <1>10, <2>1, req_resetType DEF TypeInv
<1>11. CASE rl_reset
  <2>1. (Cached => tag \in Tag)'
    BY <1>11 DEF rl_reset, Cached
  <2> QED
    BY <1>1, <1>11, <2>1, rl_resetType DEF TypeInv
<1>12. CASE Memory
  <2>1. PICK i \in DOMAIN reqs : MemoryServes(i)
    BY <1>12 DEF Memory
  <2>2. (Cached => tag \in Tag)'
    BY <1>1, <2>1 DEF MemoryServes, Cached, tag
  <2> QED
    BY <1>1, <2>1, <2>2, MemoryType DEF TypeInv
<1>13. CASE UNCHANGED vars
  <2>1. TypeOK' /\ (Cached => tag \in Tag)'
    BY <1>1, <1>13 DEF vars, TypeOK, Cached, tag
  <2> QED
    BY <2>1 DEF TypeInv
<1> QED
  BY <1>2, <1>3, <1>4, <1>5, <1>6, <1>7, <1>8, <1>9, <1>10, <1>11, <1>12, <1>13
     DEF Next, Rules

(* Every register, both RAMs and the two buffers keep their types and      *)
(* bounds, also through the resets the SoC may ask for at any time.        *)
THEOREM TypeCorrect == Spec => []TypeOK
<1>1. Init => TypeInv
  BY InitType DEF Init, TypeInv, Cached
<1>2. TypeInv /\ [Next]_vars => TypeInv'
  BY TypeInductive
<1>3. TypeInv => TypeOK
  BY DEF TypeInv
<1> QED
  BY <1>1, <1>2, <1>3, PTL DEF Spec

-----------------------------------------------------------------------------
(* The states.                                                             *)

(* A read response at the head is the next word of the load in progress.   *)
LEMMA HeadIsWanted ==
  ASSUME TypeOK, ReadInv, rsps # << >>, Head(rsps).kind # "WRITE"
  PROVE  /\ Awaiting /\ Head(rsps).kind = ReadOp
         /\ Head(rsps).err = (tag \notin Mapped)
         /\ tag \in Mapped => Head(rsps).word = memView[WordAddr(FirstWord)]
<1>1. 1 \in DOMAIN rsps /\ Head(rsps) = rsps[1]
  <2>1. rsps \in Seq(RspType) /\ Len(rsps) \in Nat \ {0} /\ DOMAIN rsps = 1 .. Len(rsps)
    BY BufferTypes, EmptySeq
  <2> QED
    BY <2>1
<1>2. Awaiting
  BY <1>1 DEF ReadInv
<1>3. PICK count \in [0 .. Len(rsps) -> 0 .. Cardinality(Off)] :
         Counts(count) /\ WordsRight(count)
  BY <1>2 DEF ReadInv
<1>4. count[1 - 1] = FirstWord
  BY <1>3 DEF Counts
<1> QED
  BY <1>1, <1>2, <1>3, <1>4 DEF WordsRight

LEMMA NotBacked ==
  ASSUME TypeOK, tag \notin Mapped
  PROVE  rg.addr \notin Backed
  BY DEF Backed, tag

LEMMA ProcessorState ==
  ASSUME TypeInv, StateInv, NEW r \in Requests, req(r)
  PROVE  StateInv'
<1>1. r.addr[1] \in Tag \cup IOTag /\ r.misaligned \in BOOLEAN /\ r.op \in {"LD", "ST"}
  BY AddrFacts, DCacheAssumption DEF Requests
<1>2. CASE r.misaligned
  <2>1. rg_state' = "EXCEPTION" /\ rg' = r
    BY <1>2 DEF req
  <2>3. rg_exc_code' = MisalignedCode
    BY <1>2, Zenon DEF req
  <2>2. MisalignedCode \in {LOAD_MISALIGNED, STORE_MISALIGNED}
    BY DEF MisalignedCode
  <2> QED
    BY <1>2, <2>1, <2>2, <2>3 DEF StateInv
<1>3. CASE ~r.misaligned /\ r.addr[1] \in IOTag
  <2>1. rg_state' = "IO_REQ" /\ rg' = r /\ pending' = TRUE
    BY <1>3 DEF req
  <2> QED
    BY <1>3, <2>1 DEF StateInv, tag
<1>4. CASE ~r.misaligned /\ r.addr[1] \notin IOTag
  <2>1. rg_state' = "PROCESS" /\ rg' = r /\ pending' = TRUE
    BY <1>4 DEF req
  <2> QED
    BY <1>1, <1>4, <2>1 DEF StateInv, tag
<1> QED
  BY <1>1, <1>2, <1>3, <1>4

LEMMA ProcessState ==
  ASSUME TypeInv, StateInv, rl_process_RAM_outs
  PROVE  StateInv'
<1>1. CASE rl_load_hit
  <2>1. /\ rg_state = "PROCESS" /\ rg.op = "LD" /\ Hit /\ pending' = FALSE
        /\ UNCHANGED <<rg_state, rg, rg_exc_code, rg_cset_addr, tags, reqs, rsps>>
    BY <1>1 DEF rl_load_hit, Answer, seqVars, ramVars, busVars
  <2> QED
    BY <2>1 DEF StateInv, Hit, tag, set
<1>2. CASE rl_load_miss
  <2>1. /\ rg_state = "PROCESS" /\ rg.op = "LD" /\ ~Hit /\ rg_state' = "START_REFILL"
        /\ UNCHANGED <<rg, pending>>
    BY <1>2 DEF rl_load_miss, procVars
  <2> QED
    BY <2>1 DEF StateInv, tag, set
<1>3. CASE rl_store
  <2>1. /\ rg_state = "PROCESS" /\ rg.op = "ST" /\ rg_state' = "WRITE_RESPONSE"
        /\ rg' = rg
    BY <1>3 DEF rl_store
  <2> QED
    BY <2>1 DEF StateInv
<1> QED
  BY <1>1, <1>2, <1>3 DEF rl_process_RAM_outs

LEMMA RefillState ==
  ASSUME TypeInv, StateInv, ReadInv,
         rl_start_refill \/ rl_refill_loop \/ rl_rereq
  PROVE  StateInv'
<1>0. TypeOK
  BY DEF TypeInv
<1>1. CASE rl_start_refill
  <2>1. /\ rg_state = "START_REFILL" /\ rg_state' = "REFILL_LOOP"
        /\ tags' = [tags EXCEPT ![set] = tag]
        /\ UNCHANGED <<rg, pending>>
    BY <1>1 DEF rl_start_refill, procVars
  <2>2. Hit'
    BY <1>0, <2>1, RequestType DEF TypeOK, Hit, tag, set
  <2> QED
    BY <2>1, <2>2 DEF StateInv, tag
<1>2. CASE rl_refill_loop
  <2>1. /\ rg_state = "REFILL_LOOP" /\ rsps # << >> /\ Head(rsps).kind = "BURST"
        /\ UNCHANGED <<rg, pending, tags>>
    BY <1>2 DEF rl_refill_loop, Head1, procVars
  <2>2. CASE Head(rsps).err
    <3>1. rg_state' = "EXCEPTION" /\ rg_exc_code' = LOAD_FAULT
      BY <1>2, <2>2 DEF rl_refill_loop
    <3>2. rg.addr \notin Backed
      BY <1>0, <2>1, <2>2, HeadIsWanted, NotBacked
    <3>3. rg.op = "LD" /\ ~rg.misaligned
      BY <2>1 DEF StateInv
    <3> QED
      BY <2>1, <3>1, <3>2, <3>3 DEF StateInv
  <2>3. CASE ~Head(rsps).err
    <3>1. rg_state' \in {"REFILL_LOOP", "REREQ"}
      BY <1>2, <2>1, <2>3 DEF rl_refill_loop
    <3> QED
      BY <2>1, <3>1 DEF StateInv, Hit, tag, set
  <2> QED
    BY <2>2, <2>3
<1>3. CASE rl_rereq
  <2>1. /\ rg_state = "REREQ" /\ rg_state' = "PROCESS"
        /\ UNCHANGED <<rg, pending, tags>>
    BY <1>3 DEF rl_rereq, procVars, ramVars
  <2> QED
    BY <2>1 DEF StateInv, Hit, tag, set
<1> QED
  BY <1>1, <1>2, <1>3

LEMMA AnswerState ==
  ASSUME TypeInv, StateInv, rl_write_response \/ rl_exception
  PROVE  StateInv'
<1>1. /\ rg_state \in {"WRITE_RESPONSE", "EXCEPTION"} /\ pending' = FALSE
      /\ UNCHANGED <<rg_state, rg, rg_exc_code, reqs, rsps>>
  BY DEF rl_write_response, rl_exception, Answer, busVars
<1> QED
  BY <1>1 DEF StateInv

LEMMA IOState ==
  ASSUME TypeInv, StateInv, ReadInv, rl_io_req \/ rl_io_read_rsp
  PROVE  StateInv'
<1>0. TypeOK
  BY DEF TypeInv
<1>1. CASE rl_io_req
  <2>1. /\ rg_state = "IO_REQ" /\ UNCHANGED <<rg, pending>>
        /\ IF rg.op = "ST" THEN rg_state' = "WRITE_RESPONSE" ELSE rg_state' = "IO_READ_RSP"
    BY <1>1 DEF rl_io_req, procVars
  <2>2. rg.op \in {"LD", "ST"}
    BY <1>0, RequestType
  <2> QED
    BY <2>1, <2>2 DEF StateInv, tag
<1>2. CASE rl_io_read_rsp
  <2>1. /\ rg_state = "IO_READ_RSP" /\ pending' = FALSE /\ rg' = rg
        /\ rg_state' \in {"IO_READ_RSP", "EXCEPTION"}
    BY <1>2 DEF rl_io_read_rsp, Answer
  <2> QED
    BY <2>1 DEF StateInv, tag
<1> QED
  BY <1>1, <1>2

LEMMA ResetState ==
  ASSUME PowerUpOnly, TypeInv, StateInv, req_reset \/ rl_reset
  PROVE  StateInv'
<1>0. TypeOK
  BY DEF TypeInv
<1>1. CASE req_reset
  <2>1. rg_state = "INIT"
    BY <1>1 DEF req_reset, PowerUpOnly
  <2>2. reqs = << >> /\ rsps = << >>
    BY <2>1 DEF StateInv
  <2>3. reqs' = << >> /\ rsps' = << >>
    <3>1. reqs' \in Suffixes(<< >>) /\ rsps' \in Prefixes(<< >>)
      BY <1>1, <2>2 DEF req_reset
    <3>2. Len(<< >>) = 0 /\ 1 .. 0 = {}
      OBVIOUS
    <3>3. \A l \in 0 .. 0 : SubSeq(<< >>, 1, l) = << >>
      BY SubSeqEmpty
    <3> QED
      BY <3>1, <3>2, <3>3 DEF Suffixes, Prefixes
  <2>4. rg_state' = "RESET" /\ rg_cset_addr' = Set /\ pending' = FALSE
    BY <1>1 DEF req_reset
  <2> QED
    BY <2>3, <2>4 DEF StateInv
<1>2. CASE rl_reset
  <2>1. PICK s \in rg_cset_addr :
          /\ tags' = [tags EXCEPT ![s] = NoTag]
          /\ rg_cset_addr' = rg_cset_addr \ {s}
          /\ rg_state' = IF rg_cset_addr = {s} THEN "READY" ELSE "RESET"
    BY <1>2 DEF rl_reset
  <2>2. rg_state = "RESET" /\ UNCHANGED <<reqs, rsps, pending>>
    BY <1>2 DEF rl_reset, busVars, procVars
  <2>3. ASSUME NEW u \in Set \ rg_cset_addr' PROVE tags'[u] = NoTag
    BY <1>0, <2>1, <2>2 DEF StateInv, TypeOK
  <2> QED
    BY <2>1, <2>2, <2>3 DEF StateInv
<1> QED
  BY <1>1, <1>2

LEMMA BusState ==
  ASSUME TypeInv, StateInv, rl_discard_write_rsp \/ Memory
  PROVE  StateInv'
<1>0. TypeOK
  BY DEF TypeInv
<1>1. reqs # << >> \/ rsps # << >>
  BY DEF rl_discard_write_rsp, Head1, Memory
<1>2. UNCHANGED <<rg_state, rg, rg_exc_code, rg_cset_addr, tags, pending>>
  BY DEF rl_discard_write_rsp, Memory, MemoryServes, seqVars, ramVars, procVars
<1> QED
  BY <1>1, <1>2 DEF StateInv, Hit, tag, set

LEMMA StateInductive ==
  ASSUME PowerUpOnly, TypeInv, StateInv, ReadInv, [Next]_vars
  PROVE  StateInv'
<1>1. CASE UNCHANGED vars
  BY <1>1 DEF vars, StateInv, Hit, tag, set
<1> QED
  BY <1>1, ProcessorState, ProcessState, RefillState, AnswerState, IOState, ResetState,
     BusState DEF Next, Rules

-----------------------------------------------------------------------------
(* The memory as it will be.                                               *)
ViewAt(a, l) == IF WritesTo(a, l) = {} THEN mem[a][l]
                ELSE reqs[Max(WritesTo(a, l))].word[l]

LEMMA ViewIs == memView = [a \in Backed |-> [l \in Lane |-> ViewAt(a, l)]]
  BY DEF memView, ViewAt

LEMMA WritesToFacts ==
  ASSUME TypeOK, NEW a, NEW l
  PROVE  /\ WritesTo(a, l) \subseteq 1 .. Len(reqs)
         /\ WritesTo(a, l) # {} =>
              /\ Max(WritesTo(a, l)) \in WritesTo(a, l)
              /\ \A y \in WritesTo(a, l) : Max(WritesTo(a, l)) >= y
              /\ \A m \in WritesTo(a, l) :
                    (\A y \in WritesTo(a, l) : m >= y) => m = Max(WritesTo(a, l))
<1>1. WritesTo(a, l) \subseteq 1 .. Len(reqs) /\ Len(reqs) \in Nat
  BY BufferTypes DEF WritesTo
<1> QED
  BY <1>1, MaxFacts

LEMMA ViewType == TypeOK => memView \in [Backed -> Word]
<1>1. SUFFICES ASSUME TypeOK, NEW a \in Backed, NEW l \in Lane
               PROVE  ViewAt(a, l) \in Value
  BY ViewIs DEF Word
<1>2. CASE WritesTo(a, l) = {}
  BY <1>1, <1>2 DEF ViewAt, TypeOK, Word
<1>3. CASE WritesTo(a, l) # {}
  <2>1. reqs[Max(WritesTo(a, l))] \in ReqType
    BY <1>1, <1>3, WritesToFacts, BufferTypes
  <2> QED
    BY <1>3, <2>1 DEF ViewAt, ReqType, Word
<1> QED
  BY <1>2, <1>3

(* A write that is sent shows at once; what else is sent does not.         *)
LEMMA ViewAfterSend ==
  ASSUME TypeOK, TypeOK', NEW op \in {"READ", "BURST", "WRITE"}, enq_rdy, Send(op),
         mem' = mem
  PROVE  memView' = IF op = "WRITE" /\ rg.addr \in Backed
                    THEN [memView EXCEPT ![rg.addr] = Overlay(@, rg.lanes, rg.word)]
                    ELSE memView
<1> DEFINE n == Len(reqs)
           new(a, l) == op = "WRITE" /\ a = rg.addr /\ l \in rg.lanes
<1>0. /\ n \in Nat /\ DOMAIN reqs = 1 .. n /\ DOMAIN reqs' = 1 .. n + 1
      /\ \A i \in 1 .. n : reqs'[i] = reqs[i]
      /\ reqs'[n + 1] = [op |-> op, addr |-> rg.addr, lanes |-> rg.lanes, word |-> rg.word]
  <2>1. reqs' \in Seq(ReqType) /\ Len(reqs') = n + 1
    BY SendType
  <2>2. DOMAIN reqs' = 1 .. n + 1
    BY <2>1, LenProperties
  <2> QED
    BY <2>2, SendType, BufferTypes
<1>1. ASSUME NEW a, NEW l
      PROVE  WritesTo(a, l)' = IF new(a, l) THEN WritesTo(a, l) \cup {n + 1}
                               ELSE WritesTo(a, l)
  <2>1. ASSUME NEW i \in 1 .. n
        PROVE  i \in WritesTo(a, l)' <=> i \in WritesTo(a, l)
    BY <1>0 DEF WritesTo
  <2>2. n + 1 \in WritesTo(a, l)' <=> new(a, l)
    BY <1>0 DEF WritesTo
  <2>3. WritesTo(a, l)' \subseteq 1 .. n + 1 /\ WritesTo(a, l) \subseteq 1 .. n
    BY <1>0 DEF WritesTo
  <2> HIDE DEF new
  <2>4. \A x : x \in 1 .. n + 1 <=> x \in 1 .. n \/ x = n + 1
    BY <1>0
  <2>5. n + 1 \notin 1 .. n
    BY <1>0
  <2>6. ASSUME NEW x
        PROVE  x \in WritesTo(a, l)' <=>
                 x \in WritesTo(a, l) \/ (new(a, l) /\ x = n + 1)
    BY <2>1, <2>2, <2>3, <2>4, <2>5
  <2> QED
    BY <2>6
<1>2. ASSUME NEW a \in Backed, NEW l \in Lane
      PROVE  ViewAt(a, l)' = IF new(a, l) THEN rg.word[l] ELSE ViewAt(a, l)
  <2>1. CASE new(a, l)
    <3>1. WritesTo(a, l)' = WritesTo(a, l) \cup {n + 1}
      BY <1>1, <2>1
    <3>2. WritesTo(a, l) \subseteq 1 .. n /\ n + 1 \in Nat
      BY <1>0, WritesToFacts
    <3>3. n + 1 = Max(WritesTo(a, l) \cup {n + 1})
      <4>1. WritesTo(a, l) \cup {n + 1} \subseteq 1 .. n + 1
        BY <1>0, <3>2
      <4>2. \A y \in WritesTo(a, l) \cup {n + 1} : n + 1 >= y
        BY <1>0, <4>1
      <4> QED
        BY <3>2, <4>1, <4>2, MaxFacts
    <3>4. ViewAt(a, l)' = reqs'[n + 1].word[l]
      BY <3>1, <3>3 DEF ViewAt
    <3> QED
      BY <1>0, <2>1, <3>4
  <2>2. CASE ~new(a, l)
    <3>1. WritesTo(a, l)' = WritesTo(a, l)
      BY <1>1, <2>2
    <3>2. CASE WritesTo(a, l) = {}
      BY <2>2, <3>1, <3>2 DEF ViewAt
    <3>3. CASE WritesTo(a, l) # {}
      <4>1. Max(WritesTo(a, l)) \in 1 .. n
        BY <3>3, WritesToFacts
      <4> QED
        BY <1>0, <2>2, <3>1, <3>3, <4>1 DEF ViewAt
    <3> QED
      BY <3>2, <3>3
  <2> QED
    BY <2>1, <2>2
<1>3. memView' = [a \in Backed |-> [l \in Lane |-> ViewAt(a, l)']]
  BY ViewIs DEF ViewAt, memView
<1> HIDE DEF new
<1>4. memView' = [a \in Backed |-> [l \in Lane |->
                    IF new(a, l) THEN rg.word[l] ELSE ViewAt(a, l)]]
  BY <1>2, <1>3
<1>5. CASE op = "WRITE" /\ rg.addr \in Backed
  <2>1. ASSUME NEW a \in Backed
        PROVE  [l \in Lane |-> IF new(a, l) THEN rg.word[l] ELSE ViewAt(a, l)] =
               IF a = rg.addr THEN Overlay(memView[rg.addr], rg.lanes, rg.word)
               ELSE memView[a]
    BY <1>5, ViewIs DEF Overlay, new
  <2> QED
    BY <1>4, <1>5, <2>1, ViewIs
<1>6. CASE ~(op = "WRITE" /\ rg.addr \in Backed)
  <2>1. \A a \in Backed, l \in Lane : ~new(a, l)
    BY <1>6 DEF new
  <2> QED
    BY <1>4, <1>6, <2>1, ViewIs
<1> QED
  BY <1>5, <1>6

(* A request that is served, and so leaves the buffer, does not show.      *)
LEMMA ViewAfterRemoval ==
  ASSUME TypeOK, NEW i \in DOMAIN reqs, FirstOfTarget(i), reqs' = RemoveAt(reqs, i),
         mem' = IF reqs[i].op = "WRITE" /\ Target(reqs[i]) # "nobody"
                THEN [mem EXCEPT ![reqs[i].addr] = Overlay(@, reqs[i].lanes, reqs[i].word)]
                ELSE mem
  PROVE  memView' = memView
<1> DEFINE n == Len(reqs)
<1>0. /\ n \in Nat /\ DOMAIN reqs = 1 .. n /\ i \in 1 .. n /\ n - 1 \in Nat
      /\ \A j \in 1 .. n : reqs[j] \in ReqType
      /\ DOMAIN reqs' = 1 .. n - 1
      /\ \A j \in 1 .. n - 1 : reqs'[j] = IF j < i THEN reqs[j] ELSE reqs[j + 1]
  <2>1. /\ reqs' \in Seq(ReqType) /\ Len(reqs') = n - 1
        /\ \A j \in 1 .. n - 1 : reqs'[j] = IF j < i THEN reqs[j] ELSE reqs[j + 1]
    BY BufferTypes, RemoveAtFacts
  <2>2. DOMAIN reqs' = 1 .. n - 1
    BY <2>1, LenProperties
  <2>3. /\ n \in Nat /\ DOMAIN reqs = 1 .. n /\ i \in 1 .. n
        /\ \A j \in 1 .. n : reqs[j] \in ReqType
    BY BufferTypes
  <2>4. n - 1 \in Nat
    BY <2>3
  <2> HIDE DEF n
  <2> QED
    BY <2>1, <2>2, <2>3, <2>4
<1>1. SUFFICES ASSUME NEW a \in Backed, NEW l \in Lane
               PROVE  ViewAt(a, l)' = ViewAt(a, l)
  <2>1. memView' = [a \in Backed |-> [l \in Lane |-> ViewAt(a, l)']]
    BY ViewIs DEF ViewAt, memView
  <2> QED
    BY <1>1, <2>1, ViewIs
<1> DEFINE W == WritesTo(a, l)
<1>2. /\ W \subseteq 1 .. n
      /\ W # {} => Max(W) \in W /\ \A y \in W : Max(W) >= y
      /\ \A m \in W : (\A y \in W : m >= y) => m = Max(W)
  BY WritesToFacts
<1>3. \A j \in 1 .. n - 1 :
         j \in WritesTo(a, l)' <=> IF j < i THEN j \in W ELSE j + 1 \in W
  BY <1>0 DEF WritesTo
<1>4. /\ WritesTo(a, l)' \subseteq 1 .. n - 1
      /\ \A m \in WritesTo(a, l)' : (\A y \in WritesTo(a, l)' : m >= y)
            => m = Max(WritesTo(a, l)')
  <2>1. WritesTo(a, l)' \subseteq 1 .. n - 1
    BY <1>0 DEF WritesTo
  <2> QED
    BY <1>0, <2>1, MaxFacts
<1>5. a[1] \in Mapped
  BY DEF Backed
<1>6. CASE i \notin W
  <2>1. mem'[a][l] = mem[a][l]
    <3>1. CASE mem' = mem
      BY <3>1
    <3>2. CASE reqs[i].op = "WRITE" /\ Target(reqs[i]) # "nobody"
      <4>1. a # reqs[i].addr \/ l \notin reqs[i].lanes
        BY <1>0, <1>6, <3>2 DEF WritesTo
      <4>2. mem \in [Backed -> Word] /\ reqs[i].addr \in Backed
        BY <1>0, <3>2, BackedFacts DEF TypeOK
      <4> QED
        BY <3>2, <4>1, <4>2 DEF Overlay
    <3> QED
      BY <3>1, <3>2
  <2>2. CASE W = {}
    <3>1. WritesTo(a, l)' = {}
      BY <1>3, <1>4, <2>2
    <3> QED
      BY <2>1, <2>2, <3>1 DEF ViewAt
  <2>3. CASE W # {}
    <3> DEFINE m == IF Max(W) < i THEN Max(W) ELSE Max(W) - 1
    <3>1. Max(W) \in W /\ Max(W) \in 1 .. n /\ Max(W) # i
      BY <1>2, <1>6, <2>3
    <3>2. m \in 1 .. n - 1 /\ (IF m < i THEN m ELSE m + 1) = Max(W)
      BY <1>0, <3>1
    <3>3. m \in WritesTo(a, l)'
      BY <1>3, <3>1, <3>2
    <3>4. ASSUME NEW y \in WritesTo(a, l)' PROVE m >= y
      <4>1. y \in 1 .. n - 1 /\ (IF y < i THEN y ELSE y + 1) \in W
        BY <1>3, <1>4
      <4>2. Max(W) >= (IF y < i THEN y ELSE y + 1)
        BY <1>2, <4>1
      <4> QED
        BY <1>0, <3>1, <4>1, <4>2
    <3>5. m = Max(WritesTo(a, l)')
      BY <1>4, <3>3, <3>4
    <3>6. reqs'[m] = reqs[Max(W)]
      BY <1>0, <3>2
    <3> QED
      BY <2>3, <3>3, <3>5, <3>6 DEF ViewAt
  <2> QED
    BY <2>2, <2>3
<1>7. CASE i \in W
  <2>1. reqs[i].op = "WRITE" /\ reqs[i].addr = a /\ l \in reqs[i].lanes
        /\ Target(reqs[i]) # "nobody"
    BY <1>5, <1>7 DEF WritesTo, Target
  <2>2. mem'[a][l] = reqs[i].word[l]
    <3>1. mem \in [Backed -> Word]
      BY DEF TypeOK
    <3> QED
      BY <2>1, <3>1 DEF Overlay
  <2>3. \A j \in W : j >= i
    <3>1. SUFFICES ASSUME NEW j \in W, j < i PROVE FALSE
      BY <1>0, <1>2
    <3>2. reqs[j].addr = a /\ j \in 1 .. i - 1
      BY <1>0, <1>2, <3>1 DEF WritesTo
    <3>3. Target(reqs[j]) = Target(reqs[i])
      BY <2>1, <3>2 DEF Target
    <3> QED
      BY <3>2, <3>3 DEF FirstOfTarget
  <2>4. CASE W = {i}
    <3>1. WritesTo(a, l)' = {}
      BY <1>0, <1>3, <1>4, <2>4
    <3>2. Max(W) = i
      BY <1>2, <1>7, <2>4
    <3> QED
      BY <2>2, <2>4, <3>1, <3>2 DEF ViewAt
  <2>5. CASE W # {i}
    <3> DEFINE m == Max(W) - 1
    <3>1. Max(W) \in W /\ Max(W) \in 1 .. n /\ Max(W) > i
      <4>1. PICK k \in W : k # i
        BY <1>7, <2>5
      <4>2. Max(W) \in W /\ Max(W) >= k
        BY <1>2, <4>1
      <4> QED
        BY <1>0, <1>2, <2>3, <4>1, <4>2
    <3>2. m \in 1 .. n - 1 /\ ~(m < i) /\ m + 1 = Max(W)
      BY <1>0, <3>1
    <3>3. m \in WritesTo(a, l)'
      BY <1>3, <3>1, <3>2
    <3>4. ASSUME NEW y \in WritesTo(a, l)' PROVE m >= y
      <4>1. y \in 1 .. n - 1 /\ (IF y < i THEN y ELSE y + 1) \in W
        BY <1>3, <1>4
      <4>2. ~(y < i)
        BY <1>0, <2>3, <4>1
      <4>3. Max(W) >= y + 1
        BY <1>2, <4>1, <4>2
      <4> QED
        BY <1>0, <3>1, <4>1, <4>3
    <3>5. m = Max(WritesTo(a, l)')
      BY <1>4, <3>3, <3>4
    <3>6. reqs'[m] = reqs[Max(W)]
      BY <1>0, <3>2
    <3> QED
      BY <1>7, <3>3, <3>5, <3>6 DEF ViewAt
  <2> QED
    BY <2>4, <2>5
<1> QED
  BY <1>6, <1>7

LEMMA ViewAfterService ==
  ASSUME TypeOK, NEW i \in DOMAIN reqs, MemoryServes(i)
  PROVE  memView' = memView
<1>1. CASE reqs' = reqs /\ mem' = mem
  BY <1>1 DEF memView, WritesTo
<1>2. CASE ~(reqs' = reqs /\ mem' = mem)
  <2>1. FirstOfTarget(i) /\ reqs' = RemoveAt(reqs, i)
    BY <1>2, ServesCases DEF ServesNobody, ServesWrite, ServesRead, ServesBurst
  <2>2. mem' = IF reqs[i].op = "WRITE" /\ Target(reqs[i]) # "nobody"
               THEN [mem EXCEPT ![reqs[i].addr] =
                                  Overlay(@, reqs[i].lanes, reqs[i].word)]
               ELSE mem
    BY ServesCases DEF ServesNobody, ServesWrite, ServesRead, ServesBurst
  <2> QED
    BY <2>1, <2>2, ViewAfterRemoval
<1> QED
  BY <1>1, <1>2

LEMMA ViewUnchanged ==
  ASSUME reqs' = reqs, mem' = mem
  PROVE  memView' = memView
  BY DEF memView, WritesTo

(* What the memory reads for the first request to its target is what it    *)
(* will hold: no write to that address is before it or, at the end of the  *)
(* buffer, behind it.                                                      *)
LEMMA ViewOfLast ==
  ASSUME TypeOK, reqs # << >>, FirstOfTarget(Len(reqs)), reqs[Len(reqs)].op # "WRITE",
         NEW a \in Backed, a[1] = reqs[Len(reqs)].addr[1]
  PROVE  memView[a] = mem[a]
<1>1. Len(reqs) \in Nat \ {0} /\ DOMAIN reqs = 1 .. Len(reqs)
  BY BufferTypes, EmptySeq
<1>2. ASSUME NEW l \in Lane PROVE WritesTo(a, l) = {}
  <2>1. SUFFICES ASSUME NEW j \in WritesTo(a, l) PROVE FALSE
    OBVIOUS
  <2>2. j \in 1 .. Len(reqs) /\ reqs[j].op = "WRITE" /\ reqs[j].addr = a
    BY <1>1 DEF WritesTo
  <2>3. j \in 1 .. Len(reqs) - 1
    BY <1>1, <2>2
  <2>4. Target(reqs[j]) = Target(reqs[Len(reqs)])
    BY <2>2 DEF Target
  <2> QED
    BY <2>3, <2>4 DEF FirstOfTarget
<1>3. memView[a] = [l \in Lane |-> mem[a][l]]
  BY <1>2, ViewIs DEF ViewAt
<1>4. mem[a] \in Word
  BY DEF TypeOK
<1> QED
  BY <1>3, <1>4 DEF Word

-----------------------------------------------------------------------------
(* The words of a load in progress.                                        *)
LEMMA LastWordFacts ==
  ASSUME TypeOK
  PROVE  /\ LastWord \in 1 .. Cardinality(Off) /\ FirstWord \in Off
         /\ beat \in Nat /\ FirstWord \in Nat /\ LastWord \in Nat
  BY OffFacts DEF LastWord, FirstWord, TypeOK

(* The first response, if it is a word, is one the load still needs; if    *)
(* that was the last one, nothing else is on the way.                      *)
LEMMA HeadCounted ==
  ASSUME TypeOK, ReadInv, Awaiting, rsps # << >>, Head(rsps).kind # "WRITE"
  PROVE  /\ FirstWord + 1 <= LastWord
         /\ FirstWord + 1 = LastWord =>
              /\ ~ReadAsked /\ beat = 0
              /\ \A i \in DOMAIN rsps : i # 1 => rsps[i].kind = "WRITE"
<1> DEFINE n == Len(rsps)
<1>1. rsps \in Seq(RspType) /\ n \in Nat \ {0} /\ DOMAIN rsps = 1 .. n
      /\ Head(rsps) = rsps[1]
  <2>1. rsps \in Seq(RspType) /\ n \in Nat \ {0} /\ DOMAIN rsps = 1 .. n
    BY BufferTypes, EmptySeq
  <2> QED
    BY <2>1
<1>2. PICK count \in [0 .. n -> 0 .. Cardinality(Off)] : Counts(count) /\ WordsRight(count)
  BY DEF ReadInv
<1>3. /\ count[0] = FirstWord
      /\ \A i \in 1 .. n : count[i] = count[i - 1] + (IF rsps[i].kind = "WRITE" THEN 0 ELSE 1)
      /\ \A i, j \in 0 .. n : i <= j => count[i] <= count[j]
      /\ count[n] = IF ReadAsked THEN beat ELSE LastWord
  BY <1>1, <1>2 DEF Counts
<1>4. \A i \in 0 .. n : count[i] \in Nat
  BY <1>2, OffFacts
<1> HIDE DEF n
<1>5. count[1] = FirstWord + 1 /\ count[1] <= count[n]
  <2>1. 1 \in 1 .. n /\ 1 \in 0 .. n /\ n \in 0 .. n /\ 1 <= n /\ 1 - 1 = 0
    BY <1>1
  <2> QED
    BY <1>1, <1>3, <2>1
<1>6. IF ReadAsked THEN beat < LastWord ELSE beat = 0
  BY DEF ReadInv
<1>7. FirstWord + 1 <= LastWord
  BY <1>3, <1>5, <1>6, LastWordFacts
<1>8. ASSUME FirstWord + 1 = LastWord
      PROVE  /\ ~ReadAsked /\ beat = 0
             /\ \A i \in 1 .. n : i # 1 => rsps[i].kind = "WRITE"
  <2>1. ~ReadAsked
    BY <1>3, <1>5, <1>6, <1>8, LastWordFacts
  <2>2. count[n] = count[1]
    BY <1>3, <1>5, <1>8, <2>1
  <2>3. ASSUME NEW i \in 1 .. n, i # 1 PROVE rsps[i].kind = "WRITE"
    <3>1. i - 1 \in 0 .. n /\ i \in 0 .. n /\ 1 <= i - 1 /\ i <= n
          /\ 1 \in 0 .. n /\ n \in 0 .. n
      BY <1>1, <2>3
    <3>2. count[1] <= count[i - 1] /\ count[i] <= count[n]
      BY <1>3, <3>1
    <3>3. count[i] = count[i - 1] + (IF rsps[i].kind = "WRITE" THEN 0 ELSE 1)
      BY <1>3
    <3>4. count[1] \in Nat /\ count[i] \in Nat /\ count[i - 1] \in Nat
      BY <1>4, <3>1
    <3> QED
      BY <2>2, <3>2, <3>3, <3>4
  <2> QED
    BY <1>6, <2>1, <2>3
<1> QED
  BY <1>1, <1>7, <1>8

(* A response leaves the buffer and the load goes on.                      *)
LEMMA ReadAfterDeq ==
  ASSUME TypeOK, ReadInv, Awaiting, Awaiting', rsps # << >>, Deq,
         rg' = rg, Refilling' = Refilling,
         FirstWord' = FirstWord + (IF Head(rsps).kind = "WRITE" THEN 0 ELSE 1)
  PROVE  ReadInv'
<1>0. PICK n : n = Len(rsps)
  OBVIOUS
<1>1. rsps \in Seq(RspType) /\ n \in Nat \ {0} /\ DOMAIN rsps = 1 .. n
      /\ Head(rsps) = rsps[1]
  <2>1. rsps \in Seq(RspType) /\ n \in Nat \ {0} /\ DOMAIN rsps = 1 .. n
    BY <1>0, BufferTypes, EmptySeq
  <2> QED
    BY <2>1
<1>2. PICK count \in [0 .. n -> 0 .. Cardinality(Off)] : Counts(count) /\ WordsRight(count)
  BY <1>0 DEF ReadInv
<1>3. /\ count[0] = FirstWord
      /\ \A i \in 1 .. n : count[i] = count[i - 1] + (IF rsps[i].kind = "WRITE" THEN 0 ELSE 1)
      /\ \A i, j \in 0 .. n : i <= j => count[i] <= count[j]
      /\ count[n] = IF ReadAsked THEN beat ELSE LastWord
  BY <1>0, <1>1, <1>2 DEF Counts
<1>4. /\ Len(rsps') = n - 1 /\ n - 1 \in Nat /\ DOMAIN rsps' = 1 .. n - 1
      /\ \A i \in 1 .. n - 1 : rsps'[i] = rsps[i + 1]
  <2>1. rsps' \in Seq(RspType) /\ Len(rsps') = n - 1
        /\ \A i \in 1 .. Len(rsps') : rsps'[i] = rsps[i + 1]
    BY <1>0, DeqType
  <2>2. DOMAIN rsps' = 1 .. Len(rsps')
    BY <2>1, LenProperties
  <2>3. n - 1 \in Nat
    BY <1>1
  <2> QED
    BY <2>1, <2>2, <2>3
<1>5. /\ reqs' = reqs /\ beat' = beat /\ memView' = memView
  BY ViewUnchanged DEF Deq
<1>6. /\ ReadAsked' = ReadAsked /\ LastWord' = LastWord /\ ReadOp' = ReadOp /\ tag' = tag
      /\ \A k : WordAddr(k)' = WordAddr(k)
  BY <1>5 DEF ReadAsked, LastWord, ReadOp, WordAddr, tag, set
<1>7. PICK c \in [0 .. n - 1 -> 0 .. Cardinality(Off)] :
         \A i \in 0 .. n - 1 : c[i] = count[i + 1]
  <2>1. [i \in 0 .. n - 1 |-> count[i + 1]] \in [0 .. n - 1 -> 0 .. Cardinality(Off)]
    BY <1>1, <1>2
  <2> QED
    BY <2>1
<1>8. \A i \in 0 .. n - 1 : i + 1 \in 0 .. n /\ c[i] = count[i + 1]
  BY <1>1, <1>7
<1>9. Counts(c)'
  <2>1. c[0] = FirstWord'
    <3>1. 0 \in 0 .. n - 1 /\ 1 \in 1 .. n /\ 1 - 1 = 0 /\ 0 + 1 = 1
      BY <1>1
    <3>2. c[0] = count[1]
      BY <1>8, <3>1
    <3> QED
      BY <1>1, <1>3, <3>1, <3>2
  <2>2. ASSUME NEW i \in 1 .. n - 1
        PROVE  c[i] = c[i - 1] + (IF rsps'[i].kind = "WRITE" THEN 0 ELSE 1)
    <3>1. i \in 0 .. n - 1 /\ i - 1 \in 0 .. n - 1 /\ i + 1 \in 1 .. n
          /\ (i - 1) + 1 = i /\ (i + 1) - 1 = i
      BY <1>1
    <3>2. c[i] = count[i + 1] /\ c[i - 1] = count[i]
      BY <1>8, <3>1
    <3>3. count[i + 1] = count[i] + (IF rsps[i + 1].kind = "WRITE" THEN 0 ELSE 1)
      BY <1>3, <3>1
    <3> QED
      BY <1>4, <3>2, <3>3
  <2>3. ASSUME NEW i \in 0 .. n - 1, NEW j \in 0 .. n - 1, i <= j
        PROVE  c[i] <= c[j]
    <3>1. i + 1 <= j + 1
      BY <2>3
    <3> QED
      BY <1>3, <1>8, <3>1
  <2>4. c[n - 1] = IF ReadAsked THEN beat ELSE LastWord
    <3>1. n - 1 \in 0 .. n - 1 /\ (n - 1) + 1 = n
      BY <1>1
    <3>2. c[n - 1] = count[n]
      BY <1>8, <3>1
    <3> QED
      BY <1>3, <3>2
  <2> QED
    BY <1>4, <1>5, <1>6, <2>1, <2>2, <2>3, <2>4 DEF Counts
<1>10. WordsRight(c)'
  <2>1. SUFFICES ASSUME NEW i \in 1 .. n - 1, rsps'[i].kind # "WRITE"
                 PROVE  /\ rsps'[i].kind = ReadOp
                        /\ rsps'[i].err = (tag \notin Mapped)
                        /\ tag \in Mapped => rsps'[i].word = memView[WordAddr(c[i - 1])]
    BY <1>4, <1>5, <1>6 DEF WordsRight
  <2>2. i + 1 \in DOMAIN rsps /\ (i + 1) - 1 = i /\ i - 1 \in 0 .. n - 1 /\ (i - 1) + 1 = i
    BY <1>1
  <2>3. rsps'[i] = rsps[i + 1] /\ c[i - 1] = count[i]
    BY <1>4, <1>8, <2>2
  <2> QED
    BY <1>2, <2>1, <2>2, <2>3 DEF WordsRight
<1>11. RequestLast' /\ IF ReadAsked' THEN beat' < LastWord' ELSE beat' = 0
  BY <1>5, <1>6 DEF ReadInv, RequestLast
<1>12. c \in [0 .. Len(rsps') -> 0 .. Cardinality(Off)]
  BY <1>4, <1>7
<1> QED
  BY <1>9, <1>10, <1>11, <1>12 DEF ReadInv

(* A response joins the buffer: of a write, which changes no number, or    *)
(* the next word that the request stood for.                               *)
LEMMA ReadAfterRespond ==
  ASSUME TypeOK, ReadInv, Awaiting,
         NEW kind \in {"READ", "BURST", "WRITE"}, NEW err \in BOOLEAN, NEW w \in Word,
         Respond(kind, err, w), memView' = memView,
         UNCHANGED <<rg_state, rg, rg_word_in_line, pending>>,
         RequestLast', IF ReadAsked' THEN beat' < LastWord ELSE beat' = 0,
         (IF ReadAsked' THEN beat' ELSE LastWord) =
           (IF ReadAsked THEN beat ELSE LastWord) + (IF kind = "WRITE" THEN 0 ELSE 1),
         kind # "WRITE" =>
            /\ ReadAsked /\ kind = ReadOp /\ err = (tag \notin Mapped)
            /\ tag \in Mapped => w = memView[WordAddr(beat)],
         beat' \in Off
  PROVE  ReadInv'
<1> DEFINE now == IF ReadAsked THEN beat ELSE LastWord
           next == IF ReadAsked' THEN beat' ELSE LastWord
<1>0. PICK n : n = Len(rsps)
  OBVIOUS
<1>1. n \in Nat /\ DOMAIN rsps = 1 .. n
  BY <1>0, BufferTypes
<1>2. PICK count \in [0 .. n -> 0 .. Cardinality(Off)] : Counts(count) /\ WordsRight(count)
  BY <1>0 DEF ReadInv
<1>3. /\ count[0] = FirstWord
      /\ \A i \in 1 .. n : count[i] = count[i - 1] + (IF rsps[i].kind = "WRITE" THEN 0 ELSE 1)
      /\ \A i, j \in 0 .. n : i <= j => count[i] <= count[j]
      /\ count[n] = now
  BY <1>0, <1>1, <1>2 DEF Counts
<1>4. /\ Len(rsps') = n + 1 /\ DOMAIN rsps' = 1 .. n + 1
      /\ \A i \in 1 .. n : rsps'[i] = rsps[i]
      /\ rsps'[n + 1] = [kind |-> kind, err |-> err, word |-> w]
  <2>1. /\ rsps' \in Seq(RspType) /\ Len(rsps') = n + 1
        /\ \A i \in 1 .. n : rsps'[i] = rsps[i]
        /\ rsps'[n + 1] = [kind |-> kind, err |-> err, word |-> w]
    BY <1>0, RespondType
  <2>2. DOMAIN rsps' = 1 .. Len(rsps')
    BY <2>1, LenProperties
  <2> QED
    BY <2>1, <2>2
<1>5. /\ LastWord' = LastWord /\ ReadOp' = ReadOp /\ tag' = tag /\ FirstWord' = FirstWord
      /\ Awaiting' = Awaiting
      /\ \A k : WordAddr(k)' = WordAddr(k)
  BY DEF LastWord, ReadOp, WordAddr, tag, set, FirstWord, Awaiting, Refilling
<1>6. next \in 0 .. Cardinality(Off) /\ now \in Nat /\ next = now + (IF kind = "WRITE" THEN 0 ELSE 1)
  BY LastWordFacts, OffFacts
<1>7. PICK c \in [0 .. n + 1 -> 0 .. Cardinality(Off)] :
         /\ \A i \in 0 .. n : c[i] = count[i]
         /\ c[n + 1] = next
  <2> DEFINE d == [i \in 0 .. n + 1 |-> IF i = n + 1 THEN next ELSE count[i]]
  <2> HIDE DEF next
  <2>1. \A i \in 0 .. n + 1 : i # n + 1 => i \in 0 .. n
    BY <1>1
  <2>2. d \in [0 .. n + 1 -> 0 .. Cardinality(Off)]
    BY <1>2, <1>6, <2>1
  <2>3. \A i \in 0 .. n : i \in 0 .. n + 1 /\ i # n + 1
    BY <1>1
  <2>4. n + 1 \in 0 .. n + 1
    BY <1>1
  <2> QED
    BY <2>2, <2>3, <2>4
<1>8. \A i \in 0 .. n : count[i] \in Nat /\ count[i] <= now
  <2>1. \A i \in 0 .. n : i <= n /\ n \in 0 .. n /\ count[i] \in Nat
    BY <1>1, <1>2, OffFacts
  <2> HIDE DEF now
  <2> QED
    BY <1>3, <2>1
<1> HIDE DEF now, next
<1>9. Counts(c)'
  <2>1. c[0] = FirstWord
    BY <1>1, <1>3, <1>7
  <2>2. ASSUME NEW i \in 1 .. n + 1
        PROVE  c[i] = c[i - 1] + (IF rsps'[i].kind = "WRITE" THEN 0 ELSE 1)
    <3>1. CASE i = n + 1
      <4>1. c[i - 1] = now /\ c[i] = next /\ rsps'[i].kind = kind
        BY <1>1, <1>3, <1>4, <1>7, <3>1
      <4> QED
        BY <1>6, <4>1
    <3>2. CASE i # n + 1
      <4>1. i \in 1 .. n /\ i \in 0 .. n /\ i - 1 \in 0 .. n
        BY <1>1, <3>2
      <4> QED
        BY <1>3, <1>4, <1>7, <4>1
    <3> QED
      BY <3>1, <3>2
  <2>3. ASSUME NEW i \in 0 .. n + 1, NEW j \in 0 .. n + 1, i <= j
        PROVE  c[i] <= c[j]
    <3>1. CASE j # n + 1
      <4>1. i \in 0 .. n /\ j \in 0 .. n
        BY <1>1, <2>3, <3>1
      <4> QED
        BY <1>3, <1>7, <2>3, <4>1
    <3>2. CASE j = n + 1 /\ i # n + 1
      <4>1. i \in 0 .. n
        BY <1>1, <3>2
      <4>2. c[i] \in Nat /\ c[i] <= now
        BY <1>7, <1>8, <4>1
      <4> QED
        BY <1>6, <1>7, <3>2, <4>2
    <3>3. CASE j = n + 1 /\ i = n + 1
      BY <1>6, <1>7, <3>3
    <3> QED
      BY <3>1, <3>2, <3>3
  <2>4. c[n + 1] = IF ReadAsked' THEN beat' ELSE LastWord
    BY <1>7 DEF next
  <2> QED
    BY <1>4, <1>5, <2>1, <2>2, <2>3, <2>4 DEF Counts
<1>10. WordsRight(c)'
  <2>1. SUFFICES ASSUME NEW i \in 1 .. n + 1, rsps'[i].kind # "WRITE"
                 PROVE  /\ rsps'[i].kind = ReadOp
                        /\ rsps'[i].err = (tag \notin Mapped)
                        /\ tag \in Mapped => rsps'[i].word = memView[WordAddr(c[i - 1])]
    BY <1>4, <1>5 DEF WordsRight
  <2>2. CASE i = n + 1
    <3>1. kind # "WRITE" /\ rsps'[i] = [kind |-> kind, err |-> err, word |-> w]
      BY <1>4, <2>1, <2>2
    <3>2. c[i - 1] = beat
      BY <1>1, <1>3, <1>7, <2>2, <3>1 DEF now
    <3> QED
      BY <3>1, <3>2
  <2>3. CASE i # n + 1
    <3>1. i \in DOMAIN rsps /\ i \in 1 .. n /\ i - 1 \in 0 .. n
      BY <1>1, <2>3
    <3>2. rsps'[i] = rsps[i] /\ c[i - 1] = count[i - 1]
      BY <1>4, <1>7, <3>1
    <3> QED
      BY <1>2, <2>1, <3>1, <3>2 DEF WordsRight
  <2> QED
    BY <2>2, <2>3
<1>11. c \in [0 .. Len(rsps') -> 0 .. Cardinality(Off)]
  BY <1>4, <1>7
<1> QED
  BY <1>5, <1>9, <1>10, <1>11 DEF ReadInv

(* A load or a device read has been asked for: the request is the last.    *)
LEMMA ReadAfterAsk ==
  ASSUME TypeOK, ReadInv, ~Awaiting, NEW op \in {"READ", "BURST"}, enq_rdy, Send(op),
         UNCHANGED <<rg, rsps, beat>>, Awaiting', FirstWord' = 0, ReadOp' = op,
         LastWord' \in 1 .. Cardinality(Off)
  PROVE  ReadInv'
<1>0. PICK n, m : n = Len(rsps) /\ m = Len(reqs)
  OBVIOUS
<1>1. /\ n \in Nat /\ DOMAIN rsps = 1 .. n /\ m \in Nat /\ DOMAIN reqs = 1 .. m
      /\ \A i \in 1 .. m : reqs[i].op = "WRITE"
      /\ \A i \in 1 .. n : rsps[i].kind = "WRITE"
      /\ beat = 0
  BY <1>0, BufferTypes DEF ReadInv
<1>2. /\ Len(reqs') = m + 1 /\ DOMAIN reqs' = 1 .. m + 1
      /\ \A i \in 1 .. m : reqs'[i] = reqs[i]
      /\ reqs'[m + 1].op = op /\ reqs'[m + 1].addr = rg.addr
  <2>1. reqs' \in Seq(ReqType) /\ Len(reqs') = m + 1
        /\ \A i \in 1 .. m : reqs'[i] = reqs[i]
    BY <1>0, SendType
  <2>2. DOMAIN reqs' = 1 .. Len(reqs')
    BY <2>1, LenProperties
  <2>3. reqs'[m + 1].op = op /\ reqs'[m + 1].addr = rg.addr
    <3>1. reqs'[m + 1] = [op |-> op, addr |-> rg.addr, lanes |-> rg.lanes, word |-> rg.word]
      BY <1>0, SendType
    <3> QED
      BY <3>1
  <2>4. DOMAIN reqs' = 1 .. m + 1
    BY <2>1, <2>2
  <2> QED
    BY <2>1, <2>3, <2>4
<1>3. ReadAsked' /\ RequestLast'
  <2>1. m + 1 \in 1 .. m + 1 /\ \A i \in 1 .. m + 1 : i = m + 1 \/ i \in 1 .. m
    BY <1>1
  <2>2. ReadAsked'
    BY <1>2, <2>1 DEF ReadAsked
  <2>3. RequestLast'
    BY <1>1, <1>2, <2>1 DEF RequestLast
  <2> QED
    BY <2>2, <2>3
<1>4. PICK c \in [0 .. n -> 0 .. Cardinality(Off)] : \A i \in 0 .. n : c[i] = 0
  <2>1. [i \in 0 .. n |-> 0] \in [0 .. n -> 0 .. Cardinality(Off)]
    BY OffFacts
  <2> QED
    BY <2>1
<1>5. Counts(c)'
  <2>1. 0 \in 0 .. n /\ n \in 0 .. n /\ \A i \in 1 .. n : i \in 0 .. n /\ i - 1 \in 0 .. n
    BY <1>1
  <2> QED
    BY <1>0, <1>1, <1>3, <1>4, <2>1 DEF Counts
<1>6. WordsRight(c)'
  BY <1>0, <1>1 DEF WordsRight
<1>7. beat' < LastWord'
  BY <1>1, OffFacts
<1> QED
  BY <1>0, <1>3, <1>4, <1>5, <1>6, <1>7 DEF ReadInv

(* Nothing but writes on the way, and nothing but writes later.            *)
LEMMA ReadQuiet ==
  ASSUME TypeOK, ReadInv, ~Awaiting, ~Awaiting', UNCHANGED <<reqs, rsps, beat>>
  PROVE  ReadInv'
  BY DEF ReadInv

LEMMA ReadAfterWrite ==
  ASSUME TypeOK, ReadInv, ~Awaiting, ~Awaiting', enq_rdy, Send("WRITE"),
         UNCHANGED <<rsps, beat>>
  PROVE  ReadInv'
<1>1. reqs' \in Seq(ReqType) /\ Len(reqs') = Len(reqs) + 1 /\ Len(reqs) \in Nat
  BY SendType, BufferTypes
<1>5. reqs'[Len(reqs) + 1].op = "WRITE"
  BY SendType
<1>6. \A i \in 1 .. Len(reqs) : reqs'[i] = reqs[i] /\ reqs[i].op = "WRITE"
  BY SendType, BufferTypes DEF ReadInv
<1>2. DOMAIN reqs' = 1 .. Len(reqs) + 1
  BY <1>1, LenProperties
<1>3. \A i \in 1 .. Len(reqs) + 1 : i = Len(reqs) + 1 \/ i \in 1 .. Len(reqs)
  BY <1>1
<1>4. ASSUME NEW i \in DOMAIN reqs' PROVE reqs'[i].op = "WRITE"
  <2>1. CASE i = Len(reqs) + 1
    BY <1>5, <2>1
  <2>2. CASE i \in 1 .. Len(reqs)
    BY <1>6, <2>2
  <2> QED
    BY <1>2, <1>3, <2>1, <2>2
<1> QED
  BY <1>4 DEF ReadInv

(* The last word of a load has been taken.                                 *)
LEMMA ReadEnds ==
  ASSUME TypeOK, ReadInv, Awaiting, ~Awaiting', rsps # << >>, Head(rsps).kind # "WRITE",
         Deq, FirstWord + 1 = LastWord
  PROVE  ReadInv'
<1>1. /\ ~ReadAsked /\ beat = 0
      /\ \A i \in DOMAIN rsps : i # 1 => rsps[i].kind = "WRITE"
  BY HeadCounted
<1>2. UNCHANGED <<reqs, beat>>
  BY DEF Deq
<1>3. /\ rsps' \in Seq(RspType) /\ Len(rsps') = Len(rsps) - 1
      /\ \A i \in 1 .. Len(rsps') : rsps'[i] = rsps[i + 1]
      /\ Len(rsps) \in Nat /\ DOMAIN rsps = 1 .. Len(rsps)
  BY DeqType, BufferTypes
<1>4. DOMAIN rsps' = 1 .. Len(rsps')
  BY <1>3, LenProperties
<1>5. ASSUME NEW i \in DOMAIN rsps' PROVE rsps'[i].kind = "WRITE"
  <2>1. i + 1 \in DOMAIN rsps /\ i + 1 # 1 /\ rsps'[i] = rsps[i + 1]
    BY <1>3, <1>4
  <2> QED
    BY <1>1, <2>1
<1> QED
  BY <1>1, <1>2, <1>5 DEF ReadInv, ReadAsked

LEMMA ProcessorReads ==
  ASSUME TypeOK, StateInv, ReadInv, NEW r \in Requests, req(r)
  PROVE  ReadInv'
<1>1. ~Awaiting /\ UNCHANGED <<reqs, rsps, beat>>
      /\ rg_state' \in {"EXCEPTION", "IO_REQ", "PROCESS"}
  BY DEF req, Awaiting, Refilling, StateInv, busVars
<1>2. ~Awaiting'
  BY <1>1 DEF Awaiting, Refilling
<1> QED
  BY <1>1, <1>2, ReadQuiet

LEMMA ProcessReads ==
  ASSUME TypeOK, StateInv, ReadInv, rl_process_RAM_outs
  PROVE  ReadInv'
<1>0. ~Awaiting
  BY DEF rl_process_RAM_outs, rl_load_hit, rl_load_miss, rl_store, Awaiting, Refilling
<1>1. CASE rl_load_hit
  <2>1. UNCHANGED <<reqs, rsps, beat>> /\ ~Awaiting'
    BY <1>1 DEF rl_load_hit, busVars, Awaiting, Refilling
  <2> QED
    BY <1>0, <2>1, ReadQuiet
<1>2. CASE rl_load_miss
  <2>1. /\ enq_rdy /\ Send("BURST") /\ UNCHANGED <<rg, rsps, beat>>
        /\ rg_state' = "START_REFILL"
    BY <1>2 DEF rl_load_miss
  <2>2. Awaiting' /\ FirstWord' = 0 /\ ReadOp' = "BURST"
    BY <2>1 DEF Awaiting, Refilling, FirstWord, ReadOp
  <2>3. LastWord' \in 1 .. Cardinality(Off)
    BY OffFacts DEF LastWord
  <2> QED
    BY <1>0, <2>1, <2>2, <2>3, ReadAfterAsk
<1>3. CASE rl_store
  <2>1. enq_rdy /\ Send("WRITE") /\ UNCHANGED <<rsps, beat>> /\ ~Awaiting'
    BY <1>3 DEF rl_store, Awaiting, Refilling
  <2> QED
    BY <1>0, <2>1, ReadAfterWrite
<1> QED
  BY <1>1, <1>2, <1>3 DEF rl_process_RAM_outs

LEMMA StartRefillReads ==
  ASSUME TypeOK, StateInv, ReadInv, rl_start_refill
  PROVE  ReadInv'
<1>1. /\ rg_state = "START_REFILL" /\ rg_state' = "REFILL_LOOP" /\ rg_word_in_line' = 0
      /\ UNCHANGED <<rg, reqs, rsps, beat, mem>>
  BY DEF rl_start_refill, busVars
<1>2. Awaiting /\ Awaiting' /\ FirstWord = 0 /\ FirstWord' = 0
      /\ LastWord' = LastWord /\ ReadOp' = ReadOp /\ tag' = tag
      /\ \A k : WordAddr(k)' = WordAddr(k)
  BY <1>1 DEF Awaiting, Refilling, FirstWord, LastWord, ReadOp, WordAddr, tag, set
<1>3. memView' = memView
  BY <1>1, ViewUnchanged
<1>4. ReadAsked' = ReadAsked /\ RequestLast' = RequestLast
  BY <1>1, <1>2 DEF ReadAsked, RequestLast
<1>5. PICK count \in [0 .. Len(rsps) -> 0 .. Cardinality(Off)] :
         Counts(count) /\ WordsRight(count)
  BY <1>2 DEF ReadInv
<1>6. Counts(count)'
  BY <1>1, <1>2, <1>4, <1>5 DEF Counts
<1>7. WordsRight(count)'
  BY <1>1, <1>2, <1>3, <1>5 DEF WordsRight
<1> QED
  BY <1>1, <1>2, <1>4, <1>5, <1>6, <1>7 DEF ReadInv

LEMMA RefillLoopReads ==
  ASSUME TypeOK, StateInv, ReadInv, rl_refill_loop
  PROVE  ReadInv'
<1>1. /\ rg_state = "REFILL_LOOP" /\ rsps # << >> /\ Head(rsps).kind = "BURST" /\ Deq
      /\ UNCHANGED <<rg, pending>>
  BY DEF rl_refill_loop, Head1, procVars
<1>2. Awaiting /\ Refilling /\ FirstWord = rg_word_in_line
  BY <1>1 DEF Awaiting, Refilling, FirstWord
<1>3. Head(rsps).err = (tag \notin Mapped) /\ FirstWord + 1 <= LastWord
  BY <1>1, <1>2, HeadIsWanted, HeadCounted
<1>4. rg_word_in_line \in Nat /\ rg_word_in_line \in Off
  BY OffFacts DEF TypeOK
<1>5. CASE Head(rsps).err
  <2>1. LastWord = 1
    BY <1>3, <1>5 DEF LastWord
  <2>2. FirstWord + 1 = LastWord
    BY <1>2, <1>3, <1>4, <2>1
  <2>3. ~Awaiting'
    BY <1>5 DEF rl_refill_loop, Awaiting, Refilling
  <2> QED
    BY <1>1, <1>2, <2>2, <2>3, ReadEnds
<1>6. CASE ~Head(rsps).err /\ rg_word_in_line + 1 \in Off
  <2>1. rg_state' = rg_state /\ rg_word_in_line' = rg_word_in_line + 1
    BY <1>6 DEF rl_refill_loop
  <2>2. Awaiting' /\ Refilling' = Refilling
        /\ FirstWord' = FirstWord + (IF Head(rsps).kind = "WRITE" THEN 0 ELSE 1)
    BY <1>1, <2>1 DEF Awaiting, Refilling, FirstWord
  <2> QED
    BY <1>1, <1>2, <2>2, ReadAfterDeq
<1>7. CASE ~Head(rsps).err /\ rg_word_in_line + 1 \notin Off
  <2>1. LastWord = Cardinality(Off)
    BY <1>2, <1>3, <1>7 DEF LastWord
  <2>2. FirstWord + 1 = LastWord
    BY <1>2, <1>4, <1>7, <2>1, OffFacts
  <2>3. ~Awaiting'
    BY <1>7 DEF rl_refill_loop, Awaiting, Refilling
  <2> QED
    BY <1>1, <1>2, <2>2, <2>3, ReadEnds
<1> QED
  BY <1>5, <1>6, <1>7

LEMMA OtherReads ==
  ASSUME TypeOK, StateInv, ReadInv, rl_rereq \/ rl_write_response \/ rl_exception
  PROVE  ReadInv'
<1>1. ~Awaiting /\ ~Awaiting' /\ UNCHANGED <<reqs, rsps, beat>>
  BY DEF rl_rereq, rl_write_response, rl_exception, Awaiting, Refilling, busVars
<1> QED
  BY <1>1, ReadQuiet

LEMMA IOReads ==
  ASSUME TypeOK, StateInv, ReadInv, rl_io_req \/ rl_io_read_rsp
  PROVE  ReadInv'
<1>1. CASE rl_io_req /\ rg.op = "ST"
  <2>1. enq_rdy /\ Send("WRITE") /\ UNCHANGED <<rsps, beat>> /\ ~Awaiting /\ ~Awaiting'
    BY <1>1 DEF rl_io_req, Awaiting, Refilling
  <2> QED
    BY <2>1, ReadAfterWrite
<1>2. CASE rl_io_req /\ rg.op # "ST"
  <2>1. /\ enq_rdy /\ Send("READ") /\ UNCHANGED <<rg, rsps, beat>>
        /\ rg_state = "IO_REQ" /\ rg_state' = "IO_READ_RSP" /\ pending' = pending
    BY <1>2 DEF rl_io_req, procVars
  <2>2. ~Awaiting /\ Awaiting' /\ FirstWord' = 0 /\ ReadOp' = "READ"
    BY <2>1 DEF Awaiting, Refilling, FirstWord, ReadOp, StateInv
  <2>3. LastWord' \in 1 .. Cardinality(Off)
    BY OffFacts DEF LastWord
  <2> QED
    BY <2>1, <2>2, <2>3, ReadAfterAsk
<1>3. CASE rl_io_read_rsp
  <2>1. /\ rg_state = "IO_READ_RSP" /\ pending /\ pending' = FALSE /\ Deq
        /\ rsps # << >> /\ Head(rsps).kind # "WRITE"
        /\ rg_state' \in {"IO_READ_RSP", "EXCEPTION"}
    BY <1>3 DEF rl_io_read_rsp, Head1, Answer
  <2>2. Awaiting /\ ~Awaiting' /\ FirstWord = 0 /\ LastWord = 1
    BY <2>1 DEF Awaiting, Refilling, FirstWord, LastWord
  <2>3. FirstWord + 1 = LastWord
    BY <2>2
  <2> QED
    BY <2>1, <2>2, <2>3, ReadEnds
<1> QED
  BY <1>1, <1>2, <1>3

LEMMA DiscardReads ==
  ASSUME TypeOK, StateInv, ReadInv, rl_discard_write_rsp
  PROVE  ReadInv'
<1>1. /\ rsps # << >> /\ Head(rsps).kind = "WRITE" /\ Deq
      /\ UNCHANGED <<rg_state, rg, rg_word_in_line, pending>>
  BY DEF rl_discard_write_rsp, Head1, seqVars, procVars
<1>2. Awaiting' = Awaiting /\ Refilling' = Refilling /\ FirstWord' = FirstWord
      /\ FirstWord \in Nat
  BY <1>1, LastWordFacts DEF Awaiting, Refilling, FirstWord
<1>3. CASE Awaiting
  <2>1. FirstWord' = FirstWord + (IF Head(rsps).kind = "WRITE" THEN 0 ELSE 1)
    BY <1>1, <1>2
  <2> QED
    BY <1>1, <1>2, <1>3, <2>1, ReadAfterDeq
<1>4. CASE ~Awaiting
  <2>1. /\ rsps' \in Seq(RspType) /\ Len(rsps') = Len(rsps) - 1
        /\ \A i \in 1 .. Len(rsps') : rsps'[i] = rsps[i + 1]
        /\ Len(rsps) \in Nat /\ DOMAIN rsps = 1 .. Len(rsps)
    BY <1>1, DeqType, BufferTypes
  <2>2. DOMAIN rsps' = 1 .. Len(rsps')
    BY <2>1, LenProperties
  <2>3. \A i \in DOMAIN rsps' : i + 1 \in DOMAIN rsps /\ rsps'[i] = rsps[i + 1]
    BY <2>1, <2>2
  <2> QED
    BY <1>1, <1>2, <1>4, <2>3 DEF ReadInv, Deq
<1> QED
  BY <1>3, <1>4

LEMMA ResetReads ==
  ASSUME PowerUpOnly, TypeOK, StateInv, StateInv', ReadInv, req_reset \/ rl_reset
  PROVE  ReadInv'
<1>1. CASE req_reset
  <2>1. rg_state' = "RESET" /\ beat' = 0
    BY <1>1 DEF req_reset
  <2>2. reqs' = << >> /\ rsps' = << >> /\ ~Awaiting'
    BY <2>1 DEF StateInv, Awaiting, Refilling
  <2> QED
    BY <2>1, <2>2 DEF ReadInv
<1>2. CASE rl_reset
  <2>1. rg_state = "RESET" /\ rg_state' \in {"RESET", "READY"}
        /\ UNCHANGED <<reqs, rsps, beat>>
    BY <1>2 DEF rl_reset, busVars
  <2>2. ~Awaiting /\ ~Awaiting'
    BY <2>1 DEF Awaiting, Refilling
  <2> QED
    BY <2>1, <2>2, ReadQuiet
<1> QED
  BY <1>1, <1>2

LEMMA RemovalFacts ==
  ASSUME TypeOK, NEW i \in DOMAIN reqs, reqs' = RemoveAt(reqs, i)
  PROVE  /\ Len(reqs) \in Nat /\ DOMAIN reqs = 1 .. Len(reqs) /\ i \in 1 .. Len(reqs)
         /\ Len(reqs') = Len(reqs) - 1 /\ DOMAIN reqs' = 1 .. Len(reqs) - 1
         /\ \A j \in 1 .. Len(reqs) - 1 :
               reqs'[j] = IF j < i THEN reqs[j] ELSE reqs[j + 1]
<1>1. /\ reqs' \in Seq(ReqType) /\ Len(reqs') = Len(reqs) - 1
      /\ \A j \in 1 .. Len(reqs) - 1 :
            reqs'[j] = IF j < i THEN reqs[j] ELSE reqs[j + 1]
  BY BufferTypes, RemoveAtFacts
<1>2. DOMAIN reqs' = 1 .. Len(reqs')
  BY <1>1, LenProperties
<1>3. Len(reqs) \in Nat /\ DOMAIN reqs = 1 .. Len(reqs) /\ i \in 1 .. Len(reqs)
  BY BufferTypes
<1>4. DOMAIN reqs' = 1 .. Len(reqs) - 1
  BY <1>1, <1>2
<1> QED
  BY <1>1, <1>3, <1>4

(* A write leaves the requests: the read request, if there is one, is      *)
(* still the last.                                                         *)
LEMMA WriteRemoved ==
  ASSUME TypeOK, RequestLast, NEW i \in DOMAIN reqs, reqs[i].op = "WRITE",
         reqs' = RemoveAt(reqs, i), rg' = rg, ReadOp' = ReadOp
  PROVE  RequestLast' /\ ReadAsked' = ReadAsked
<1>1. ASSUME NEW j \in DOMAIN reqs', reqs'[j].op # "WRITE"
      PROVE  /\ ReadAsked
             /\ j = Len(reqs') /\ reqs'[j].op = ReadOp /\ reqs'[j].addr = rg.addr
  <2> DEFINE k == IF j < i THEN j ELSE j + 1
  <2>1. /\ Len(reqs) \in Nat /\ j \in 1 .. Len(reqs) - 1 /\ i \in 1 .. Len(reqs)
        /\ k \in DOMAIN reqs /\ reqs'[j] = reqs[k] /\ Len(reqs') = Len(reqs) - 1
    BY RemovalFacts
  <2>2. k = Len(reqs) /\ reqs[k].op = ReadOp /\ reqs[k].addr = rg.addr /\ ReadAsked
    BY <1>1, <2>1 DEF RequestLast, ReadAsked
  <2>3. j = Len(reqs')
    BY <2>1, <2>2
  <2> QED
    BY <2>1, <2>2, <2>3
<1>2. ASSUME ReadAsked PROVE ReadAsked'
  <2>1. PICK j \in DOMAIN reqs : reqs[j].op # "WRITE"
    BY <1>2 DEF ReadAsked
  <2>2. j = Len(reqs) /\ j # i
    BY <2>1 DEF RequestLast
  <2>3. j - 1 \in 1 .. Len(reqs) - 1 /\ ~(j - 1 < i) /\ (j - 1) + 1 = j
    BY <2>2, RemovalFacts
  <2>4. j - 1 \in DOMAIN reqs' /\ reqs'[j - 1] = reqs[j]
    BY <2>3, RemovalFacts
  <2> QED
    BY <2>1, <2>4 DEF ReadAsked
<1>3. RequestLast'
  BY <1>1 DEF RequestLast
<1>4. ReadAsked' => ReadAsked
  BY <1>1 DEF ReadAsked
<1> QED
  BY <1>2, <1>3, <1>4 DEF ReadAsked

(* The read request itself leaves: only writes are left.                   *)
LEMMA ReadRemoved ==
  ASSUME TypeOK, RequestLast, NEW i \in DOMAIN reqs, reqs[i].op # "WRITE",
         reqs' = RemoveAt(reqs, i)
  PROVE  RequestLast' /\ ~ReadAsked'
<1>1. i = Len(reqs)
  BY DEF RequestLast
<1>2. ASSUME NEW j \in DOMAIN reqs' PROVE reqs'[j].op = "WRITE"
  <2>1. j \in DOMAIN reqs /\ j # Len(reqs) /\ reqs'[j] = reqs[j]
    BY <1>1, RemovalFacts
  <2> QED
    BY <2>1 DEF RequestLast
<1> QED
  BY <1>2 DEF RequestLast, ReadAsked

LEMMA ServiceReads ==
  ASSUME TypeOK, TypeOK', StateInv, ReadInv, NEW i \in DOMAIN reqs, MemoryServes(i)
  PROVE  ReadInv'
<1>1. reqs[i] \in ReqType /\ reqs[i].op \in {"READ", "BURST", "WRITE"}
  BY BufferTypes DEF ReqType
<1>2. UNCHANGED <<rg_state, rg, rg_word_in_line, pending>> /\ memView' = memView
  BY ServesCases, ViewAfterService
<1>3. /\ Awaiting' = Awaiting /\ ReadOp' = ReadOp
      /\ SomeWord \in Word /\ beat' \in Off /\ TRUE \in BOOLEAN /\ FALSE \in BOOLEAN
  BY <1>2, WordFacts DEF Awaiting, Refilling, ReadOp, TypeOK
<1>4. CASE ~Awaiting
  <2>1. /\ \A j \in DOMAIN reqs : reqs[j].op = "WRITE"
        /\ \A j \in DOMAIN rsps : rsps[j].kind = "WRITE"
        /\ beat = 0
    BY <1>4 DEF ReadInv
  <2>2. PICK err \in BOOLEAN : Respond("WRITE", err, SomeWord)
        /\ reqs' = RemoveAt(reqs, i) /\ beat' = beat
    BY <2>1, ServesCases DEF ServesNobody, ServesWrite, ServesRead, ServesBurst
  <2>3. ASSUME NEW j \in DOMAIN reqs' PROVE reqs'[j].op = "WRITE"
    <3>1. \E k \in DOMAIN reqs : reqs'[j] = reqs[k]
      BY <2>2, RemovalFacts
    <3> QED
      BY <2>1, <3>1
  <2>4. ASSUME NEW j \in DOMAIN rsps' PROVE rsps'[j].kind = "WRITE"
    <3>1. /\ rsps' \in Seq(RspType) /\ Len(rsps') = Len(rsps) + 1
          /\ Len(rsps) \in Nat /\ DOMAIN rsps = 1 .. Len(rsps)
      BY <1>3, <2>2, RespondType, BufferTypes
    <3>2. j = Len(rsps) + 1 \/ j \in DOMAIN rsps
      <4>1. DOMAIN rsps' = 1 .. Len(rsps')
        BY <3>1, LenProperties
      <4> QED
        BY <3>1, <4>1
    <3>3. CASE j = Len(rsps) + 1
      <4>1. rsps'[Len(rsps) + 1] = [kind |-> "WRITE", err |-> err, word |-> SomeWord]
        BY <1>3, <2>2, RespondType
      <4> QED
        BY <3>3, <4>1
    <3>4. CASE j \in DOMAIN rsps
      <4>1. rsps'[j] = rsps[j]
        BY <1>3, <2>2, <3>4, RespondType, BufferTypes
      <4> QED
        BY <2>1, <3>4, <4>1
    <3> QED
      BY <3>2, <3>3, <3>4
  <2> QED
    BY <1>3, <1>4, <2>1, <2>2, <2>3, <2>4 DEF ReadInv
<1>5. CASE Awaiting /\ reqs[i].op = "WRITE"
  <2>1. PICK err \in BOOLEAN : Respond("WRITE", err, SomeWord)
        /\ reqs' = RemoveAt(reqs, i) /\ beat' = beat
    BY <1>5, ServesCases DEF ServesNobody, ServesWrite, ServesRead, ServesBurst
  <2>2. RequestLast
    BY <1>5 DEF ReadInv
  <2>3. RequestLast' /\ ReadAsked' = ReadAsked
    BY <1>2, <1>3, <1>5, <2>1, <2>2, WriteRemoved
  <2>4. IF ReadAsked' THEN beat' < LastWord ELSE beat' = 0
    BY <1>5, <2>1, <2>3 DEF ReadInv
  <2>5. (IF ReadAsked' THEN beat' ELSE LastWord)
          = (IF ReadAsked THEN beat ELSE LastWord) + (IF "WRITE" = "WRITE" THEN 0 ELSE 1)
    BY <2>1, <2>3, LastWordFacts
  <2> QED
    BY <1>2, <1>3, <1>5, <2>1, <2>3, <2>4, <2>5, ReadAfterRespond
<1>6. CASE Awaiting /\ reqs[i].op # "WRITE"
  <2>1. RequestLast /\ ReadAsked /\ beat < LastWord
    BY <1>6 DEF ReadInv, ReadAsked
  <2>2. i = Len(reqs) /\ reqs[i].op = ReadOp /\ reqs[i].addr = rg.addr
    BY <1>6, <2>1 DEF RequestLast
  <2>3. Target(reqs[i]) = "nobody" <=> tag \notin Mapped
    BY <2>2 DEF Target, tag
  <2>4. beat \in Nat /\ beat \in Off /\ LastWord \in Nat
    BY LastWordFacts DEF TypeOK
  <2>5. CASE ServesNobody(i)
    <3>1. Respond(ReadOp, TRUE, SomeWord) /\ tag \notin Mapped
          /\ reqs' = RemoveAt(reqs, i) /\ beat' = beat
      BY <2>2, <2>3, <2>5 DEF ServesNobody
    <3>2. RequestLast' /\ ~ReadAsked'
      BY <1>6, <2>1, <3>1, ReadRemoved
    <3>3. LastWord = 1 /\ beat = 0
      BY <2>1, <2>4, <3>1 DEF LastWord
    <3>4. ReadOp \in {"READ", "BURST"}
      BY DEF ReadOp
    <3>5. (IF ReadAsked' THEN beat' ELSE LastWord)
            = (IF ReadAsked THEN beat ELSE LastWord) + (IF ReadOp = "WRITE" THEN 0 ELSE 1)
      BY <2>1, <3>2, <3>3, <3>4
    <3> QED
      BY <1>2, <1>3, <1>6, <2>1, <3>1, <3>2, <3>3, <3>4, <3>5, ReadAfterRespond
  <2>6. CASE ServesRead(i)
    <3>1. Respond("READ", FALSE, mem[rg.addr]) /\ tag \in Mapped /\ ReadOp = "READ"
          /\ reqs' = RemoveAt(reqs, i) /\ beat' = beat
      BY <2>2, <2>3, <2>6 DEF ServesRead
    <3>2. RequestLast' /\ ~ReadAsked'
      BY <1>6, <2>1, <3>1, ReadRemoved
    <3>3. LastWord = 1 /\ beat = 0 /\ WordAddr(beat) = rg.addr
      BY <2>1, <2>4, <3>1 DEF LastWord, ReadOp, WordAddr
    <3>4. (IF ReadAsked' THEN beat' ELSE LastWord)
            = (IF ReadAsked THEN beat ELSE LastWord) + (IF "READ" = "WRITE" THEN 0 ELSE 1)
      BY <2>1, <3>2, <3>3
    <3>5. rg.addr \in Backed /\ mem[rg.addr] \in Word
      BY <1>1, <2>2, <2>6, BackedFacts DEF ServesRead, TypeOK
    <3>6. memView[rg.addr] = mem[rg.addr]
      <4>1. reqs # << >> /\ FirstOfTarget(Len(reqs)) /\ reqs[Len(reqs)].op # "WRITE"
            /\ rg.addr[1] = reqs[Len(reqs)].addr[1]
        BY <1>6, <2>2, ServesCases
      <4> QED
        BY <3>5, <4>1, ViewOfLast
    <3> QED
      BY <1>2, <1>3, <1>6, <2>1, <3>1, <3>2, <3>3, <3>4, <3>5, <3>6, ReadAfterRespond
  <2>7. CASE ServesBurst(i)
    <3> DEFINE w == mem[<<tag, set, beat>>]
    <3>1. /\ Respond("BURST", FALSE, w) /\ tag \in Mapped /\ ReadOp = "BURST"
          /\ \/ beat + 1 \in Off /\ beat' = beat + 1 /\ reqs' = reqs
             \/ beat + 1 \notin Off /\ beat' = 0 /\ reqs' = RemoveAt(reqs, i)
      BY <2>2, <2>3, <2>7 DEF ServesBurst, tag, set
    <3>2. LastWord = Cardinality(Off) /\ WordAddr(beat) = <<tag, set, beat>>
      BY <3>1 DEF LastWord, ReadOp, WordAddr
    <3>3. <<tag, set, beat>> \in Backed /\ w \in Word
      BY <1>1, <2>2, <2>4, <2>7, BackedFacts DEF ServesBurst, TypeOK, tag, set
    <3>4. memView[<<tag, set, beat>>] = w
      <4>1. reqs # << >> /\ FirstOfTarget(Len(reqs)) /\ reqs[Len(reqs)].op # "WRITE"
            /\ <<tag, set, beat>>[1] = reqs[Len(reqs)].addr[1]
        BY <1>6, <2>2, ServesCases DEF tag
      <4> QED
        BY <3>3, <4>1, ViewOfLast
    <3>5. CASE beat + 1 \in Off /\ beat' = beat + 1 /\ reqs' = reqs
      <4>1. RequestLast' /\ ReadAsked'
        BY <1>2, <1>3, <2>1, <3>5 DEF RequestLast, ReadAsked
      <4>2. beat' < LastWord
        BY <3>2, <3>5, OffFacts
      <4>3. (IF ReadAsked' THEN beat' ELSE LastWord)
            = (IF ReadAsked THEN beat ELSE LastWord) + (IF "BURST" = "WRITE" THEN 0 ELSE 1)
        BY <2>1, <3>5, <4>1
      <4> HIDE DEF w
      <4> QED
        BY <1>2, <1>3, <1>6, <2>1, <3>1, <3>2, <3>3, <3>4, <4>1, <4>2, <4>3,
           ReadAfterRespond
    <3>6. CASE beat + 1 \notin Off /\ beat' = 0 /\ reqs' = RemoveAt(reqs, i)
      <4>1. RequestLast' /\ ~ReadAsked'
        BY <1>6, <2>1, <3>6, ReadRemoved
      <4>2. beat + 1 = LastWord
        BY <2>4, <3>2, <3>6, OffFacts
      <4>3. (IF ReadAsked' THEN beat' ELSE LastWord)
            = (IF ReadAsked THEN beat ELSE LastWord) + (IF "BURST" = "WRITE" THEN 0 ELSE 1)
        BY <2>1, <4>1, <4>2
      <4> HIDE DEF w
      <4> QED
        BY <1>2, <1>3, <1>6, <2>1, <3>1, <3>2, <3>3, <3>4, <3>6, <4>1, <4>3,
           ReadAfterRespond
    <3> QED
      BY <3>1, <3>5, <3>6
  <2> QED
    BY <1>6, <2>5, <2>6, <2>7, ServesCases DEF ServesWrite
<1> QED
  BY <1>4, <1>5, <1>6

LEMMA ReadInductive ==
  ASSUME PowerUpOnly, TypeOK, TypeOK', StateInv, StateInv', ReadInv, [Next]_vars
  PROVE  ReadInv'
<1>1. CASE UNCHANGED vars
  <2>1. UNCHANGED <<rg_state, rg, rg_word_in_line, reqs, rsps, beat, mem, pending>>
    BY <1>1 DEF vars
  <2>2. memView' = memView
    BY <2>1, ViewUnchanged
  <2> QED
    BY <2>1, <2>2
       DEF ReadInv, Awaiting, Refilling, RequestLast, ReadAsked, ReadOp, FirstWord,
           LastWord, WordAddr, Counts, WordsRight, tag, set
<1>2. CASE Memory
  BY <1>2, ServiceReads DEF Memory
<1> QED
  BY <1>1, <1>2, ProcessorReads, ProcessReads, StartRefillReads, RefillLoopReads, OtherReads,
     IOReads, DiscardReads, ResetReads DEF Next, Rules

-----------------------------------------------------------------------------
(* The credits.                                                            *)
WriteReqs == {i \in DOMAIN reqs : reqs[i].op = "WRITE"}
WriteRsps == {i \in DOMAIN rsps : rsps[i].kind = "WRITE"}

LEMMA WritesCounted ==
  ASSUME TypeOK
  PROVE  /\ WriteReqs \subseteq 1 .. Len(reqs) /\ WriteRsps \subseteq 1 .. Len(rsps)
         /\ Cardinality(WriteReqs) \in Nat /\ Cardinality(WriteReqs) <= Len(reqs)
         /\ Cardinality(WriteRsps) \in Nat /\ Cardinality(WriteRsps) <= Len(rsps)
         /\ WritesInFlight = Cardinality(WriteReqs) + Cardinality(WriteRsps)
<1>1. WriteReqs \subseteq 1 .. Len(reqs) /\ WriteRsps \subseteq 1 .. Len(rsps)
      /\ Len(reqs) \in Nat /\ Len(rsps) \in Nat
  BY BufferTypes DEF WriteReqs, WriteRsps
<1> QED
  BY <1>1, PositionsFinite DEF WritesInFlight, WriteReqs, WriteRsps

LEMMA SendCounted ==
  ASSUME TypeOK, NEW op \in {"READ", "BURST", "WRITE"}, enq_rdy, Send(op)
  PROVE  Cardinality(WriteReqs)' = Cardinality(WriteReqs) + (IF op = "WRITE" THEN 1 ELSE 0)
<1>1. reqs' \in Seq(ReqType) /\ Len(reqs') = Len(reqs) + 1 /\ Len(reqs) \in Nat
      /\ DOMAIN reqs = 1 .. Len(reqs)
  BY SendType, BufferTypes
<1>2. DOMAIN reqs' = 1 .. Len(reqs) + 1
  BY <1>1, LenProperties
<1>3. reqs'[Len(reqs) + 1].op = op
  BY SendType
<1>4. ASSUME NEW j
      PROVE  j \in WriteReqs' <=> j \in WriteReqs \/ (op = "WRITE" /\ j = Len(reqs) + 1)
  <2>1. CASE j \in 1 .. Len(reqs)
    <3>1. reqs'[j] = reqs[j] /\ j \in DOMAIN reqs' /\ j \in DOMAIN reqs /\ j # Len(reqs) + 1
      BY <1>1, <1>2, <2>1, SendType
    <3> QED
      BY <3>1 DEF WriteReqs
  <2>2. CASE j = Len(reqs) + 1
    <3>1. j \in DOMAIN reqs' /\ j \notin DOMAIN reqs
      BY <1>1, <1>2, <2>2
    <3> QED
      BY <1>3, <2>2, <3>1 DEF WriteReqs
  <2>3. CASE j \notin 1 .. Len(reqs) /\ j # Len(reqs) + 1
    <3>1. j \notin DOMAIN reqs' /\ j \notin DOMAIN reqs
      BY <1>1, <1>2, <2>3
    <3> QED
      BY <2>3, <3>1 DEF WriteReqs
  <2> QED
    BY <2>1, <2>2, <2>3
<1>5. PICK n, P, Q, b : n = Len(reqs) /\ P = WriteReqs /\ Q = WriteReqs' /\ b = (op = "WRITE")
  OBVIOUS
<1>6. n \in Nat /\ P \subseteq 1 .. n /\ b \in BOOLEAN
  BY <1>1, <1>5, WritesCounted
<1>7. Q = IF b THEN P \cup {n + 1} ELSE P
  BY <1>4, <1>5
<1>8. Cardinality(Q) = Cardinality(P) + (IF b THEN 1 ELSE 0)
  BY <1>6, <1>7, PositionsWith, ZenonT(60)
<1> QED
  BY <1>5, <1>8

LEMMA RespondCounted ==
  ASSUME TypeOK, NEW kind \in {"READ", "BURST", "WRITE"}, NEW err \in BOOLEAN,
         NEW w \in Word, Respond(kind, err, w)
  PROVE  Cardinality(WriteRsps)' = Cardinality(WriteRsps) + (IF kind = "WRITE" THEN 1 ELSE 0)
<1>1. rsps' \in Seq(RspType) /\ Len(rsps') = Len(rsps) + 1 /\ Len(rsps) \in Nat
      /\ DOMAIN rsps = 1 .. Len(rsps)
  BY RespondType, BufferTypes
<1>2. DOMAIN rsps' = 1 .. Len(rsps) + 1
  BY <1>1, LenProperties
<1>3. rsps'[Len(rsps) + 1].kind = kind
  <2>1. rsps'[Len(rsps) + 1] = [kind |-> kind, err |-> err, word |-> w]
    BY RespondType
  <2> QED
    BY <2>1
<1>4. ASSUME NEW j
      PROVE  j \in WriteRsps' <=> j \in WriteRsps \/ (kind = "WRITE" /\ j = Len(rsps) + 1)
  <2>1. CASE j \in 1 .. Len(rsps)
    <3>0. \A i \in 1 .. Len(rsps) : rsps'[i] = rsps[i]
      BY RespondType
    <3>1. rsps'[j] = rsps[j] /\ j \in DOMAIN rsps' /\ j \in DOMAIN rsps /\ j # Len(rsps) + 1
      BY <1>1, <1>2, <2>1, <3>0
    <3> QED
      BY <3>1 DEF WriteRsps
  <2>2. CASE j = Len(rsps) + 1
    <3>1. j \in DOMAIN rsps' /\ j \notin DOMAIN rsps
      BY <1>1, <1>2, <2>2
    <3> QED
      BY <1>3, <2>2, <3>1 DEF WriteRsps
  <2>3. CASE j \notin 1 .. Len(rsps) /\ j # Len(rsps) + 1
    <3>1. j \notin DOMAIN rsps' /\ j \notin DOMAIN rsps
      BY <1>1, <1>2, <2>3
    <3> QED
      BY <2>3, <3>1 DEF WriteRsps
  <2> QED
    BY <2>1, <2>2, <2>3
<1>5. PICK n, P, Q, b : n = Len(rsps) /\ P = WriteRsps /\ Q = WriteRsps' /\ b = (kind = "WRITE")
  OBVIOUS
<1>6. n \in Nat /\ P \subseteq 1 .. n /\ b \in BOOLEAN
  BY <1>1, <1>5, WritesCounted
<1>7. Q = IF b THEN P \cup {n + 1} ELSE P
  BY <1>4, <1>5
<1>8. Cardinality(Q) = Cardinality(P) + (IF b THEN 1 ELSE 0)
  BY <1>6, <1>7, PositionsWith, ZenonT(60)
<1> QED
  BY <1>5, <1>8

LEMMA RemovalCounted ==
  ASSUME TypeOK, NEW i \in DOMAIN reqs, reqs' = RemoveAt(reqs, i)
  PROVE  Cardinality(WriteReqs)' =
           Cardinality(WriteReqs) - (IF reqs[i].op = "WRITE" THEN 1 ELSE 0)
<1>1. /\ Len(reqs) \in Nat /\ i \in 1 .. Len(reqs) /\ WriteReqs \subseteq 1 .. Len(reqs)
      /\ i \in WriteReqs <=> reqs[i].op = "WRITE"
      /\ Cardinality(WriteReqs) \in Nat
  BY RemovalFacts, WritesCounted DEF WriteReqs
<1>2. /\ WriteReqs' \subseteq 1 .. Len(reqs) - 1
      /\ \A j \in 1 .. Len(reqs) - 1 :
            j \in WriteReqs' <=> IF j < i THEN j \in WriteReqs ELSE j + 1 \in WriteReqs
  <2>1. ASSUME NEW j \in 1 .. Len(reqs) - 1
        PROVE  j \in WriteReqs' <=> IF j < i THEN j \in WriteReqs ELSE j + 1 \in WriteReqs
    <3>1. j \in DOMAIN reqs' /\ j \in DOMAIN reqs /\ j + 1 \in DOMAIN reqs
          /\ reqs'[j] = IF j < i THEN reqs[j] ELSE reqs[j + 1]
      BY RemovalFacts
    <3> QED
      BY <3>1 DEF WriteReqs
  <2>2. WriteReqs' \subseteq 1 .. Len(reqs) - 1
    BY RemovalFacts DEF WriteReqs
  <2> QED
    BY <2>1, <2>2
<1>3. Cardinality(WriteReqs)' = IF i \in WriteReqs THEN Cardinality(WriteReqs) - 1
                                ELSE Cardinality(WriteReqs)
  <2>1. PICK n, P, Q : n = Len(reqs) /\ P = WriteReqs /\ Q = WriteReqs'
    OBVIOUS
  <2>2. n \in Nat /\ i \in 1 .. n /\ P \subseteq 1 .. n
        /\ Q \subseteq 1 .. n - 1
    BY <1>1, <1>2, <2>1
  <2>4. \A j \in 1 .. n - 1 : j \in Q <=> IF j < i THEN j \in P ELSE j + 1 \in P
    BY <1>2, <2>1
  <2>5. PositionsMoveUp(n, i, P, Q)
    BY <2>2, <2>4 DEF PositionsMoveUp
  <2>3. /\ Cardinality(Q) \in Nat
        /\ i \in P => Cardinality(P) = Cardinality(Q) + 1
        /\ i \notin P => Cardinality(Q) = Cardinality(P)
    BY <2>2, <2>5, PositionsWithout
  <2> QED
    BY <2>1, <2>3
<1> QED
  BY <1>1, <1>3

LEMMA DeqCounted ==
  ASSUME TypeOK, rsps # << >>, Deq
  PROVE  Cardinality(WriteRsps)' =
           Cardinality(WriteRsps) - (IF Head(rsps).kind = "WRITE" THEN 1 ELSE 0)
<1>1. /\ Len(rsps) \in Nat \ {0} /\ DOMAIN rsps = 1 .. Len(rsps)
      /\ rsps' \in Seq(RspType) /\ Len(rsps') = Len(rsps) - 1
      /\ \A j \in 1 .. Len(rsps') : rsps'[j] = rsps[j + 1]
      /\ Head(rsps) = rsps[1] /\ 1 \in DOMAIN rsps
  BY DeqType, BufferTypes, EmptySeq
<1>2. DOMAIN rsps' = 1 .. Len(rsps) - 1
  BY <1>1, LenProperties
<1>3. /\ WriteRsps' \subseteq 1 .. Len(rsps) - 1
      /\ \A j \in 1 .. Len(rsps) - 1 :
            j \in WriteRsps' <=> IF j < 1 THEN j \in WriteRsps ELSE j + 1 \in WriteRsps
  <2>1. ASSUME NEW j \in 1 .. Len(rsps) - 1
        PROVE  j \in WriteRsps' <=> IF j < 1 THEN j \in WriteRsps ELSE j + 1 \in WriteRsps
    <3>1. j \in DOMAIN rsps' /\ j + 1 \in DOMAIN rsps /\ rsps'[j] = rsps[j + 1] /\ ~(j < 1)
      BY <1>1, <1>2
    <3> QED
      BY <3>1 DEF WriteRsps
  <2>2. WriteRsps' \subseteq 1 .. Len(rsps) - 1
    BY <1>2 DEF WriteRsps
  <2> QED
    BY <2>1, <2>2
<1>4. /\ Len(rsps) \in Nat /\ 1 \in 1 .. Len(rsps) /\ WriteRsps \subseteq 1 .. Len(rsps)
      /\ 1 \in WriteRsps <=> Head(rsps).kind = "WRITE"
      /\ Cardinality(WriteRsps) \in Nat
  BY <1>1, WritesCounted DEF WriteRsps
<1>5. Cardinality(WriteRsps)' = IF 1 \in WriteRsps THEN Cardinality(WriteRsps) - 1
                                ELSE Cardinality(WriteRsps)
  <2>1. PICK n, P, Q : n = Len(rsps) /\ P = WriteRsps /\ Q = WriteRsps'
    OBVIOUS
  <2>2. n \in Nat /\ 1 \in 1 .. n /\ P \subseteq 1 .. n
        /\ Q \subseteq 1 .. n - 1
    BY <1>3, <1>4, <2>1
  <2>4. \A j \in 1 .. n - 1 : j \in Q <=> IF j < 1 THEN j \in P ELSE j + 1 \in P
    BY <1>3, <2>1
  <2>5. PositionsMoveUp(n, 1, P, Q)
    BY <2>2, <2>4 DEF PositionsMoveUp
  <2>3. /\ Cardinality(Q) \in Nat
        /\ 1 \in P => Cardinality(P) = Cardinality(Q) + 1
        /\ 1 \notin P => Cardinality(Q) = Cardinality(P)
    BY <2>2, <2>5, PositionsWithout
  <2> QED
    BY <2>1, <2>3
<1> QED
  BY <1>4, <1>5
(* A write is sent and counted: the counter does not wrap.                 *)
LEMMA WriteCredited ==
  ASSUME CounterFits, TypeOK, CreditsMatch, enq_rdy, Send("WRITE"), Inc, rsps' = rsps
  PROVE  CreditsMatch'
<1>1. Cardinality(WriteReqs)' = Cardinality(WriteReqs) + 1
  BY SendCounted
<1>2. Len(reqs) + 1 <= ReqSlots /\ Len(rsps) <= RspSlots
  BY SendType DEF TypeOK
<1>3. ReqSlots \in Nat /\ RspSlots \in Nat /\ CtrMod \in Nat
      /\ Len(reqs) \in Nat /\ Len(rsps) \in Nat
  BY DCacheAssumption, BufferTypes
<1>4. ctr = Cardinality(WriteReqs) + Cardinality(WriteRsps)
      /\ Cardinality(WriteReqs) \in Nat /\ Cardinality(WriteReqs) <= Len(reqs)
      /\ Cardinality(WriteRsps) \in Nat /\ Cardinality(WriteRsps) <= Len(rsps)
  BY WritesCounted DEF CreditsMatch
<1>5. ctr + 1 \in 0 .. CtrMod - 1
  BY <1>2, <1>3, <1>4 DEF CounterFits
<1>6. ctr' = ctr + 1
  BY <1>3, <1>5 DEF Inc
<1>7. Cardinality(WriteRsps)' = Cardinality(WriteRsps)
  BY DEF WriteRsps
<1>8. WritesInFlight' = Cardinality(WriteReqs)' + Cardinality(WriteRsps)'
  BY DEF WritesInFlight, WriteReqs, WriteRsps
<1> QED
  BY <1>1, <1>4, <1>6, <1>7, <1>8 DEF CreditsMatch

LEMMA ReadNotCredited ==
  ASSUME TypeOK, CreditsMatch, NEW op \in {"READ", "BURST"}, enq_rdy, Send(op),
         rsps' = rsps, ctr' = ctr
  PROVE  CreditsMatch'
<1>1. Cardinality(WriteReqs)' = Cardinality(WriteReqs)
  BY SendCounted, WritesCounted
<1>2. Cardinality(WriteRsps)' = Cardinality(WriteRsps)
  BY DEF WriteRsps
<1>3. WritesInFlight' = Cardinality(WriteReqs)' + Cardinality(WriteRsps)'
  BY DEF WritesInFlight, WriteReqs, WriteRsps
<1> QED
  BY <1>1, <1>2, <1>3, WritesCounted DEF CreditsMatch

LEMMA DeqCredited ==
  ASSUME TypeOK, CreditsMatch, rsps # << >>, Deq,
         ctr' = IF Head(rsps).kind = "WRITE" THEN ctr - 1 ELSE ctr
  PROVE  CreditsMatch'
<1>1. Cardinality(WriteRsps)' =
        Cardinality(WriteRsps) - (IF Head(rsps).kind = "WRITE" THEN 1 ELSE 0)
  BY DeqCounted
<1>2. Cardinality(WriteReqs)' = Cardinality(WriteReqs)
  BY DEF WriteReqs, Deq
<1>3. WritesInFlight' = Cardinality(WriteReqs)' + Cardinality(WriteRsps)'
  BY DEF WritesInFlight, WriteReqs, WriteRsps
<1> QED
  BY <1>1, <1>2, <1>3, WritesCounted DEF CreditsMatch

LEMMA ServiceCredited ==
  ASSUME TypeOK, CreditsMatch, NEW i \in DOMAIN reqs, MemoryServes(i)
  PROVE  CreditsMatch'
<1>1. /\ Cardinality(WriteReqs) \in Nat /\ Cardinality(WriteRsps) \in Nat
      /\ ctr = Cardinality(WriteReqs) + Cardinality(WriteRsps) /\ ctr' = ctr
      /\ WritesInFlight' = Cardinality(WriteReqs)' + Cardinality(WriteRsps)'
  BY WritesCounted, ServesCases DEF CreditsMatch, WritesInFlight, WriteReqs, WriteRsps
<1>2. PICK err \in BOOLEAN, w \in Word : Respond(reqs[i].op, err, w)
  <2>1. reqs[i] \in ReqType /\ mem \in [Backed -> Word] /\ beat \in Off
    BY BufferTypes DEF TypeOK
  <2>2. CASE Target(reqs[i]) = "nobody"
    BY <2>2, WordFacts, ServesCases
       DEF ServesNobody, ServesWrite, ServesRead, ServesBurst
  <2>3. CASE Target(reqs[i]) # "nobody"
    <3>1. mem[reqs[i].addr] \in Word
          /\ mem[<<reqs[i].addr[1], reqs[i].addr[2], beat>>] \in Word
      BY <2>1, <2>3, BackedFacts
    <3> QED
      BY <2>3, <3>1, WordFacts, ServesCases
         DEF ServesNobody, ServesWrite, ServesRead, ServesBurst
  <2> QED
    BY <2>2, <2>3
<1>3. reqs[i].op \in {"READ", "BURST", "WRITE"}
  BY BufferTypes DEF ReqType
<1>4. Cardinality(WriteRsps)' =
        Cardinality(WriteRsps) + (IF reqs[i].op = "WRITE" THEN 1 ELSE 0)
  BY <1>2, <1>3, RespondCounted
<1>5. CASE reqs' = RemoveAt(reqs, i)
  <2>1. Cardinality(WriteReqs)' =
          Cardinality(WriteReqs) - (IF reqs[i].op = "WRITE" THEN 1 ELSE 0)
    BY <1>5, RemovalCounted
  <2> QED
    BY <1>1, <1>4, <2>1 DEF CreditsMatch
<1>6. CASE reqs' # RemoveAt(reqs, i)
  <2>1. reqs' = reqs /\ reqs[i].op = "BURST"
    BY <1>6, ServesCases DEF ServesNobody, ServesWrite, ServesRead, ServesBurst
  <2>2. Cardinality(WriteReqs)' = Cardinality(WriteReqs)
    BY <2>1 DEF WriteReqs
  <2> QED
    BY <1>1, <1>4, <2>1, <2>2 DEF CreditsMatch
<1> QED
  BY <1>5, <1>6

LEMMA CreditsKept ==
  ASSUME CreditsMatch, UNCHANGED <<ctr, reqs, rsps>>
  PROVE  CreditsMatch'
  BY DEF CreditsMatch, WritesInFlight

LEMMA CreditsInductive ==
  ASSUME PowerUpOnly, CounterFits, TypeOK, StateInv, StateInv', CreditsMatch, [Next]_vars
  PROVE  CreditsMatch'
<1>1. CASE \E r \in Requests : req(r)
  BY <1>1, CreditsKept DEF req, busVars
<1>2. CASE rl_process_RAM_outs
  <2>1. CASE rl_load_hit
    BY <2>1, CreditsKept DEF rl_load_hit, busVars
  <2>2. CASE rl_load_miss
    BY <2>2, ReadNotCredited DEF rl_load_miss
  <2>3. CASE rl_store
    BY <2>3, WriteCredited DEF rl_store
  <2> QED
    BY <1>2, <2>1, <2>2, <2>3 DEF rl_process_RAM_outs
<1>3. CASE rl_start_refill \/ rl_rereq \/ rl_write_response \/ rl_exception \/ rl_reset
  BY <1>3, CreditsKept DEF rl_start_refill, rl_rereq, rl_write_response, rl_exception,
                           rl_reset, busVars
<1>4. CASE rl_refill_loop
  <2>1. rsps # << >> /\ Deq /\ Head(rsps).kind = "BURST" /\ ctr' = ctr
    BY <1>4 DEF rl_refill_loop, Head1
  <2> QED
    BY <2>1, DeqCredited
<1>5. CASE rl_io_req
  BY <1>5, WriteCredited, ReadNotCredited DEF rl_io_req
<1>6. CASE rl_io_read_rsp
  <2>1. rsps # << >> /\ Deq /\ Head(rsps).kind # "WRITE" /\ ctr' = ctr
    BY <1>6 DEF rl_io_read_rsp, Head1
  <2> QED
    BY <2>1, DeqCredited
<1>7. CASE rl_discard_write_rsp
  <2>1. rsps # << >> /\ Deq /\ Head(rsps).kind = "WRITE" /\ ctr' = ctr - 1
    BY <1>7 DEF rl_discard_write_rsp, Head1
  <2> QED
    BY <2>1, DeqCredited
<1>8. CASE req_reset
  <2>1. rg_state = "INIT" /\ rg_state' = "RESET" /\ ctr' = ctr
    BY <1>8 DEF req_reset, PowerUpOnly
  <2>2. reqs = << >> /\ rsps = << >> /\ reqs' = << >> /\ rsps' = << >>
    BY <2>1 DEF StateInv
  <2> QED
    BY <2>1, <2>2, CreditsKept
<1>9. CASE Memory
  BY <1>9, ServiceCredited DEF Memory
<1>10. CASE UNCHANGED vars
  BY <1>10, CreditsKept DEF vars
<1> QED
  BY <1>1, <1>2, <1>3, <1>4, <1>5, <1>6, <1>7, <1>8, <1>9, <1>10 DEF Next, Rules

-----------------------------------------------------------------------------
(* The lines.                                                              *)
Valid == rg_state \notin {"INIT", "RESET"}

LEMMA LineBacked ==
  ASSUME TypeOK, NEW s \in Set, NEW o \in Off, tags[s] \in Mapped
  PROVE  <<tags[s], s, o>> \in Backed /\ tags[s] \in Tag
<1>1. tags[s] \in Tag
  BY DCacheAssumption DEF TypeOK
<1> QED
  BY <1>1 DEF Backed, Addr

(* A step that touches neither the RAMs nor the memory as it will be.      *)
LEMMA LinesKept ==
  ASSUME TypeOK, LinesCurrent, Valid, UNCHANGED <<tags, words>>, memView' = memView,
         rg_state # "REFILL_LOOP"
  PROVE  LinesCurrent'
  BY DEF LinesCurrent, Refilled, Valid

LEMMA LinesDuringRefill ==
  ASSUME TypeOK, LinesCurrent, UNCHANGED <<tags, words>>, memView' = memView,
         UNCHANGED <<rg_state, rg, rg_word_in_line>>
  PROVE  LinesCurrent'
  BY DEF LinesCurrent, Refilled, set

LEMMA StoreLines ==
  ASSUME TypeOK, TypeOK', LinesCurrent, rl_store
  PROVE  LinesCurrent'
<1>1. /\ rg_state = "PROCESS" /\ enq_rdy /\ Send("WRITE") /\ mem' = mem /\ tags' = tags
      /\ words' = IF Hit THEN [words EXCEPT ![set][off] = Overlay(@, rg.lanes, rg.word)]
                  ELSE words
  BY DEF rl_store
<1>2. memView' = IF rg.addr \in Backed
                 THEN [memView EXCEPT ![rg.addr] = Overlay(@, rg.lanes, rg.word)]
                 ELSE memView
  BY <1>1, ViewAfterSend
<1>3. SUFFICES ASSUME NEW s \in Set, NEW o \in Off, tags[s] \in Mapped
               PROVE  words'[s][o] = memView'[<<tags[s], s, o>>]
  BY <1>1 DEF LinesCurrent
<1>4. words[s][o] = memView[<<tags[s], s, o>>]
  BY <1>1, <1>3 DEF LinesCurrent, Refilled
<1>5. <<tags[s], s, o>> \in Backed
  BY <1>3, LineBacked
<1>6. memView \in [Backed -> Word] /\ words \in [Set -> [Off -> Word]]
      /\ set \in Set /\ off \in Off /\ rg.addr = <<tag, set, off>>
  BY ViewType, RequestType DEF TypeOK
<1>7. CASE Hit /\ s = set /\ o = off
  <2>1. <<tags[s], s, o>> = rg.addr
    BY <1>6, <1>7 DEF Hit
  <2>2. memView'[rg.addr] = Overlay(memView[rg.addr], rg.lanes, rg.word)
    BY <1>2, <1>5, <1>6, <2>1
  <2>3. words'[s][o] = Overlay(words[s][o], rg.lanes, rg.word)
    BY <1>1, <1>6, <1>7
  <2> QED
    BY <1>4, <2>1, <2>2, <2>3
<1>8. CASE ~(Hit /\ s = set /\ o = off)
  <2>1. <<tags[s], s, o>> # rg.addr
    BY <1>6, <1>8 DEF Hit
  <2>2. memView'[<<tags[s], s, o>>] = memView[<<tags[s], s, o>>]
    BY <1>2, <1>5, <1>6, <2>1
  <2>3. words'[s][o] = words[s][o]
    BY <1>1, <1>6, <1>8
  <2> QED
    BY <1>4, <2>2, <2>3
<1> QED
  BY <1>7, <1>8

(* The line of a refill is valid from the start, none of its words is.     *)
LEMMA StartRefillLines ==
  ASSUME TypeOK, LinesCurrent, rl_start_refill
  PROVE  LinesCurrent'
<1>1. /\ rg_state = "START_REFILL" /\ rg_state' = "REFILL_LOOP" /\ rg_word_in_line' = 0
      /\ tags' = [tags EXCEPT ![set] = tag] /\ UNCHANGED <<rg, words, reqs, mem>>
  BY DEF rl_start_refill, busVars
<1>2. memView' = memView
  BY <1>1, ViewUnchanged
<1>3. SUFFICES ASSUME NEW s \in Set, NEW o \in Off, tags'[s] \in Mapped, Refilled(s, o)'
               PROVE  words[s][o] = memView[<<tags'[s], s, o>>]
  BY <1>1, <1>2 DEF LinesCurrent
<1>4. s # set
  BY <1>1, <1>3, OffFacts DEF Refilled, set
<1>5. tags'[s] = tags[s]
  BY <1>1, <1>4 DEF TypeOK
<1> QED
  BY <1>1, <1>3, <1>5 DEF LinesCurrent, Refilled

LEMMA RefillLoopLines ==
  ASSUME TypeOK, StateInv, ReadInv, LinesCurrent, rl_refill_loop
  PROVE  LinesCurrent'
<1>1. /\ rg_state = "REFILL_LOOP" /\ rsps # << >> /\ Head(rsps).kind = "BURST"
      /\ UNCHANGED <<rg, tags, reqs, mem>>
  BY DEF rl_refill_loop, Head1, Deq
<1>2. memView' = memView
  BY <1>1, ViewUnchanged
<1>3. /\ Head(rsps).err = (tag \notin Mapped)
      /\ tag \in Mapped => Head(rsps).word = memView[<<tag, set, rg_word_in_line>>]
  <2>1. FirstWord = rg_word_in_line
        /\ WordAddr(rg_word_in_line) = <<tag, set, rg_word_in_line>>
    BY <1>1 DEF FirstWord, WordAddr, Refilling
  <2> QED
    BY <1>1, <2>1, HeadIsWanted
<1>4. Hit
  BY <1>1 DEF StateInv
<1>5. /\ words \in [Set -> [Off -> Word]] /\ set \in Set /\ rg_word_in_line \in Off
      /\ set' = set
  BY <1>1, RequestType DEF TypeOK, set
<1>6. CASE Head(rsps).err
  <2>1. rg_state' = "EXCEPTION" /\ words' = words
    BY <1>6 DEF rl_refill_loop
  <2>2. tags[set] \notin Mapped
    BY <1>3, <1>4, <1>6 DEF Hit
  <2> QED
    BY <1>1, <1>2, <2>1, <2>2 DEF LinesCurrent, Refilled
<1>7. CASE ~Head(rsps).err
  <2>1. /\ words' = [words EXCEPT ![set][rg_word_in_line] = Head(rsps).word]
        /\ \/ rg_word_in_line' = rg_word_in_line + 1 /\ rg_state' = rg_state
           \/ rg_word_in_line + 1 \notin Off /\ rg_state' = "REREQ"
    BY <1>7 DEF rl_refill_loop
  <2>2. SUFFICES ASSUME NEW s \in Set, NEW o \in Off, tags[s] \in Mapped, Refilled(s, o)'
                 PROVE  words'[s][o] = memView[<<tags[s], s, o>>]
    BY <1>1, <1>2 DEF LinesCurrent
  <2>3. CASE s = set /\ o = rg_word_in_line
    BY <1>3, <1>4, <1>5, <1>7, <2>1, <2>3 DEF Hit
  <2>4. CASE s # set \/ o # rg_word_in_line
    <3>1. words'[s][o] = words[s][o]
      BY <1>5, <2>1, <2>4
    <3>2. Refilled(s, o)
      <4>1. CASE s # set
        BY <4>1 DEF Refilled
      <4>2. CASE s = set
        <5>1. ~(o >= rg_word_in_line)
          BY <1>1, <1>5, <2>1, <2>2, <2>4, <4>2, OffFacts DEF Refilled
        <5> QED
          BY <5>1 DEF Refilled
      <4> QED
        BY <4>1, <4>2
    <3> QED
      BY <1>1, <2>2, <3>1, <3>2 DEF LinesCurrent
  <2> QED
    BY <2>3, <2>4
<1> QED
  BY <1>6, <1>7

(* A device's register is no word of a line.                               *)
LEMMA IOLines ==
  ASSUME TypeOK, TypeOK', StateInv, LinesCurrent, rl_io_req
  PROVE  LinesCurrent'
<1>1. PICK op \in {"READ", "WRITE"} : enq_rdy /\ Send(op)
  BY DEF rl_io_req
<1>2. rg_state = "IO_REQ" /\ rg_state' # "REFILL_LOOP" /\ UNCHANGED <<tags, words, mem>>
  BY DEF rl_io_req, ramVars
<1>3. tag \in IOTag
  BY <1>2 DEF StateInv
<1>4. \/ memView' = memView
      \/ memView' = [memView EXCEPT ![rg.addr] = Overlay(@, rg.lanes, rg.word)]
  BY <1>1, <1>2, ViewAfterSend
<1>5. SUFFICES ASSUME NEW s \in Set, NEW o \in Off, tags[s] \in Mapped
               PROVE  words[s][o] = memView'[<<tags[s], s, o>>]
  BY <1>2 DEF LinesCurrent
<1>6. words[s][o] = memView[<<tags[s], s, o>>]
  BY <1>2, <1>5 DEF LinesCurrent, Refilled
<1>7. <<tags[s], s, o>> \in Backed /\ tags[s] \notin IOTag
  BY <1>5, LineBacked, DCacheAssumption
<1>8. <<tags[s], s, o>> # rg.addr
  BY <1>3, <1>7 DEF tag
<1> QED
  BY <1>4, <1>6, <1>7, <1>8, ViewType

LEMMA ResetLines ==
  ASSUME TypeOK, StateInv, req_reset \/ rl_reset
  PROVE  LinesCurrent'
<1>1. CASE rg_state' = "RESET"
  BY <1>1 DEF LinesCurrent
<1>2. CASE rg_state' # "RESET"
  <2>1. PICK s \in rg_cset_addr :
          /\ tags' = [tags EXCEPT ![s] = NoTag]
          /\ rg_state' = IF rg_cset_addr = {s} THEN "READY" ELSE "RESET"
    BY <1>2 DEF rl_reset, req_reset
  <2>2. rg_state = "RESET" /\ rg_cset_addr = {s}
    BY <1>2, <2>1 DEF rl_reset, req_reset
  <2>3. \A u \in Set : tags'[u] = NoTag
    BY <2>1, <2>2 DEF StateInv, TypeOK
  <2>4. NoTag \notin Mapped
    BY DCacheAssumption
  <2> QED
    BY <2>3, <2>4 DEF LinesCurrent
<1> QED
  BY <1>1, <1>2

LEMMA LinesInductive ==
  ASSUME PowerUpOnly, TypeOK, TypeOK', StateInv, ReadInv, LinesCurrent, [Next]_vars
  PROVE  LinesCurrent'
<1>1. CASE \E r \in Requests : req(r)
  <2>1. Valid /\ rg_state # "REFILL_LOOP" /\ UNCHANGED <<tags, words, reqs, mem>>
    BY <1>1 DEF req, Valid, StateInv, ramVars, busVars
  <2> QED
    BY <2>1, LinesKept, ViewUnchanged
<1>2. CASE rl_process_RAM_outs
  <2>1. CASE rl_load_hit
    <3>1. Valid /\ rg_state # "REFILL_LOOP" /\ UNCHANGED <<tags, words, reqs, mem>>
      BY <2>1 DEF rl_load_hit, Valid, ramVars, busVars
    <3> QED
      BY <3>1, LinesKept, ViewUnchanged
  <2>2. CASE rl_load_miss
    <3>1. /\ Valid /\ rg_state # "REFILL_LOOP" /\ UNCHANGED <<tags, words, mem>>
          /\ enq_rdy /\ Send("BURST")
      BY <2>2 DEF rl_load_miss, Valid, ramVars
    <3>2. memView' = memView
      BY <3>1, ViewAfterSend
    <3> QED
      BY <3>1, <3>2, LinesKept
  <2>3. CASE rl_store
    BY <2>3, StoreLines
  <2> QED
    BY <1>2, <2>1, <2>2, <2>3 DEF rl_process_RAM_outs
<1>3. CASE rl_rereq \/ rl_write_response \/ rl_exception
  <2>1. Valid /\ rg_state # "REFILL_LOOP" /\ UNCHANGED <<tags, words, reqs, mem>>
    BY <1>3 DEF rl_rereq, rl_write_response, rl_exception, Valid, ramVars, busVars
  <2> QED
    BY <2>1, LinesKept, ViewUnchanged
<1>4. CASE rl_io_read_rsp
  <2>1. Valid /\ rg_state # "REFILL_LOOP" /\ UNCHANGED <<tags, words, reqs, mem>>
    BY <1>4 DEF rl_io_read_rsp, Deq, Valid, ramVars
  <2> QED
    BY <2>1, LinesKept, ViewUnchanged
<1>5. CASE rl_discard_write_rsp
  <2>1. UNCHANGED <<tags, words, reqs, mem, rg_state, rg, rg_word_in_line>>
    BY <1>5 DEF rl_discard_write_rsp, Deq, ramVars, seqVars
  <2> QED
    BY <2>1, LinesDuringRefill, ViewUnchanged
<1>6. CASE Memory
  <2>1. PICK i \in DOMAIN reqs : MemoryServes(i)
    BY <1>6 DEF Memory
  <2> QED
    BY <2>1, ServesCases, ViewAfterService, LinesDuringRefill
<1>7. CASE UNCHANGED vars
  <2>1. UNCHANGED <<tags, words, reqs, mem, rg_state, rg, rg_word_in_line>>
    BY <1>7 DEF vars
  <2> QED
    BY <2>1, LinesDuringRefill, ViewUnchanged
<1> QED
  BY <1>1, <1>2, <1>3, <1>4, <1>5, <1>6, <1>7, StartRefillLines, RefillLoopLines, IOLines,
     ResetLines DEF Next, Rules

-----------------------------------------------------------------------------
(* The invariants of the cache.                                            *)
CacheInv == TypeInv /\ StateInv /\ ReadInv /\ LinesCurrent

LEMMA InitInv == Init => CacheInv /\ CreditsMatch
<1>1. SUFFICES ASSUME Init PROVE CacheInv /\ CreditsMatch
  OBVIOUS
<1>2. /\ rg_state = "INIT" /\ ~pending /\ reqs = << >> /\ rsps = << >>
      /\ beat = 0 /\ ctr = 0
  BY <1>1 DEF Init
<1>3. TypeInv
  BY <1>1, <1>2, InitType DEF TypeInv, Cached
<1>4. StateInv
  BY <1>2 DEF StateInv
<1>5. DOMAIN reqs = {} /\ DOMAIN rsps = {}
  BY <1>2
<1>6. ReadInv
  BY <1>2, <1>5 DEF ReadInv, Awaiting, Refilling
<1>7. LinesCurrent
  BY <1>2 DEF LinesCurrent
<1>8. CreditsMatch
  <2>1. {i \in DOMAIN reqs : reqs[i].op = "WRITE"} = {}
        /\ {i \in DOMAIN rsps : rsps[i].kind = "WRITE"} = {}
    BY <1>5
  <2>2. WritesInFlight = Cardinality({}) + Cardinality({})
    BY <2>1 DEF WritesInFlight
  <2>3. Cardinality({}) = 0
    BY FS_EmptySet
  <2>4. WritesInFlight = 0
    BY <2>2, <2>3
  <2> QED
    BY <1>2, <2>4 DEF CreditsMatch
<1> QED
  BY <1>3, <1>4, <1>6, <1>7, <1>8 DEF CacheInv

LEMMA CacheInductive ==
  ASSUME PowerUpOnly, CacheInv, [Next]_vars
  PROVE  CacheInv'
<1>1. TypeInv /\ TypeOK /\ StateInv /\ ReadInv /\ LinesCurrent
  BY DEF CacheInv, TypeInv
<1>2. TypeInv' /\ TypeOK'
  BY <1>1, TypeInductive DEF TypeInv
<1>3. StateInv'
  BY <1>1, StateInductive
<1>4. ReadInv'
  BY <1>1, <1>2, <1>3, ReadInductive
<1>5. LinesCurrent'
  BY <1>1, <1>2, LinesInductive
<1> QED
  BY <1>2, <1>3, <1>4, <1>5 DEF CacheInv

(* A word of a valid line is the word the memory will hold when the writes *)
(* on the way have arrived, whatever the order of refills, write-throughs  *)
(* and late responses; after a power-up reset.                             *)
THEOREM LinesStayCurrent ==
  ASSUME PowerUpOnly
  PROVE  Spec => []LinesCurrent
<1>1. Init => CacheInv
  BY InitInv
<1>2. CacheInv /\ [Next]_vars => CacheInv'
  BY CacheInductive
<1>3. CacheInv => LinesCurrent
  BY DEF CacheInv
<1> QED
  BY <1>1, <1>2, <1>3, PTL DEF Spec

(* No response of a burst or a read is left over for a later load: every   *)
(* one on the way is for the load the processor waits for.                 *)
THEOREM NoReadLeftOver ==
  ASSUME PowerUpOnly
  PROVE  Spec => []ReadsWanted
<1>1. Init => CacheInv
  BY InitInv
<1>2. CacheInv /\ [Next]_vars => CacheInv'
  BY CacheInductive
<1>3. CacheInv => ReadsWanted
  BY DEF CacheInv, ReadInv, StateInv, Awaiting, Refilling, ReadsWanted
<1> QED
  BY <1>1, <1>2, <1>3, PTL DEF Spec

(* The credit counter is the number of writes on the way there and back,   *)
(* so a write response never finds it at 0, when it does not wrap.         *)
THEOREM CreditsStayMatched ==
  ASSUME PowerUpOnly, CounterFits
  PROVE  Spec => []CreditsMatch
<1> DEFINE Inv == CacheInv /\ CreditsMatch
<1>1. Init => Inv
  BY InitInv
<1>2. Inv /\ [Next]_vars => Inv'
  <2>1. SUFFICES ASSUME CacheInv, CreditsMatch, [Next]_vars
                 PROVE  CacheInv' /\ CreditsMatch'
    OBVIOUS
  <2>2. CacheInv'
    BY <2>1, CacheInductive
  <2>3. CreditsMatch'
    BY <2>1, <2>2, CreditsInductive DEF CacheInv, TypeInv
  <2> QED
    BY <2>2, <2>3
<1>3. Inv => CreditsMatch
  OBVIOUS
<1> HIDE DEF Inv
<1> QED
  BY <1>1, <1>2, <1>3, PTL DEF Spec

-----------------------------------------------------------------------------
(* The cache with its buffers implements a memory without a cache.         *)

(* Exact faults are promised only where every address has something behind *)
(* it and none is misaligned: see rl_io_read_rsp, rl_refill_loop and       *)
(* MisalignedCode for what goes wrong elsewhere.                           *)
FaultsExcluded == PreciseFaults => TRUE \notin Misaligned /\ Tag \cup IOTag \subseteq Mapped

Aligned == TRUE \notin Misaligned => ~rg.misaligned
RefinementInv == CacheInv /\ Aligned

AbsOpen == IF pending THEN rg ELSE [op |-> "none"]
AbsStored == pending /\ rg_state = "WRITE_RESPONSE"

LEMMA AbsFacts ==
  ASSUME TypeOK
  PROVE  /\ Memory1!memVars = <<memView, AbsOpen, AbsStored, ans>>
         /\ AbsOpen = Memory1!NoRequest <=> ~pending
<1>1. rg.op # "none"
  BY RequestType
<1>2. rg # [op |-> "none"]
  BY <1>1
<1> QED
  BY <1>2 DEF Memory1!memVars, Memory1!NoRequest, AbsOpen, AbsStored

LEMMA StutterStep ==
  ASSUME TypeOK, TypeOK', memView' = memView, UNCHANGED <<pending, ans>>,
         pending => /\ rg' = rg
                    /\ rg_state' = "WRITE_RESPONSE" <=> rg_state = "WRITE_RESPONSE"
  PROVE  [Memory1!Next]_Memory1!memVars
<1>1. AbsOpen' = AbsOpen
  BY DEF AbsOpen
<1>2. AbsStored' = AbsStored
  <2>1. CASE pending
    BY <2>1 DEF AbsStored
  <2>2. CASE ~pending
    BY <2>2 DEF AbsStored
  <2> QED
    BY <2>1, <2>2
<1> QED
  BY <1>1, <1>2 DEF Memory1!memVars, AbsOpen, AbsStored

LEMMA AskStep ==
  ASSUME TypeOK, NEW r \in Requests, req(r)
  PROVE  Memory1!Next
<1>1. /\ ~pending /\ pending' /\ rg' = r /\ rg_state' # "WRITE_RESPONSE"
      /\ UNCHANGED <<reqs, mem, ans>>
  BY DEF req, busVars
<1>2. memView' = memView
  BY <1>1, ViewUnchanged
<1>3. r \in Memory1!Requests
  BY DCacheAssumption DEF Requests, Memory1!Requests, Word
<1>4. Memory1!Ask(r)
  BY <1>1, <1>2 DEF Memory1!Ask, Memory1!NoRequest
<1> QED
  BY <1>3, <1>4 DEF Memory1!Next

(* The cache's store, to memory or to a device.                            *)
LEMMA StoreStep ==
  ASSUME TypeOK, TypeOK', pending, rg.op = "ST", ~rg.misaligned,
         rg_state # "WRITE_RESPONSE", rg_state' = "WRITE_RESPONSE",
         enq_rdy, Send("WRITE"), UNCHANGED <<rg, mem, pending, ans>>
  PROVE  Memory1!Next
<1>1. memView' = IF rg.addr \in Backed
                 THEN [memView EXCEPT ![rg.addr] = Overlay(@, rg.lanes, rg.word)]
                 ELSE memView
  BY ViewAfterSend
<1>2. memView' = IF rg.addr \in Backed
                 THEN [memView EXCEPT ![rg.addr] = Memory1!Overlay(@, rg.lanes, rg.word)]
                 ELSE memView
  BY <1>1 DEF Overlay, Memory1!Overlay
<1>3. Memory1!Store
  BY <1>2 DEF Memory1!Store
<1> QED
  BY <1>3 DEF Memory1!Next

LEMMA AnswerStep ==
  ASSUME pending, pending' = FALSE, UNCHANGED <<reqs, mem>>,
         Memory1!AnswerStore \/ Memory1!AnswerLoad \/ Memory1!AnswerMisaligned
  PROVE  Memory1!Next
<1>1. memView' = memView
  BY ViewUnchanged
<1>2. Memory1!Answer
  BY <1>1 DEF Memory1!Answer, Memory1!NoRequest
<1> QED
  BY <1>2 DEF Memory1!Next

(* A word that the memory will hold, or any word where faults are not      *)
(* exact.                                                                  *)
LEMMA AnswerWithWord ==
  ASSUME TypeOK, FaultsExcluded, pending, rg.op = "LD", ~rg.misaligned, NEW w \in Word,
         tag \in Mapped => w = memView[rg.addr], ans' = Data(Extract(w, rg.lanes))
  PROVE  Memory1!AnswerLoad
<1>1. rg.addr \in Backed <=> tag \in Mapped
  BY RequestType DEF Backed, tag
<1>2. CASE tag \in Mapped
  BY <1>1, <1>2 DEF Memory1!AnswerLoad, Memory1!Word, Data, Extract
<1>3. CASE tag \notin Mapped
  <2>1. ~PreciseFaults
    BY <1>3, RequestType DEF FaultsExcluded
  <2>2. Extract(w, rg.lanes) \in [rg.lanes -> Value]
    BY RequestType DEF Extract, Word
  <2>3. ans' = Memory1!Word(Extract(w, rg.lanes))
    BY DEF Memory1!Word, Data
  <2>4. AbsOpen = rg
    BY DEF AbsOpen
  <2> HIDE DEF AbsOpen
  <2>5. PICK x \in [AbsOpen.lanes -> Value] : ans' = Memory1!Word(x)
    BY <2>2, <2>3, <2>4, Zenon
  <2>6. ans' \in {Memory1!Word(y) : y \in [AbsOpen.lanes -> Value]}
    BY <2>5
  <2>7. AbsOpen.op = "LD" /\ ~AbsOpen.misaligned /\ AbsOpen.addr \notin Backed
    BY <1>1, <1>3, <2>4
  <2> QED
    BY <2>1, <2>6, <2>7 DEF Memory1!AnswerLoad, AbsOpen
<1> QED
  BY <1>2, <1>3

LEMMA HitStep ==
  ASSUME TypeOK, StateInv, LinesCurrent, FaultsExcluded, rl_load_hit
  PROVE  Memory1!Next
<1>1. /\ rg_state = "PROCESS" /\ rg.op = "LD" /\ Hit /\ pending /\ pending' = FALSE
      /\ ans' = Data(Extract(words[set][off], rg.lanes)) /\ UNCHANGED <<reqs, mem>>
  BY DEF rl_load_hit, Answer, busVars
<1>2. words[set][off] \in Word
  BY RequestType DEF TypeOK
<1>3. tag \in Mapped => words[set][off] = memView[rg.addr]
  BY <1>1, RequestType DEF LinesCurrent, Refilled, Hit
<1>4. ~rg.misaligned
  BY <1>1 DEF StateInv
<1>5. Memory1!AnswerLoad
  BY <1>1, <1>2, <1>3, <1>4, AnswerWithWord
<1> QED
  BY <1>1, <1>5, AnswerStep

LEMMA IOReadStep ==
  ASSUME TypeOK, StateInv, ReadInv, FaultsExcluded, rl_io_read_rsp
  PROVE  Memory1!Next
<1>1. /\ rg_state = "IO_READ_RSP" /\ pending /\ pending' = FALSE /\ UNCHANGED <<reqs, mem>>
      /\ ans' = Data(Extract(Head(rsps).word, rg.lanes))
      /\ rsps # << >> /\ Head(rsps).kind # "WRITE" /\ Deq
  BY DEF rl_io_read_rsp, Answer, Head1, Deq
<1>2. Head(rsps).word \in Word
  BY <1>1, DeqType DEF RspType
<1>3. tag \in Mapped => Head(rsps).word = memView[rg.addr]
  <2>1. WordAddr(FirstWord) = rg.addr
    BY <1>1 DEF WordAddr, Refilling
  <2> QED
    BY <1>1, <2>1, HeadIsWanted
<1>4. rg.op = "LD" /\ ~rg.misaligned
  BY <1>1 DEF StateInv
<1>5. Memory1!AnswerLoad
  BY <1>1, <1>2, <1>3, <1>4, AnswerWithWord
<1> QED
  BY <1>1, <1>5, AnswerStep

LEMMA WriteResponseStep ==
  ASSUME TypeOK, StateInv, rl_write_response
  PROVE  Memory1!Next
<1>1. /\ rg_state = "WRITE_RESPONSE" /\ pending /\ pending' = FALSE
      /\ ans' = Data(<< >>) /\ UNCHANGED <<reqs, mem>>
  BY DEF rl_write_response, Answer, busVars
<1>2. rg.op = "ST"
  BY <1>1 DEF StateInv
<1>3. Memory1!AnswerStore
  BY <1>1, <1>2 DEF Memory1!AnswerStore, Memory1!Word, Data
<1> QED
  BY <1>1, <1>3, AnswerStep

LEMMA ExceptionStep ==
  ASSUME TypeOK, StateInv, Aligned, FaultsExcluded, rl_exception
  PROVE  Memory1!Next
<1>1. /\ rg_state = "EXCEPTION" /\ pending /\ pending' = FALSE
      /\ ans' = Fault(rg_exc_code) /\ UNCHANGED <<reqs, mem>>
  BY DEF rl_exception, Answer, busVars
<1>2. CASE rg.misaligned
  <2>1. ~PreciseFaults
    BY <1>2, DCacheAssumption DEF Aligned, FaultsExcluded
  <2>2. rg_exc_code \in {LOAD_MISALIGNED, STORE_MISALIGNED}
    BY <1>1, <1>2 DEF StateInv
  <2>3. ans' \in {Memory1!Fault(Memory1!LOAD_MISALIGNED),
                  Memory1!Fault(Memory1!STORE_MISALIGNED)}
    BY <1>1, <2>2
       DEF Fault, Memory1!Fault, LOAD_MISALIGNED, STORE_MISALIGNED,
           Memory1!LOAD_MISALIGNED, Memory1!STORE_MISALIGNED
  <2>4. AbsOpen # Memory1!NoRequest
    BY <1>1, AbsFacts
  <2>5. Memory1!AnswerMisaligned
    BY <1>1, <1>2, <2>1, <2>3, <2>4 DEF Memory1!AnswerMisaligned, AbsOpen
  <2> QED
    BY <1>1, <2>5, AnswerStep
<1>3. CASE ~rg.misaligned
  <2>1. rg.op = "LD" /\ rg.addr \notin Backed /\ rg_exc_code = LOAD_FAULT
    BY <1>1, <1>3 DEF StateInv
  <2>2. Memory1!AnswerLoad
    BY <1>1, <1>3, <2>1
       DEF Memory1!AnswerLoad, Fault, Memory1!Fault, LOAD_FAULT, Memory1!LOAD_FAULT
  <2> QED
    BY <1>1, <2>2, AnswerStep
<1> QED
  BY <1>2, <1>3

LEMMA MemoryStep ==
  ASSUME PowerUpOnly, FaultsExcluded, RefinementInv, [Next]_vars
  PROVE  [Memory1!Next]_Memory1!memVars
<1>1. TypeOK /\ StateInv /\ ReadInv /\ LinesCurrent /\ Aligned
  BY DEF RefinementInv, CacheInv, TypeInv
<1>2. TypeOK'
  BY CacheInductive DEF RefinementInv, CacheInv, TypeInv
<1>3. CASE \E r \in Requests : req(r)
  BY <1>1, <1>3, AskStep
<1>4. CASE rl_process_RAM_outs
  <2>1. CASE rl_load_hit
    BY <1>1, <2>1, HitStep
  <2>2. CASE rl_load_miss
    <3>1. /\ rg_state = "PROCESS" /\ rg_state' = "START_REFILL" /\ enq_rdy /\ Send("BURST")
          /\ UNCHANGED <<rg, mem, pending, ans>>
      BY <2>2 DEF rl_load_miss, procVars
    <3>2. memView' = memView
      BY <1>1, <1>2, <3>1, ViewAfterSend
    <3> QED
      BY <1>1, <1>2, <3>1, <3>2, StutterStep
  <2>3. CASE rl_store
    <3>1. /\ rg_state = "PROCESS" /\ rg.op = "ST" /\ rg_state' = "WRITE_RESPONSE"
          /\ enq_rdy /\ Send("WRITE") /\ UNCHANGED <<rg, mem, pending, ans>>
      BY <2>3 DEF rl_store, procVars
    <3>2. pending /\ ~rg.misaligned
      BY <1>1, <3>1 DEF StateInv, TypeOK
    <3> QED
      BY <1>1, <1>2, <3>1, <3>2, StoreStep
  <2> QED
    BY <1>4, <2>1, <2>2, <2>3 DEF rl_process_RAM_outs
<1>5. CASE rl_start_refill \/ rl_refill_loop \/ rl_rereq \/ rl_reset
  <2>1. UNCHANGED <<rg, pending, ans, reqs, mem>>
    BY <1>5 DEF rl_start_refill, rl_refill_loop, rl_rereq, rl_reset, Deq, busVars, procVars
  <2>2. rg_state # "WRITE_RESPONSE" /\ rg_state' # "WRITE_RESPONSE"
    BY <1>5 DEF rl_start_refill, rl_refill_loop, rl_rereq, rl_reset
  <2> QED
    BY <1>1, <1>2, <2>1, <2>2, ViewUnchanged, StutterStep
<1>6. CASE rl_write_response
  BY <1>1, <1>6, WriteResponseStep
<1>7. CASE rl_exception
  BY <1>1, <1>7, ExceptionStep
<1>8. CASE rl_io_req
  <2>1. rg_state = "IO_REQ" /\ enq_rdy /\ UNCHANGED <<rg, mem, pending, ans>>
    BY <1>8 DEF rl_io_req, procVars
  <2>2. pending /\ ~rg.misaligned
    BY <1>1, <2>1 DEF StateInv
  <2>3. CASE rg.op = "ST"
    BY <1>1, <1>2, <1>8, <2>1, <2>2, <2>3, StoreStep DEF rl_io_req
  <2>4. CASE rg.op # "ST"
    <3>1. Send("READ") /\ rg_state' = "IO_READ_RSP"
      BY <1>8, <2>4 DEF rl_io_req
    <3>2. memView' = memView
      BY <1>1, <1>2, <2>1, <3>1, ViewAfterSend
    <3> QED
      BY <1>1, <1>2, <2>1, <3>1, <3>2, StutterStep
  <2> QED
    BY <2>3, <2>4
<1>9. CASE rl_io_read_rsp
  BY <1>1, <1>9, IOReadStep
<1>10. CASE rl_discard_write_rsp
  <2>1. UNCHANGED <<rg_state, rg, pending, ans, reqs, mem>>
    BY <1>10 DEF rl_discard_write_rsp, Deq, procVars
  <2> QED
    BY <1>1, <1>2, <2>1, ViewUnchanged, StutterStep
<1>11. CASE req_reset
  <2>1. rg_state = "INIT" /\ pending' = FALSE /\ rg_state' = "RESET"
        /\ UNCHANGED <<rg, mem, ans>>
    BY <1>11 DEF req_reset, PowerUpOnly
  <2>2. ~pending /\ reqs = << >>
    BY <1>1, <2>1 DEF StateInv
  <2>3. StateInv'
    BY CacheInductive DEF RefinementInv, CacheInv
  <2>4. reqs' = << >>
    BY <2>1, <2>3 DEF StateInv
  <2>5. pending' = pending
    BY <1>1, <2>1, <2>2 DEF TypeOK
  <2>6. memView' = memView
    BY <2>1, <2>2, <2>4, ViewUnchanged
  <2> QED
    BY <1>1, <1>2, <2>1, <2>2, <2>5, <2>6, StutterStep
<1>12. CASE Memory
  <2>1. PICK i \in DOMAIN reqs : MemoryServes(i)
    BY <1>12 DEF Memory
  <2> QED
    BY <1>1, <1>2, <2>1, ServesCases, ViewAfterService, StutterStep
<1>13. CASE UNCHANGED vars
  <2>1. UNCHANGED <<rg_state, rg, pending, ans, reqs, mem>>
    BY <1>13 DEF vars
  <2> QED
    BY <1>1, <1>2, <2>1, ViewUnchanged, StutterStep
<1> QED
  BY <1>3, <1>4, <1>5, <1>6, <1>7, <1>8, <1>9, <1>10, <1>11, <1>12, <1>13 DEF Next, Rules

LEMMA AlignedInductive ==
  ASSUME Aligned, [Next]_vars
  PROVE  Aligned'
<1>1. CASE \E r \in Requests : req(r)
  BY <1>1, DCacheAssumption DEF req, Requests, Aligned
<1>2. CASE ~(\E r \in Requests : req(r))
  <2>1. rg' = rg
    BY <1>2 DEF Next, Rules, rl_process_RAM_outs, rl_load_hit, rl_load_miss, rl_store,
         rl_start_refill, rl_refill_loop, rl_rereq, rl_write_response, rl_exception,
         rl_io_req, rl_io_read_rsp, rl_discard_write_rsp, req_reset, rl_reset,
         Memory, MemoryServes, vars
  <2> QED
    BY <2>1 DEF Aligned
<1> QED
  BY <1>1, <1>2

(* Every load is answered with the last store to each of its bytes, by hit *)
(* or by miss, below 2^30 and above, with stores still on their way; every *)
(* store takes effect once.                                                *)
THEOREM CacheIsMemory ==
  ASSUME PowerUpOnly, FaultsExcluded
  PROVE  Spec => ImplementsMemory
<1>1. Init => RefinementInv
  <2>1. SUFFICES ASSUME Init PROVE Aligned /\ CacheInv
    BY DEF RefinementInv
  <2>2. rg.misaligned = FALSE
    BY <2>1 DEF Init
  <2> QED
    BY <2>1, <2>2, InitInv DEF Aligned
<1>2. RefinementInv /\ [Next]_vars => RefinementInv'
  BY CacheInductive, AlignedInductive DEF RefinementInv
<1>3. Init => Memory1!Init
  <2>1. SUFFICES ASSUME Init PROVE Memory1!Init
    OBVIOUS
  <2>2. ~pending /\ TypeOK
    BY <2>1, InitType DEF Init
  <2>3. memView \in [Backed -> [Lane -> Value]]
    BY <2>2, ViewType DEF Word
  <2> QED
    BY <2>2, <2>3 DEF Memory1!Init, Memory1!NoRequest
<1>4. RefinementInv /\ [Next]_vars => [Memory1!Next]_Memory1!memVars
  BY MemoryStep
<1> QED
  BY <1>1, <1>2, <1>3, <1>4, PTL DEF Spec, ImplementsMemory, Memory1!Spec

=============================================================================
