--------------------------- MODULE Memory_proofs ---------------------------
(***************************************************************************)
(* The memory system of the SoC for any lines, words, clients and depth of *)
(* the buffers: between an initiator and a target is what the initiator    *)
(* waits for, in order; the memory controller is an array of words; and a  *)
(* fetch gets the instruction at its address.                              *)
(***************************************************************************)
EXTENDS Memory, SeqLemmas

-----------------------------------------------------------------------------
(* What travels.                                                           *)
ByteWord == [Lane -> Byte \cup {Unset}]
Data == ByteWord \cup Addr

Reqs == {r \in [initiator : Initiators, op : {"LD", "ST"}, burst : BOOLEAN, addr : Addr,
                lanes : SUBSET Lane, word : [Lane -> Byte] \cup {<< >>}] :
           /\ r.op = "ST" => ~r.burst /\ r.word # << >> /\ r.addr \notin Fetches
           /\ r.initiator = 1 => r.burst}
Rsps == [initiator : Initiators, op : {"LD", "ST"}, err : BOOLEAN, word : Data, at : Addr]

(* Where it may be: a function of buffers holds sequences over S.          *)
ReqsFrom == [i \in Initiators |-> {r \in Reqs : r.initiator = i}]
ReqsTo == [t \in Targets |-> {r \in Reqs : target_id(r.addr) = t}]
RspsFrom == [t \in Targets |-> {x \in Rsps : target_id(x.at) = t}]
RspsTo == [i \in Initiators |-> {x \in Rsps : x.initiator = i}]

Holds(f, S) == f = [d \in DOMAIN S |-> f[d]] /\ \A d \in DOMAIN S : f[d] \in Seq(S[d])

BufferInv ==
    /\ Holds(i_reqs, ReqsFrom) /\ Holds(t_reqs, ReqsTo)
    /\ Holds(t_rsps, RspsFrom) /\ Holds(i_rsps, RspsTo)
    /\ owed \in [Initiators -> [Targets -> Seq(Addr)]]

-----------------------------------------------------------------------------
(* The memory controller: the request it works for is there, and its raw   *)
(* requests are the write-back and the read of a miss, in this order.      *)
WriteOf(l, w) == [write |-> TRUE, line |-> l, words |-> w]
ReadOf(l) == [write |-> FALSE, line |-> l, words |-> << >>]

LineWords == [Off -> ByteWord]

RawTypes ==
    /\ rf \in [MemLines -> LineWords]
    /\ rg_cached_addr \in MemLines /\ rg_cached_burst \in LineWords
    /\ rg_cached_clean \in BOOLEAN
    /\ mc_state \in {"READY", "RELOAD", "SEND"}

ReadyInv ==
    /\ f_raw_mem_rsps = << >>
    /\ \/ f_raw_mem_reqs = << >>
       \/ /\ f_raw_mem_reqs = <<WriteOf(rg_cached_addr, rg_cached_burst)>>
          /\ rg_cached_clean /\ t_reqs[0] # << >> /\ ~Cached

ReloadInv ==
    /\ t_reqs[0] # << >> /\ Cached /\ rg_cached_clean
    /\ \/ /\ f_raw_mem_rsps = << >>
          /\ \/ f_raw_mem_reqs = <<ReadOf(rg_cached_addr)>>
             \/ \E l \in MemLines, w \in LineWords :
                   f_raw_mem_reqs = <<WriteOf(l, w), ReadOf(rg_cached_addr)>>
       \/ f_raw_mem_reqs = << >> /\ f_raw_mem_rsps = <<rf[rg_cached_addr]>>

SendInv ==
    /\ t_reqs[0] # << >> /\ Cached /\ f_raw_mem_reqs = << >> /\ f_raw_mem_rsps = << >>
    /\ rg_rsp.err = Refused
    /\ rg_rsp.words # << >> /\ Len(rg_rsp.words) <= Len(Beats(Request))
    /\ ~Refused /\ Request.op = "LD" =>
         \A k \in 1 .. Len(rg_rsp.words) :
            rg_rsp.words[k] = rg_cached_burst[IF Request.burst
                                 THEN Cardinality(Off) - Len(rg_rsp.words) + k - 1 ELSE off]

ControllerInv ==
    /\ RawTypes
    /\ mc_state = "READY" => ReadyInv
    /\ mc_state = "RELOAD" => ReloadInv
    /\ mc_state = "SEND" => SendInv
    /\ rg_rsp \in [err : BOOLEAN, words : Seq(Data)]
    /\ mc_state # "SEND" => rg_rsp.words = << >>
    /\ mc_state # "RELOAD" /\ rg_cached_clean /\ f_raw_mem_reqs = << >>
         => rf[rg_cached_addr] = rg_cached_burst

(* A reset, and what the instruction cache does meanwhile.                 *)
ResetInv ==
    /\ resetting \in [on : BOOLEAN, waiting : SUBSET Modules]
    /\ resetting.waiting # {} => resetting.on
    /\ resetting.on => Quiet /\ rg_state \in {"RESET", "READY"}

CacheTypes ==
    /\ rg_addr \in Addr
    /\ ctag \in [CSet -> {NoTag} \cup {{l} : l \in Lines}]
    /\ words \in [CSet -> [Off -> Data]]
    /\ rg_wordset_in_cache \in Off

OrderInv == BufferInv /\ ControllerInv /\ ResetInv /\ rg_addr \in Addr /\ InOrder

-----------------------------------------------------------------------------
(* No fetch takes the place of another during a refill, and the code is    *)
(* not in the line that a reset declares cached.                           *)
NoRedirects == ~Redirects
CodeElsewhere == \A a \in Fetches : a[1] # 0

Code == {a \in Fetches : target_id(a) = 0}
CodeIn(l, w) == \A k \in Off : <<l, k>> \in Code => w[k] = Contents[l][k]

(* The code in the memory and in all that is on its way.                   *)
RspRight(x) ==
    /\ x.initiator = 1 => x.op = "LD" /\ (x.err <=> target_id(x.at) # 0)
    /\ x.op = "LD" /\ ~x.err /\ x.at \in Code => x.word = Contents[x.at[1]][x.at[2]]

AllRight(q) == \A k \in DOMAIN q : RspRight(q[k])

MemoryRight ==
    /\ \A l \in MemLines : CodeIn(l, rf[l])
    /\ mc_state # "RELOAD" => CodeIn(rg_cached_addr, rg_cached_burst)
    /\ \A k \in DOMAIN f_raw_mem_reqs :
          f_raw_mem_reqs[k].write => CodeIn(f_raw_mem_reqs[k].line, f_raw_mem_reqs[k].words)

AnswersRight == /\ \A t \in Targets : AllRight(t_rsps[t])
                /\ \A i \in Initiators : AllRight(i_rsps[i])

(* The instruction cache waits for the rest of its line, and nothing else. *)
Refilled(s, l, n) == \A w \in Off : w < n /\ <<l, w>> \in Code => words[s][w] = Contents[l][w]

WaitsFor(b) == \A t \in Targets : owed[1][t] = IF t = target_id(rg_addr) THEN b ELSE << >>

RestOfLine(n) == IF target_id(rg_addr) = 0
                 THEN [k \in 1 .. Cardinality(Off) - n |-> <<rg_addr[1], n + k - 1>>]
                 ELSE <<<<rg_addr[1], 0>>>>

CacheInv ==
    /\ rg_state \notin {"RESET", "READY"} => rg_addr \in Fetches
    /\ rg_state \notin {"START_REFILL", "REFILL_LOOP"} => WaitsFor(<< >>)
    /\ rg_state = "START_REFILL" => WaitsFor(RestOfLine(0))
    /\ rg_state = "REFILL_LOOP" =>
         /\ WaitsFor(RestOfLine(rg_wordset_in_cache))
         /\ ctag[set] = {rg_addr[1]}
         /\ Refilled(set, rg_addr[1], rg_wordset_in_cache)
    /\ \A s \in CSet, l \in MemLines :
          ctag[s] = {l} => \/ rg_state = "REFILL_LOOP" /\ s = set
                           \/ Refilled(s, l, Cardinality(Off))
    /\ exc /\ rg_exc_code = FAULT => target_id(rg_addr) # 0

FetchInv == CacheTypes /\ MemoryRight /\ AnswersRight /\ CacheInv

-----------------------------------------------------------------------------
(* Types.                                                                  *)
LEMMA TargetType ==
  /\ Targets = {0, 2, 3} /\ Initiators = {0, 1, 2}
  /\ \A a : target_id(a) \in Targets /\ (target_id(a) = 0 <=> a[1] \in MemLines)
<1>1. Targets = {0, 2, 3} /\ Initiators = {0, 1, 2}
  BY FabricAssumption
<1>2. ASSUME NEW a PROVE target_id(a) \in Targets /\ (target_id(a) = 0 <=> a[1] \in MemLines)
  <2>1. CASE a[1] \in MemLines
    BY <1>1, <2>1, FabricAssumption DEF target_id
  <2>2. CASE a[1] \in DeviceLines
    BY <1>1, <2>2, FabricAssumption DEF target_id
  <2>3. CASE a[1] \notin MemLines /\ a[1] \notin DeviceLines
    BY <1>1, <2>3, FabricAssumption DEF target_id
  <2> QED
    BY <2>1, <2>2, <2>3
<1> QED
  BY <1>1, <1>2

LEMMA OffFacts ==
  /\ Cardinality(Off) \in Nat \ {0} /\ Off = 0 .. Cardinality(Off) - 1 /\ 0 \in Off
<1>1. Cardinality(Off) \in Nat
  BY MemControllerAssumption, FS_CardinalityType
<1>2. Off # {} /\ Off = 0 .. Cardinality(Off) - 1
  BY MemControllerAssumption
<1> QED
  BY <1>1, <1>2

LEMMA AddrFacts ==
  /\ \A a \in Addr : a = <<a[1], a[2]>> /\ a[1] \in Lines /\ a[2] \in Off
  /\ \A l \in Lines, w \in Off : <<l, w>> \in Addr
  /\ MemLines \subseteq Lines /\ 0 \in MemLines
BY FabricAssumption, MemControllerAssumption DEF Addr

LEMMA HoldsFacts ==
  ASSUME NEW S, NEW f, Holds(f, S), NEW k \in DOMAIN S
  PROVE  f[k] \in Seq(S[k])
BY DEF Holds

LEMMA PutFacts ==
  ASSUME NEW S, NEW f, Holds(f, S), NEW k \in DOMAIN S, NEW x \in S[k]
  PROVE  /\ Holds(Put(f, k, x), S)
         /\ Put(f, k, x)[k] = Append(f[k], x)
         /\ \A d \in DOMAIN S : d # k => Put(f, k, x)[d] = f[d]
<1> DEFINE g == Put(f, k, x)
<1>1. DOMAIN f = DOMAIN S
  BY DEF Holds
<1>2. g[k] = Append(f[k], x) /\ \A d \in DOMAIN S : d # k => g[d] = f[d]
  BY <1>1 DEF Put
<1>3. g = [d \in DOMAIN S |-> g[d]]
  BY <1>1 DEF Put, Holds
<1>4. Append(f[k], x) \in Seq(S[k])
  BY HoldsFacts, AppendProperties
<1> HIDE DEF g
<1>5. \A d \in DOMAIN S : g[d] \in Seq(S[d])
  BY <1>2, <1>4, HoldsFacts
<1>6. Holds(g, S)
  BY <1>3, <1>5 DEF Holds
<1> QED
  BY <1>2, <1>6 DEF g

LEMMA TakenFacts ==
  ASSUME NEW S, NEW f, Holds(f, S), NEW k \in DOMAIN S, f[k] # << >>
  PROVE  /\ Holds(Taken(f, k), S) /\ Head(f[k]) \in S[k]
         /\ Taken(f, k)[k] = Tail(f[k])
         /\ \A d \in DOMAIN S : d # k => Taken(f, k)[d] = f[d]
<1> DEFINE g == Taken(f, k)
<1>1. DOMAIN f = DOMAIN S
  BY DEF Holds
<1>2. g[k] = Tail(f[k]) /\ \A d \in DOMAIN S : d # k => g[d] = f[d]
  BY <1>1 DEF Taken
<1>3. g = [d \in DOMAIN S |-> g[d]]
  BY <1>1 DEF Taken, Holds
<1>4. Tail(f[k]) \in Seq(S[k]) /\ Head(f[k]) \in S[k]
  BY HoldsFacts, TailFacts
<1> HIDE DEF g
<1>5. \A d \in DOMAIN S : g[d] \in Seq(S[d])
  BY <1>2, <1>4, HoldsFacts
<1>6. Holds(g, S)
  BY <1>3, <1>5 DEF Holds
<1> QED
  BY <1>2, <1>4, <1>6 DEF g

LEMMA ClearFacts ==
  ASSUME NEW S, NEW f, f = [d \in DOMAIN S |-> << >>]
  PROVE  Holds(f, S) /\ \A d \in DOMAIN S : f[d] = << >>
<1>1. \A d \in DOMAIN S : f[d] = << >> /\ f[d] \in Seq(S[d])
  BY EmptySeq
<1> QED
  BY <1>1 DEF Holds

LEMMA ClearOneFacts ==
  ASSUME NEW S, NEW f, Holds(f, S), NEW k \in DOMAIN S
  PROVE  /\ Holds([f EXCEPT ![k] = << >>], S) /\ [f EXCEPT ![k] = << >>][k] = << >>
         /\ \A d \in DOMAIN S : d # k => [f EXCEPT ![k] = << >>][d] = f[d]
<1> DEFINE g == [f EXCEPT ![k] = << >>]
<1>1. DOMAIN f = DOMAIN S
  BY DEF Holds
<1>2. g[k] = << >> /\ \A d \in DOMAIN S : d # k => g[d] = f[d]
  BY <1>1
<1>3. g = [d \in DOMAIN S |-> g[d]]
  BY <1>1 DEF Holds
<1>4. << >> \in Seq(S[k])
  BY EmptySeq
<1> HIDE DEF g
<1>5. \A d \in DOMAIN S : g[d] \in Seq(S[d])
  BY <1>2, <1>4, HoldsFacts
<1>6. Holds(g, S)
  BY <1>3, <1>5 DEF Holds
<1> QED
  BY <1>2, <1>6 DEF g

(* The words of a request.                                                 *)
LEMMA BeatsFacts ==
  ASSUME NEW r \in Reqs
  PROVE  /\ Beats(r) \in Seq(Addr) /\ Len(Beats(r)) \in Nat \ {0}
         /\ r.burst /\ target_id(r.addr) = 0 =>
              /\ Len(Beats(r)) = Cardinality(Off)
              /\ \A k \in 1 .. Cardinality(Off) : Beats(r)[k] = <<r.addr[1], k - 1>>
         /\ ~(r.burst /\ target_id(r.addr) = 0) => Beats(r) = <<r.addr>>
         /\ r.addr \in Addr
<1>1. r.addr \in Addr /\ r.addr[1] \in Lines
  BY AddrFacts DEF Reqs
<1>2. CASE r.burst /\ target_id(r.addr) = 0
  <2> DEFINE n == Cardinality(Off)
             b == [k \in 1 .. n |-> <<r.addr[1], k - 1>>]
  <2>1. n \in Nat \ {0} /\ \A k \in 1 .. n : k - 1 \in Off
    BY OffFacts
  <2> HIDE DEF n
  <2>2. \A k \in 1 .. n : <<r.addr[1], k - 1>> \in Addr
    BY <1>1, <2>1, AddrFacts
  <2>3. b \in Seq(Addr) /\ Len(b) = n /\ \A k \in 1 .. n : b[k] = <<r.addr[1], k - 1>>
    BY <2>1, <2>2
  <2>4. Beats(r) = b
    BY <1>2 DEF Beats, n
  <2> HIDE DEF b
  <2> QED
    BY <1>1, <1>2, <2>1, <2>3, <2>4 DEF n
<1>3. CASE ~(r.burst /\ target_id(r.addr) = 0)
  <2>1. Beats(r) = <<r.addr>>
    BY <1>3 DEF Beats
  <2> QED
    BY <1>1, <1>3, <2>1
<1> QED
  BY <1>2, <1>3

-----------------------------------------------------------------------------
(* Requests and responses as the addresses they are for.                   *)
AskedFor(i, t) == [r \in Reqs |-> AskedOf(i, t, r)]
ToldFor(i, t) == [x \in Rsps |-> ToldOf(i, t, x)]

LEMMA AskedForType ==
  ASSUME NEW i, NEW t
  PROVE  /\ AskedFor(i, t) \in [Reqs -> Seq(Addr)]
         /\ \A r \in Reqs : AskedFor(i, t)[r] = AskedOf(i, t, r) /\ AskedOf(i, t, r) \in Seq(Addr)
<1>1. ASSUME NEW r \in Reqs PROVE AskedOf(i, t, r) \in Seq(Addr)
  <2>1. Beats(r) \in Seq(Addr) /\ << >> \in Seq(Addr)
    BY BeatsFacts, EmptySeq
  <2> QED
    BY <2>1 DEF AskedOf
<1> QED
  BY <1>1 DEF AskedFor

LEMMA ToldForType ==
  ASSUME NEW i, NEW t
  PROVE  /\ ToldFor(i, t) \in [Rsps -> Seq(Addr)]
         /\ \A x \in Rsps : ToldFor(i, t)[x] = ToldOf(i, t, x) /\ ToldOf(i, t, x) \in Seq(Addr)
<1>1. ASSUME NEW x \in Rsps PROVE ToldOf(i, t, x) \in Seq(Addr)
  <2>1. <<x.at>> \in Seq(Addr) /\ << >> \in Seq(Addr)
    BY EmptySeq DEF Rsps
  <2> QED
    BY <2>1 DEF ToldOf
<1> QED
  BY <1>1 DEF ToldFor

LEMMA AskedIs ==
  ASSUME NEW i, NEW t, NEW q \in Seq(Reqs)
  PROVE  Asked(i, t, q) = FlatMap(AskedFor(i, t), q)
<1>1. \A k \in DOMAIN q : q[k] \in Reqs
  OBVIOUS
<1>2. [k \in DOMAIN q |-> AskedOf(i, t, q[k])] = [k \in DOMAIN q |-> AskedFor(i, t)[q[k]]]
  BY <1>1, AskedForType
<1> QED
  BY <1>2 DEF Asked, FlatMap

LEMMA ToldIs ==
  ASSUME NEW i, NEW t, NEW q \in Seq(Rsps)
  PROVE  Told(i, t, q) = FlatMap(ToldFor(i, t), q)
<1>1. \A k \in DOMAIN q : q[k] \in Rsps
  OBVIOUS
<1>2. [k \in DOMAIN q |-> ToldOf(i, t, q[k])] = [k \in DOMAIN q |-> ToldFor(i, t)[q[k]]]
  BY <1>1, ToldForType
<1> QED
  BY <1>2 DEF Told, FlatMap

LEMMA AskedFacts ==
  ASSUME NEW i, NEW t, NEW q \in Seq(Reqs)
  PROVE  /\ Asked(i, t, q) \in Seq(Addr) /\ Asked(i, t, << >>) = << >>
         /\ \A r \in Reqs : Asked(i, t, Append(q, r)) = Cat(Asked(i, t, q), AskedOf(i, t, r))
         /\ q # << >> => Asked(i, t, q) = Cat(AskedOf(i, t, Head(q)), Asked(i, t, Tail(q)))
<1>1. AskedFor(i, t) \in [Reqs -> Seq(Addr)]
  BY AskedForType
<1>2. Asked(i, t, q) \in Seq(Addr)
  BY <1>1, AskedIs, FlatMapType
<1>3. Asked(i, t, << >>) = << >>
  <2>1. << >> \in Seq(Reqs)
    BY EmptySeq
  <2>2. Asked(i, t, << >>) = FlatMap(AskedFor(i, t), << >>)
    BY <2>1, AskedIs
  <2> QED
    BY <2>2, FlatMapEmpty
<1>4. ASSUME NEW r \in Reqs
      PROVE  Asked(i, t, Append(q, r)) = Cat(Asked(i, t, q), AskedOf(i, t, r))
  <2>1. Append(q, r) \in Seq(Reqs)
    BY AppendProperties
  <2>2. FlatMap(AskedFor(i, t), Append(q, r)) = Cat(FlatMap(AskedFor(i, t), q), AskedFor(i, t)[r])
    BY <1>1, FlatMapAppend
  <2> QED
    BY <2>1, <2>2, AskedIs, AskedForType
<1>5. ASSUME q # << >>
      PROVE  Asked(i, t, q) = Cat(AskedOf(i, t, Head(q)), Asked(i, t, Tail(q)))
  <2>1. Tail(q) \in Seq(Reqs) /\ Head(q) \in Reqs
    BY <1>5, TailFacts
  <2>2. FlatMap(AskedFor(i, t), q) = Cat(AskedFor(i, t)[Head(q)], FlatMap(AskedFor(i, t), Tail(q)))
    BY <1>1, <1>5, FlatMapHead
  <2> QED
    BY <2>1, <2>2, AskedIs, AskedForType
<1> QED
  BY <1>2, <1>3, <1>4, <1>5

LEMMA ToldFacts ==
  ASSUME NEW i, NEW t, NEW q \in Seq(Rsps)
  PROVE  /\ Told(i, t, q) \in Seq(Addr) /\ Told(i, t, << >>) = << >>
         /\ \A x \in Rsps : Told(i, t, Append(q, x)) = Cat(Told(i, t, q), ToldOf(i, t, x))
         /\ q # << >> => Told(i, t, q) = Cat(ToldOf(i, t, Head(q)), Told(i, t, Tail(q)))
<1>1. ToldFor(i, t) \in [Rsps -> Seq(Addr)]
  BY ToldForType
<1>2. Told(i, t, q) \in Seq(Addr)
  BY <1>1, ToldIs, FlatMapType
<1>3. Told(i, t, << >>) = << >>
  <2>1. << >> \in Seq(Rsps)
    BY EmptySeq
  <2>2. Told(i, t, << >>) = FlatMap(ToldFor(i, t), << >>)
    BY <2>1, ToldIs
  <2> QED
    BY <2>2, FlatMapEmpty
<1>4. ASSUME NEW x \in Rsps
      PROVE  Told(i, t, Append(q, x)) = Cat(Told(i, t, q), ToldOf(i, t, x))
  <2>1. Append(q, x) \in Seq(Rsps)
    BY AppendProperties
  <2>2. FlatMap(ToldFor(i, t), Append(q, x)) = Cat(FlatMap(ToldFor(i, t), q), ToldFor(i, t)[x])
    BY <1>1, FlatMapAppend
  <2> QED
    BY <2>1, <2>2, ToldIs, ToldForType
<1>5. ASSUME q # << >>
      PROVE  Told(i, t, q) = Cat(ToldOf(i, t, Head(q)), Told(i, t, Tail(q)))
  <2>1. Tail(q) \in Seq(Rsps) /\ Head(q) \in Rsps
    BY <1>5, TailFacts
  <2>2. FlatMap(ToldFor(i, t), q) = Cat(ToldFor(i, t)[Head(q)], FlatMap(ToldFor(i, t), Tail(q)))
    BY <1>1, <1>5, FlatMapHead
  <2> QED
    BY <2>1, <2>2, ToldIs, ToldForType
<1> QED
  BY <1>2, <1>3, <1>4, <1>5

LEMMA AskedAppend ==
  ASSUME NEW i, NEW t, NEW q \in Seq(Reqs), NEW r \in Reqs
  PROVE  Asked(i, t, Append(q, r)) = Cat(Asked(i, t, q), AskedOf(i, t, r))
BY AskedFacts

LEMMA AskedHead ==
  ASSUME NEW i, NEW t, NEW q \in Seq(Reqs), q # << >>
  PROVE  /\ Asked(i, t, q) = Cat(AskedOf(i, t, Head(q)), Asked(i, t, Tail(q)))
         /\ Asked(i, t, Tail(q)) \in Seq(Addr)
<1>1. Tail(q) \in Seq(Reqs)
  BY TailFacts
<1> QED
  BY <1>1, AskedFacts

LEMMA ToldAppend ==
  ASSUME NEW i, NEW t, NEW q \in Seq(Rsps), NEW x \in Rsps
  PROVE  Told(i, t, Append(q, x)) = Cat(Told(i, t, q), ToldOf(i, t, x))
BY ToldFacts

LEMMA ToldHead ==
  ASSUME NEW i, NEW t, NEW q \in Seq(Rsps), q # << >>
  PROVE  /\ Told(i, t, q) = Cat(ToldOf(i, t, Head(q)), Told(i, t, Tail(q)))
         /\ Told(i, t, Tail(q)) \in Seq(Addr)
<1>1. Tail(q) \in Seq(Rsps)
  BY TailFacts
<1> QED
  BY <1>1, ToldFacts

-----------------------------------------------------------------------------
(* A path of four parts, and how an item moves on it.                      *)
Path(a, b, c, d) == Cat(Cat(Cat(a, b), c), d)

LEMMA OnPathIs ==
  ASSUME NEW i, NEW t
  PROVE  OnPath(i, t) = Path(Told(i, t, i_rsps[i]), Told(i, t, t_rsps[t]),
                             Unsent(i, t), Asked(i, t, i_reqs[i]))
BY DEF OnPath, Path, Cat

LEMMA PathType ==
  ASSUME NEW a \in Seq(Addr), NEW b \in Seq(Addr), NEW c \in Seq(Addr), NEW d \in Seq(Addr),
         NEW x \in Seq(Addr)
  PROVE  Path(a, b, c, d) \in Seq(Addr)
<1> DEFINE ab == Cat(a, b)
           abc == Cat(ab, c)
<1>1. ab \in Seq(Addr)
  BY CatType
<1> HIDE DEF ab
<1>2. abc \in Seq(Addr)
  BY <1>1, CatType
<1> HIDE DEF abc
<1>3. Path(a, b, c, d) = Cat(abc, d)
  BY DEF Path, ab, abc
<1> QED
  BY <1>2, <1>3, CatType

LEMMA PathAsked ==
  ASSUME NEW a \in Seq(Addr), NEW b \in Seq(Addr), NEW c \in Seq(Addr), NEW d \in Seq(Addr),
         NEW x \in Seq(Addr)
  PROVE  Path(a, b, c, Cat(d, x)) = Cat(Path(a, b, c, d), x)
<1> DEFINE ab == Cat(a, b)
           abc == Cat(ab, c)
<1>1. ab \in Seq(Addr)
  BY CatType
<1> HIDE DEF ab
<1>2. abc \in Seq(Addr)
  BY <1>1, CatType
<1> HIDE DEF abc
<1>3. Path(a, b, c, Cat(d, x)) = Cat(abc, Cat(d, x)) /\ Path(a, b, c, d) = Cat(abc, d)
  BY DEF Path, ab, abc
<1> QED
  BY <1>2, <1>3, CatAssociative

LEMMA PathRouted ==
  ASSUME NEW a \in Seq(Addr), NEW b \in Seq(Addr), NEW c \in Seq(Addr), NEW d \in Seq(Addr),
         NEW x \in Seq(Addr)
  PROVE  Path(a, b, Cat(c, x), d) = Path(a, b, c, Cat(x, d))
<1> DEFINE ab == Cat(a, b)
           abc == Cat(ab, c)
<1>1. ab \in Seq(Addr)
  BY CatType
<1> HIDE DEF ab
<1>2. abc \in Seq(Addr)
  BY <1>1, CatType
<1> HIDE DEF abc
<1>3. /\ Path(a, b, Cat(c, x), d) = Cat(Cat(ab, Cat(c, x)), d)
      /\ Path(a, b, c, Cat(x, d)) = Cat(abc, Cat(x, d))
  BY DEF Path, ab, abc
<1>4. Cat(ab, Cat(c, x)) = Cat(abc, x)
  BY <1>1, CatAssociative DEF abc
<1>5. Cat(Cat(abc, x), d) = Cat(abc, Cat(x, d))
  BY <1>2, CatAssociative
<1> QED
  BY <1>3, <1>4, <1>5

LEMMA PathAnswered ==
  ASSUME NEW a \in Seq(Addr), NEW b \in Seq(Addr), NEW c \in Seq(Addr), NEW d \in Seq(Addr),
         NEW x \in Seq(Addr)
  PROVE  Path(a, Cat(b, x), c, d) = Path(a, b, Cat(x, c), d)
<1> DEFINE ab == Cat(a, b)
<1>1. ab \in Seq(Addr)
  BY CatType
<1>2. Path(a, Cat(b, x), c, d) = Cat(Cat(Cat(a, Cat(b, x)), c), d)
  BY DEF Path
<1>3. Path(a, b, Cat(x, c), d) = Cat(Cat(ab, Cat(x, c)), d)
  BY DEF Path
<1>4. Cat(a, Cat(b, x)) = Cat(ab, x)
  BY CatAssociative
<1> HIDE DEF ab
<1>5. Cat(Cat(ab, x), c) = Cat(ab, Cat(x, c))
  BY <1>1, CatAssociative
<1> QED
  BY <1>2, <1>3, <1>4, <1>5

LEMMA PathReturned ==
  ASSUME NEW a \in Seq(Addr), NEW b \in Seq(Addr), NEW c \in Seq(Addr), NEW d \in Seq(Addr),
         NEW x \in Seq(Addr)
  PROVE  Path(Cat(a, x), b, c, d) = Path(a, Cat(x, b), c, d)
<1>1. Cat(Cat(a, x), b) = Cat(a, Cat(x, b))
  BY CatAssociative
<1> QED
  BY <1>1 DEF Path

LEMMA PathArrived ==
  ASSUME NEW a \in Seq(Addr), NEW b \in Seq(Addr), NEW c \in Seq(Addr), NEW d \in Seq(Addr),
         NEW x \in Seq(Addr)
  PROVE  Path(Cat(x, a), b, c, d) = Cat(x, Path(a, b, c, d)) /\ Path(a, b, c, d) \in Seq(Addr)
<1> DEFINE ab == Cat(a, b)
           abc == Cat(ab, c)
<1>1. ab \in Seq(Addr)
  BY CatType
<1> HIDE DEF ab
<1>2. abc \in Seq(Addr)
  BY <1>1, CatType
<1> HIDE DEF abc
<1>3. Path(a, b, c, d) = Cat(abc, d) /\ Path(Cat(x, a), b, c, d) = Cat(Cat(Cat(Cat(x, a), b), c), d)
  BY DEF Path, ab, abc
<1>4. Cat(Cat(x, a), b) = Cat(x, ab)
  BY CatAssociative DEF ab
<1>5. Cat(Cat(x, ab), c) = Cat(x, abc)
  BY <1>1, CatAssociative DEF abc
<1>6. Cat(Cat(x, abc), d) = Cat(x, Cat(abc, d))
  BY <1>2, CatAssociative
<1> QED
  BY <1>3, <1>4, <1>5, <1>6, PathType

-----------------------------------------------------------------------------
(* The four parts of a path.                                               *)
LEMMA Doms ==
  /\ DOMAIN ReqsFrom = Initiators /\ DOMAIN RspsTo = Initiators
  /\ DOMAIN ReqsTo = Targets /\ DOMAIN RspsFrom = Targets
  /\ \A i \in Initiators : ReqsFrom[i] = {r \in Reqs : r.initiator = i}
  /\ \A i \in Initiators : RspsTo[i] = {x \in Rsps : x.initiator = i}
  /\ \A t \in Targets : ReqsTo[t] = {r \in Reqs : target_id(r.addr) = t}
  /\ \A t \in Targets : RspsFrom[t] = {x \in Rsps : target_id(x.at) = t}
BY DEF ReqsFrom, RspsTo, ReqsTo, RspsFrom

LEMMA BufferTypes ==
  ASSUME BufferInv
  PROVE  /\ \A i \in Initiators : i_reqs[i] \in Seq(Reqs) /\ i_rsps[i] \in Seq(Rsps)
         /\ \A t \in Targets : t_reqs[t] \in Seq(Reqs) /\ t_rsps[t] \in Seq(Rsps)
         /\ \A i \in Initiators, t \in Targets : owed[i][t] \in Seq(Addr)
<1>1. ASSUME NEW i \in Initiators PROVE i_reqs[i] \in Seq(Reqs) /\ i_rsps[i] \in Seq(Rsps)
  <2>1. i_reqs[i] \in Seq(ReqsFrom[i]) /\ i_rsps[i] \in Seq(RspsTo[i])
    BY Doms, HoldsFacts DEF BufferInv
  <2> QED
    BY <2>1, Doms
<1>2. ASSUME NEW t \in Targets PROVE t_reqs[t] \in Seq(Reqs) /\ t_rsps[t] \in Seq(Rsps)
  <2>1. t_reqs[t] \in Seq(ReqsTo[t]) /\ t_rsps[t] \in Seq(RspsFrom[t])
    BY Doms, HoldsFacts DEF BufferInv
  <2> QED
    BY <2>1, Doms
<1> QED
  BY <1>1, <1>2 DEF BufferInv

LEMMA RequestFacts ==
  ASSUME BufferInv, t_reqs[0] # << >>
  PROVE  /\ Request \in Reqs /\ target_id(Request.addr) = 0
         /\ line \in MemLines /\ off \in Off /\ Request.addr = <<line, off>>
         /\ Tail(t_reqs[0]) \in Seq(Reqs)
         /\ Request.initiator \in Initiators /\ Request.op \in {"LD", "ST"}
         /\ Request.burst \in BOOLEAN /\ Request.lanes \subseteq Lane
         /\ Refused \in BOOLEAN /\ (Request.burst => ~Refused /\ Request.op = "LD")
<1>1. t_reqs[0] \in Seq(ReqsTo[0]) /\ 0 \in Targets /\ t_reqs[0] \in Seq(Reqs)
  BY Doms, HoldsFacts, TargetType, BufferTypes DEF BufferInv
<1>2. Request \in ReqsTo[0] /\ Tail(t_reqs[0]) \in Seq(Reqs)
  BY <1>1, TailFacts DEF Request
<1>3. Request \in Reqs /\ target_id(Request.addr) = 0
  BY <1>1, <1>2, Doms
<1>4. Request.addr \in Addr
  BY <1>3 DEF Reqs
<1> QED
  BY <1>2, <1>3, <1>4, AddrFacts, TargetType DEF Reqs, line, off, Refused

LEMMA SubSeqFacts ==
  ASSUME NEW S, NEW b \in Seq(S), NEW n \in Nat, n = Len(b), NEW k \in 1 .. n
  PROVE  /\ SubSeq(b, k, n) \in Seq(S)
         /\ SubSeq(b, 1, n) = b
         /\ SubSeq(b, k, n) = Cat(<<b[k]>>, SubSeq(b, k + 1, n))
         /\ SubSeq(b, n + 1, n) = << >>
<1>1. /\ SubSeq(b, k, n) \in Seq(S) /\ Len(SubSeq(b, k, n)) = n - k + 1
      /\ \A j \in 1 .. n - k + 1 : SubSeq(b, k, n)[j] = b[k + j - 1]
  OBVIOUS
<1>2. SubSeq(b, 1, n) = b
  <2>1. SubSeq(b, 1, n) \in Seq(S) /\ Len(SubSeq(b, 1, n)) = n /\ \A j \in 1 .. n : SubSeq(b, 1, n)[j] = b[j]
    OBVIOUS
  <2> QED
    BY <2>1, SeqEqual
<1>3. /\ SubSeq(b, k + 1, n) \in Seq(S) /\ Len(SubSeq(b, k + 1, n)) = n - k
      /\ \A j \in 1 .. n - k : SubSeq(b, k + 1, n)[j] = b[k + j]
  OBVIOUS
<1>4. SubSeq(b, n + 1, n) = << >>
  OBVIOUS
<1> DEFINE s == SubSeq(b, k, n)
           u == SubSeq(b, k + 1, n)
           h == <<b[k]>>
<1>5. h \in Seq(S) /\ Len(h) = 1 /\ h[1] = b[k]
  OBVIOUS
<1> HIDE DEF s, u, h
<1>6. Cat(h, u) \in Seq(S) /\ Len(Cat(h, u)) = 1 + (n - k)
  <2>1. Cat(h, u) \in Seq(S) /\ Len(Cat(h, u)) = Len(h) + Len(u)
    BY <1>3, <1>5, CatType DEF u
  <2> QED
    BY <1>3, <1>5, <2>1 DEF u
<1>7. ASSUME NEW j \in 1 .. n - k + 1 PROVE s[j] = Cat(h, u)[j]
  <2>1. j \in 1 .. Len(h) + Len(u) /\ u \in Seq(S)
    BY <1>3, <1>5 DEF u
  <2>2. Cat(h, u)[j] = IF j <= Len(h) THEN h[j] ELSE u[j - Len(h)]
    BY <1>5, <2>1, CatElements
  <2>3. j = 1 \/ (j - 1 \in 1 .. n - k /\ ~(j <= 1) /\ k + (j - 1) = k + j - 1)
    OBVIOUS
  <2>4. s[j] = b[k + j - 1]
    BY <1>1 DEF s
  <2>5. CASE j = 1
    <3>1. k + j - 1 = k
      BY <2>5
    <3> QED
      BY <1>5, <2>2, <2>4, <2>5, <3>1
  <2>6. CASE j - 1 \in 1 .. n - k /\ ~(j <= 1) /\ k + (j - 1) = k + j - 1
    <3>1. u[j - 1] = b[k + (j - 1)]
      BY <1>3, <2>6 DEF u
    <3> QED
      BY <1>5, <2>2, <2>4, <2>6, <3>1
  <2> QED
    BY <2>3, <2>5, <2>6
<1>8. s = Cat(h, u)
  <2>1. s \in Seq(S) /\ Len(s) = n - k + 1
    BY <1>1 DEF s
  <2> QED
    BY <1>6, <1>7, <2>1, SeqEqual
<1> QED
  BY <1>1, <1>2, <1>4, <1>8 DEF s, u, h

(* What is still to be sent of the request being served.                   *)
LEMMA BeingSentFacts ==
  ASSUME BufferInv, SendInv, rg_rsp.words \in Seq(Data), NEW i
  PROVE  /\ BeingSent(i) \in Seq(Addr)
         /\ Request.initiator # i => BeingSent(i) = << >>
         /\ Request.initiator = i =>
              BeingSent(i) = SubSeq(Beats(Request), Len(Beats(Request)) - Len(rg_rsp.words) + 1,
                                    Len(Beats(Request)))
<1>1. Request \in Reqs /\ target_id(Request.addr) = 0
  BY RequestFacts DEF SendInv
<1>2. CASE Request.initiator # i
  <2>1. AskedOf(i, 0, Request) = << >>
    BY <1>2 DEF AskedOf
  <2> QED
    BY <1>2, <2>1, EmptySeq DEF BeingSent
<1>3. CASE Request.initiator = i
  <2> DEFINE b == Beats(Request)
             n == Len(b)
             L == Len(rg_rsp.words)
  <2>1. b \in Seq(Addr) /\ n \in Nat \ {0}
    BY <1>1, BeatsFacts
  <2>2. b # << >>
    BY <2>1
  <2>3. AskedOf(i, 0, Request) = b
    BY <1>1, <1>3 DEF AskedOf
  <2>4. BeingSent(i) = SubSeq(b, n - L + 1, n)
    BY <2>2, <2>3 DEF BeingSent
  <2>5. L \in 1 .. n
    <3>1. L \in Nat /\ L # 0
      BY EmptySeq DEF SendInv
    <3> QED
      BY <2>1, <3>1 DEF SendInv
  <2>6. n - L + 1 \in 1 .. n
    BY <2>1, <2>5
  <2> HIDE DEF n, L
  <2>7. SubSeq(b, n - L + 1, n) \in Seq(Addr)
    BY <2>1, <2>6, SubSeqFacts DEF n
  <2> QED
    BY <1>3, <2>4, <2>7 DEF n, L
<1> QED
  BY <1>2, <1>3

LEMMA PartTypes ==
  ASSUME BufferInv, ControllerInv, NEW i \in Initiators, NEW t \in Targets
  PROVE  /\ Told(i, t, i_rsps[i]) \in Seq(Addr) /\ Told(i, t, t_rsps[t]) \in Seq(Addr)
         /\ Unsent(i, t) \in Seq(Addr) /\ Asked(i, t, i_reqs[i]) \in Seq(Addr)
         /\ t_reqs[t] \in Seq(Reqs)
<1>1. /\ i_rsps[i] \in Seq(Rsps) /\ t_rsps[t] \in Seq(Rsps)
      /\ t_reqs[t] \in Seq(Reqs) /\ i_reqs[i] \in Seq(Reqs)
  BY BufferTypes
<1>2. Unsent(i, t) \in Seq(Addr)
  <2>1. CASE t = 0 /\ mc_state = "SEND"
    <3>1. Unsent(i, t) = Cat(BeingSent(i), Asked(i, 0, Tail(t_reqs[0])))
      BY <2>1 DEF Unsent, Cat
    <3>2. SendInv /\ rg_rsp.words \in Seq(Data) /\ t_reqs[0] # << >>
      BY <2>1 DEF ControllerInv, SendInv
    <3>3. BeingSent(i) \in Seq(Addr) /\ Asked(i, 0, Tail(t_reqs[0])) \in Seq(Addr)
      BY <3>2, BeingSentFacts, RequestFacts, AskedFacts
    <3> QED
      BY <3>1, <3>3, CatType
  <2>2. CASE ~(t = 0 /\ mc_state = "SEND")
    BY <1>1, <2>2, AskedFacts DEF Unsent
  <2> QED
    BY <2>1, <2>2
<1> QED
  BY <1>1, <1>2, AskedFacts, ToldFacts

-----------------------------------------------------------------------------
(* How the steps change what the targets have not answered.                *)
LEMMA AppendHead ==
  ASSUME NEW S, NEW q \in Seq(S), NEW x \in S, q # << >>
  PROVE  Append(q, x) # << >> /\ Head(Append(q, x)) = Head(q) /\ Tail(Append(q, x)) = Append(Tail(q), x)
<1> DEFINE n == Len(q)
           p == Append(q, x)
           a == Tail(p)
           b == Append(Tail(q), x)
<1>1. /\ n \in Nat /\ n >= 1 /\ p \in Seq(S) /\ Len(p) = n + 1 /\ p[n + 1] = x
      /\ \A k \in 1 .. n : p[k] = q[k]
  OBVIOUS
<1>2. p # << >> /\ Head(p) = Head(q)
  OBVIOUS
<1>3. Tail(q) \in Seq(S) /\ Len(Tail(q)) = n - 1 /\ \A k \in 1 .. n - 1 : Tail(q)[k] = q[k + 1]
  BY TailFacts
<1>4. b \in Seq(S) /\ Len(b) = n /\ b[n] = x /\ \A k \in 1 .. n - 1 : b[k] = q[k + 1]
  <2>1. /\ b \in Seq(S) /\ Len(b) = Len(Tail(q)) + 1 /\ b[Len(Tail(q)) + 1] = x
        /\ \A k \in 1 .. Len(Tail(q)) : b[k] = Tail(q)[k]
    BY <1>3, AppendProperties
  <2>2. Len(Tail(q)) + 1 = n /\ Len(Tail(q)) = n - 1
    BY <1>1, <1>3
  <2> HIDE DEF b, n
  <2> QED
    BY <1>3, <2>1, <2>2
<1> HIDE DEF n, p, b
<1>5. a \in Seq(S) /\ Len(a) = n /\ \A k \in 1 .. n : a[k] = p[k + 1]
  <2>1. a \in Seq(S) /\ Len(a) = Len(p) - 1 /\ \A k \in 1 .. Len(p) - 1 : a[k] = p[k + 1]
    BY <1>1, <1>2, TailFacts
  <2> HIDE DEF a
  <2> QED
    BY <1>1, <2>1
<1> HIDE DEF a
<1>6. ASSUME NEW k \in 1 .. n PROVE a[k] = b[k]
  <2>1. CASE k = n
    BY <1>1, <1>4, <1>5, <2>1
  <2>2. CASE k # n
    <3>1. k \in 1 .. n - 1 /\ k + 1 \in 1 .. n
      BY <1>1, <2>2
    <3> QED
      BY <1>1, <1>4, <1>5, <3>1
  <2> QED
    BY <2>1, <2>2
<1>7. a = b
  BY <1>4, <1>5, <1>6, SeqEqual
<1> QED
  BY <1>2, <1>7 DEF a, b, p

LEMMA ConsFacts ==
  ASSUME NEW S, NEW x \in S, NEW p \in Seq(S)
  PROVE  Cat(<<x>>, p) # << >> /\ Head(Cat(<<x>>, p)) = x /\ Tail(Cat(<<x>>, p)) = p
<1> DEFINE h == <<x>>
           q == Cat(h, p)
           n == Len(p)
<1>1. h \in Seq(S) /\ Len(h) = 1 /\ h[1] = x /\ n \in Nat
  OBVIOUS
<1> HIDE DEF h
<1>2. q \in Seq(S) /\ Len(q) = n + 1
  <2>1. q \in Seq(S) /\ Len(q) = Len(h) + Len(p)
    BY <1>1, CatType
  <2> QED
    BY <1>1, <2>1
<1>3. \A k \in 1 .. n + 1 : q[k] = IF k <= 1 THEN h[k] ELSE p[k - 1]
  <2>1. \A k \in 1 .. Len(h) + Len(p) : q[k] = IF k <= Len(h) THEN h[k] ELSE p[k - Len(h)]
    BY <1>1, CatElements
  <2> QED
    BY <1>1, <2>1
<1> HIDE DEF q
<1>4. q # << >> /\ Head(q) = x
  <2>1. 1 \in 1 .. n + 1
    BY <1>1
  <2>2. q[1] = x
    BY <1>1, <1>3, <2>1
  <2> QED
    BY <1>1, <1>2, <2>2
<1>5. Tail(q) \in Seq(S) /\ Len(Tail(q)) = n /\ \A k \in 1 .. n : Tail(q)[k] = q[k + 1]
  <2>1. Tail(q) \in Seq(S) /\ Len(Tail(q)) = Len(q) - 1 /\ \A k \in 1 .. Len(q) - 1 : Tail(q)[k] = q[k + 1]
    BY <1>2, <1>4, TailFacts
  <2> HIDE DEF n
  <2> QED
    BY <1>1, <1>2, <2>1
<1>6. ASSUME NEW k \in 1 .. n PROVE Tail(q)[k] = p[k]
  <2>1. k + 1 \in 1 .. n + 1 /\ ~(k + 1 <= 1) /\ (k + 1) - 1 = k
    BY <1>1
  <2> QED
    BY <1>3, <1>5, <2>1
<1>7. Tail(q) = p
  BY <1>5, <1>6, SeqEqual
<1> QED
  BY <1>4, <1>7 DEF q, h

LEMMA UnsentGrows ==
  ASSUME BufferInv, ControllerInv, NEW u \in Targets, NEW r \in ReqsTo[u],
         t_reqs' = Put(t_reqs, u, r), UNCHANGED <<mc_state, rg_rsp>>,
         NEW i \in Initiators, NEW t \in Targets
  PROVE  Unsent(i, t)' = Cat(Unsent(i, t), AskedOf(i, t, r))
<1>1. /\ t_reqs'[u] = Append(t_reqs[u], r) /\ t_reqs[u] \in Seq(Reqs)
      /\ \A d \in Targets : d # u => t_reqs'[d] = t_reqs[d]
  BY PutFacts, Doms, BufferTypes DEF BufferInv
<1>2. r \in Reqs /\ target_id(r.addr) = u
  BY Doms
<1>3. Unsent(i, t) \in Seq(Addr)
  BY PartTypes
<1>4. CASE t # u
  <2>1. AskedOf(i, t, r) = << >>
    BY <1>2, <1>4 DEF AskedOf
  <2>2. t_reqs'[t] = t_reqs[t]
    BY <1>1, <1>4
  <2>3. Unsent(i, t)' = Unsent(i, t)
    <3>1. CASE t = 0 /\ mc_state = "SEND"
      <4>1. t_reqs'[0] = t_reqs[0] /\ Request' = Request
        BY <2>2, <3>1 DEF Request
      <4>2. BeingSent(i)' = BeingSent(i)
        BY <4>1 DEF BeingSent
      <4> QED
        BY <3>1, <4>1, <4>2 DEF Unsent
    <3>2. CASE ~(t = 0 /\ mc_state = "SEND")
      BY <2>2, <3>2 DEF Unsent
    <3> QED
      BY <3>1, <3>2
  <2> QED
    BY <1>3, <2>1, <2>3, CatEmpty
<1>5. CASE t = u /\ t = 0 /\ mc_state = "SEND"
  <2>1. t_reqs[0] # << >> /\ SendInv /\ rg_rsp.words \in Seq(Data)
    BY <1>5 DEF ControllerInv, SendInv
  <2>2. /\ t_reqs'[0] = Append(t_reqs[0], r) /\ Head(t_reqs'[0]) = Head(t_reqs[0])
        /\ Tail(t_reqs'[0]) = Append(Tail(t_reqs[0]), r)
    <3>1. t_reqs[0] \in Seq(Reqs) /\ t_reqs'[0] = Append(t_reqs[0], r)
      BY <1>1, <1>5
    <3> QED
      BY <1>2, <2>1, <3>1, AppendHead
  <2>3. BeingSent(i)' = BeingSent(i)
    BY <2>2 DEF BeingSent, Request
  <2>4. Tail(t_reqs[0]) \in Seq(Reqs)
    BY <2>1, RequestFacts
  <2>5. Asked(i, 0, Append(Tail(t_reqs[0]), r)) = Cat(Asked(i, 0, Tail(t_reqs[0])), AskedOf(i, 0, r))
    BY <1>2, <2>4, AskedFacts
  <2>6. /\ BeingSent(i) \in Seq(Addr) /\ Asked(i, 0, Tail(t_reqs[0])) \in Seq(Addr)
        /\ AskedOf(i, 0, r) \in Seq(Addr)
    BY <1>2, <2>1, <2>4, BeingSentFacts, AskedFacts, AskedForType
  <2>7. Unsent(i, t) = Cat(BeingSent(i), Asked(i, 0, Tail(t_reqs[0])))
    BY <1>5 DEF Unsent, Cat
  <2>8. Unsent(i, t)' = Cat(BeingSent(i), Cat(Asked(i, 0, Tail(t_reqs[0])), AskedOf(i, 0, r)))
    BY <1>5, <2>2, <2>3, <2>5 DEF Unsent, Cat
  <2> QED
    BY <1>5, <2>6, <2>7, <2>8, CatAssociative
<1>6. CASE t = u /\ ~(t = 0 /\ mc_state = "SEND")
  <2>1. Unsent(i, t) = Asked(i, t, t_reqs[t]) /\ Unsent(i, t)' = Asked(i, t, t_reqs'[t])
    BY <1>6 DEF Unsent
  <2> QED
    BY <1>1, <1>2, <1>6, <2>1, AskedFacts
<1> QED
  BY <1>4, <1>5, <1>6

LEMMA UnsentShrinks ==
  ASSUME BufferInv, ControllerInv, NEW u \in Targets \ {0}, t_reqs[u] # << >>,
         t_reqs' = Taken(t_reqs, u), UNCHANGED <<mc_state, rg_rsp>>,
         NEW i \in Initiators, NEW t \in Targets
  PROVE  /\ Unsent(i, t) = Cat(AskedOf(i, t, Head(t_reqs[u])), Unsent(i, t)')
         /\ Unsent(i, t)' \in Seq(Addr)
<1> DEFINE r == Head(t_reqs[u])
<1>1. /\ t_reqs'[u] = Tail(t_reqs[u]) /\ t_reqs[u] \in Seq(Reqs) /\ r \in ReqsTo[u]
      /\ \A d \in Targets : d # u => t_reqs'[d] = t_reqs[d]
  BY TakenFacts, Doms, BufferTypes DEF BufferInv
<1>2. r \in Reqs /\ target_id(r.addr) = u
  BY <1>1, Doms
<1> HIDE DEF r
<1>3. Unsent(i, t) \in Seq(Addr)
  BY PartTypes
<1>4. CASE t # u
  <2>1. AskedOf(i, t, r) = << >>
    BY <1>2, <1>4 DEF AskedOf
  <2>2. t_reqs'[t] = t_reqs[t]
    BY <1>1, <1>4
  <2>3. Unsent(i, t)' = Unsent(i, t)
    <3>1. CASE t = 0 /\ mc_state = "SEND"
      <4>1. t_reqs'[0] = t_reqs[0] /\ Request' = Request
        BY <2>2, <3>1 DEF Request
      <4>2. BeingSent(i)' = BeingSent(i)
        BY <4>1 DEF BeingSent
      <4> QED
        BY <3>1, <4>1, <4>2 DEF Unsent
    <3>2. CASE ~(t = 0 /\ mc_state = "SEND")
      BY <2>2, <3>2 DEF Unsent
    <3> QED
      BY <3>1, <3>2
  <2> QED
    BY <1>3, <2>1, <2>3, CatEmpty DEF r
<1>5. CASE t = u
  <2>1. Unsent(i, t) = Asked(i, t, t_reqs[t]) /\ Unsent(i, t)' = Asked(i, t, t_reqs'[t])
    BY <1>5 DEF Unsent
  <2>2. Asked(i, t, t_reqs[t]) = Cat(AskedOf(i, t, r), Asked(i, t, Tail(t_reqs[t])))
    BY <1>1, <1>5, AskedFacts DEF r
  <2>3. Asked(i, t, Tail(t_reqs[t])) \in Seq(Addr)
    <3>1. Tail(t_reqs[t]) \in Seq(Reqs)
      BY <1>1, <1>5, TailFacts
    <3> QED
      BY <3>1, AskedFacts
  <2> QED
    BY <1>1, <1>5, <2>1, <2>2, <2>3 DEF r
<1> QED
  BY <1>4, <1>5

LEMMA UnsentKept ==
  ASSUME UNCHANGED t_reqs, mc_state # "SEND", mc_state' # "SEND", NEW i, NEW t
  PROVE  Unsent(i, t)' = Unsent(i, t)
BY DEF Unsent

LEMMA UnsentSame ==
  ASSUME UNCHANGED <<t_reqs, mc_state, rg_rsp>>, NEW i, NEW t
  PROVE  Unsent(i, t)' = Unsent(i, t)
BY DEF Unsent, BeingSent, Request

LEMMA OrderKept ==
  ASSUME InOrder, UNCHANGED <<i_reqs, t_reqs, t_rsps, i_rsps, mc_state, rg_rsp, owed>>
  PROVE  InOrder'
<1>1. ASSUME NEW i \in Initiators, NEW t \in Targets PROVE OnPath(i, t)' = owed'[i][t]
  <2>1. Unsent(i, t)' = Unsent(i, t)
    BY UnsentSame
  <2>2. OnPath(i, t)' = OnPath(i, t)
    BY <2>1 DEF OnPath
  <2> QED
    BY <2>2 DEF InOrder
<1> QED
  BY <1>1 DEF InOrder

-----------------------------------------------------------------------------
(* How the steps move what is on the paths.                                *)
LEMMA OrderAfterRequest ==
  ASSUME BufferInv, ControllerInv, InOrder, NEW j \in Initiators, NEW r \in ReqsFrom[j],
         i_reqs' = Put(i_reqs, j, r), owed' = Owes(j, r),
         UNCHANGED <<t_reqs, t_rsps, i_rsps, mc_state, rg_rsp>>
  PROVE  BufferInv' /\ InOrder'
<1> DEFINE u == target_id(r.addr)
<1>1. r \in Reqs /\ r.initiator = j /\ u \in Targets /\ Beats(r) \in Seq(Addr)
  BY Doms, TargetType, BeatsFacts
<1>2. /\ Holds(i_reqs', ReqsFrom) /\ i_reqs'[j] = Append(i_reqs[j], r)
      /\ \A d \in Initiators : d # j => i_reqs'[d] = i_reqs[d]
  BY PutFacts, Doms DEF BufferInv
<1>3. owed' = [owed EXCEPT ![j][u] = Cat(@, Beats(r))]
  BY DEF Owes, Cat
<1> HIDE DEF u
<1>4. owed \in [Initiators -> [Targets -> Seq(Addr)]]
  BY DEF BufferInv
<1>5. Cat(owed[j][u], Beats(r)) \in Seq(Addr)
  BY <1>1, <1>4, CatType
<1>6. owed' \in [Initiators -> [Targets -> Seq(Addr)]]
  BY <1>1, <1>3, <1>4, <1>5
<1>7. BufferInv'
  BY <1>2, <1>6 DEF BufferInv
<1>8. ASSUME NEW i \in Initiators, NEW t \in Targets PROVE OnPath(i, t)' = owed'[i][t]
  <2>1. owed'[i][t] = Cat(owed[i][t], AskedOf(i, t, r))
    <3>1. CASE i = j /\ t = u
      <4>1. AskedOf(i, t, r) = Beats(r)
        BY <1>1, <3>1 DEF AskedOf, u
      <4> QED
        BY <1>1, <1>3, <1>4, <3>1, <4>1
    <3>2. CASE ~(i = j /\ t = u)
      <4>1. AskedOf(i, t, r) = << >>
        BY <1>1, <3>2 DEF AskedOf, u
      <4>2. owed'[i][t] = owed[i][t] /\ owed[i][t] \in Seq(Addr)
        BY <1>1, <1>3, <1>4, <3>2
      <4> QED
        BY <4>1, <4>2, CatEmpty
    <3> QED
      BY <3>1, <3>2
  <2>2. Asked(i, t, i_reqs'[i]) = Cat(Asked(i, t, i_reqs[i]), AskedOf(i, t, r))
    <3>1. i_reqs[i] \in Seq(Reqs)
      BY BufferTypes
    <3>2. CASE i = j
      <4>1. i_reqs'[i] = Append(i_reqs[i], r)
        BY <1>2, <3>2
      <4> QED
        BY <1>1, <3>1, <4>1, AskedAppend
    <3>3. CASE i # j
      <4>1. AskedOf(i, t, r) = << >>
        BY <1>1, <3>3 DEF AskedOf
      <4>2. Asked(i, t, i_reqs[i]) \in Seq(Addr)
        BY <3>1, AskedFacts
      <4> QED
        BY <1>2, <3>3, <4>1, <4>2, CatEmpty
    <3> QED
      BY <3>2, <3>3
  <2>3. Unsent(i, t)' = Unsent(i, t)
    BY UnsentSame
  <2>4. OnPath(i, t)' = Path(Told(i, t, i_rsps[i]), Told(i, t, t_rsps[t]), Unsent(i, t),
                             Cat(Asked(i, t, i_reqs[i]), AskedOf(i, t, r)))
    BY <2>2, <2>3 DEF OnPath, Path, Cat
  <2>5. OnPath(i, t)' = Cat(OnPath(i, t), AskedOf(i, t, r))
    <3>1. AskedOf(i, t, r) \in Seq(Addr)
      BY <1>1, AskedForType
    <3> QED
      BY <2>4, <3>1, OnPathIs, PartTypes, PathAsked, SMTT(30)
  <2>6. OnPath(i, t) = owed[i][t]
    BY DEF InOrder
  <2> QED
    BY <2>1, <2>5, <2>6
<1> QED
  BY <1>7, <1>8 DEF InOrder

LEMMA OrderAfterRoute ==
  ASSUME BufferInv, ControllerInv, InOrder, NEW j \in Initiators, rl_initiators_to_targets(j),
         UNCHANGED <<owed, mc_state, rg_rsp>>
  PROVE  BufferInv' /\ InOrder'
<1> DEFINE r == Head(i_reqs[j])
           u == target_id(r.addr)
<1>1. /\ i_reqs[j] # << >> /\ t_reqs' = Put(t_reqs, u, r) /\ i_reqs' = Taken(i_reqs, j)
      /\ UNCHANGED <<t_rsps, i_rsps>>
  BY DEF rl_initiators_to_targets, CanRoute
<1>2. /\ Holds(i_reqs', ReqsFrom) /\ i_reqs'[j] = Tail(i_reqs[j]) /\ r \in ReqsFrom[j]
      /\ \A d \in Initiators : d # j => i_reqs'[d] = i_reqs[d]
  BY <1>1, TakenFacts, Doms DEF BufferInv
<1>3. r \in Reqs /\ r.initiator = j /\ u \in Targets /\ r \in ReqsTo[u]
  BY <1>2, Doms, TargetType
<1>4. Holds(t_reqs', ReqsTo)
  BY <1>1, <1>3, PutFacts, Doms DEF BufferInv
<1>5. BufferInv'
  BY <1>1, <1>2, <1>4 DEF BufferInv
<1> HIDE DEF r, u
<1>6. ASSUME NEW i \in Initiators, NEW t \in Targets PROVE OnPath(i, t)' = owed'[i][t]
  <2> DEFINE x == AskedOf(i, t, r)
  <2>1. Unsent(i, t)' = Cat(Unsent(i, t), x)
    BY <1>1, <1>3, UnsentGrows
  <2>2. Asked(i, t, i_reqs[i]) = Cat(x, Asked(i, t, i_reqs'[i])) /\ Asked(i, t, i_reqs'[i]) \in Seq(Addr)
    <3>1. i_reqs[i] \in Seq(Reqs)
      BY BufferTypes
    <3>2. CASE i = j
      <4>1. i_reqs[i] # << >> /\ i_reqs'[i] = Tail(i_reqs[i]) /\ r = Head(i_reqs[i])
        BY <1>1, <1>2, <3>2 DEF r
      <4> QED
        BY <3>1, <4>1, AskedHead
    <3>3. CASE i # j
      <4>1. x = << >>
        BY <1>3, <3>3 DEF AskedOf
      <4>2. Asked(i, t, i_reqs[i]) \in Seq(Addr)
        BY <3>1, AskedFacts
      <4> QED
        BY <1>2, <3>3, <4>1, <4>2, CatEmpty
    <3> QED
      BY <3>2, <3>3
  <2>3. x \in Seq(Addr)
    BY <1>3, AskedForType
  <2> HIDE DEF x
  <2>4. OnPath(i, t)' = Path(Told(i, t, i_rsps[i]), Told(i, t, t_rsps[t]), Cat(Unsent(i, t), x),
                             Asked(i, t, i_reqs'[i]))
    BY <1>1, <2>1 DEF OnPath, Path, Cat
  <2>5. OnPath(i, t) = Path(Told(i, t, i_rsps[i]), Told(i, t, t_rsps[t]), Unsent(i, t),
                            Cat(x, Asked(i, t, i_reqs'[i])))
    BY <2>2, OnPathIs
  <2>6. OnPath(i, t)' = OnPath(i, t)
    <3>1. /\ Told(i, t, i_rsps[i]) \in Seq(Addr) /\ Told(i, t, t_rsps[t]) \in Seq(Addr)
          /\ Unsent(i, t) \in Seq(Addr)
      BY PartTypes
    <3> QED
      BY <2>2, <2>3, <2>4, <2>5, <3>1, PathRouted
  <2> QED
    BY <2>6 DEF InOrder
<1> QED
  BY <1>5, <1>6 DEF InOrder

(* A target sends the response y.                                          *)
LEMMA OrderAfterResponse ==
  ASSUME BufferInv, ControllerInv, InOrder, NEW u \in Targets, NEW y \in RspsFrom[u],
         t_rsps' = Put(t_rsps, u, y), Holds(t_reqs', ReqsTo), UNCHANGED <<i_reqs, i_rsps, owed>>,
         \A i \in Initiators, t \in Targets :
            Unsent(i, t) = Cat(ToldOf(i, t, y), Unsent(i, t)') /\ Unsent(i, t)' \in Seq(Addr)
  PROVE  BufferInv' /\ InOrder'
<1>1. y \in Rsps /\ target_id(y.at) = u
  BY Doms
<1>2. /\ Holds(t_rsps', RspsFrom) /\ t_rsps'[u] = Append(t_rsps[u], y)
      /\ \A d \in Targets : d # u => t_rsps'[d] = t_rsps[d]
  BY PutFacts, Doms DEF BufferInv
<1>3. BufferInv'
  BY <1>2 DEF BufferInv
<1>4. ASSUME NEW i \in Initiators, NEW t \in Targets PROVE OnPath(i, t)' = owed'[i][t]
  <2> DEFINE x == ToldOf(i, t, y)
  <2>1. x \in Seq(Addr)
    BY <1>1, ToldForType
  <2>2. Unsent(i, t) = Cat(x, Unsent(i, t)') /\ Unsent(i, t)' \in Seq(Addr)
    OBVIOUS
  <2>3. Told(i, t, t_rsps'[t]) = Cat(Told(i, t, t_rsps[t]), x)
    <3>1. t_rsps[t] \in Seq(Rsps)
      BY BufferTypes
    <3>2. CASE t = u
      <4>1. t_rsps'[t] = Append(t_rsps[t], y)
        BY <1>2, <3>2
      <4> QED
        BY <1>1, <3>1, <4>1, ToldAppend
    <3>3. CASE t # u
      <4>1. x = << >>
        BY <1>1, <3>3 DEF ToldOf
      <4>2. Told(i, t, t_rsps[t]) \in Seq(Addr)
        BY <3>1, ToldFacts
      <4> QED
        BY <1>2, <3>3, <4>1, <4>2, CatEmpty
    <3> QED
      BY <3>2, <3>3
  <2> HIDE DEF x
  <2>4. OnPath(i, t)' = Path(Told(i, t, i_rsps[i]), Cat(Told(i, t, t_rsps[t]), x), Unsent(i, t)',
                             Asked(i, t, i_reqs[i]))
    BY <2>3 DEF OnPath, Path, Cat
  <2>5. OnPath(i, t) = Path(Told(i, t, i_rsps[i]), Told(i, t, t_rsps[t]), Cat(x, Unsent(i, t)'),
                            Asked(i, t, i_reqs[i]))
    BY <2>2, OnPathIs
  <2>6. OnPath(i, t)' = OnPath(i, t)
    <3>1. /\ Told(i, t, i_rsps[i]) \in Seq(Addr) /\ Told(i, t, t_rsps[t]) \in Seq(Addr)
          /\ Asked(i, t, i_reqs[i]) \in Seq(Addr)
      BY PartTypes
    <3> QED
      BY <2>1, <2>2, <2>4, <2>5, <3>1, PathAnswered
  <2> QED
    BY <2>6 DEF InOrder
<1> QED
  BY <1>3, <1>4 DEF InOrder

(* Targets 2 and 3 answer their first request with one word.               *)
LEMMA OrderAfterAnswer ==
  ASSUME BufferInv, ControllerInv, InOrder, NEW u \in Targets \ {0}, NEW e \in BOOLEAN,
         t_reqs[u] # << >>, t_reqs' = Taken(t_reqs, u),
         t_rsps' = Put(t_rsps, u, Response(Head(t_reqs[u]), e, Head(t_reqs[u]).addr, Head(t_reqs[u]).addr)),
         UNCHANGED <<i_reqs, i_rsps, owed, mc_state, rg_rsp>>
  PROVE  BufferInv' /\ InOrder'
<1> SUFFICES ASSUME NEW r, r = Head(t_reqs[u]), NEW y, y = Response(r, e, r.addr, r.addr)
             PROVE  BufferInv' /\ InOrder'
  OBVIOUS
<1>1. /\ Holds(t_reqs', ReqsTo) /\ r \in ReqsTo[u]
  BY TakenFacts, Doms DEF BufferInv
<1>2. r \in Reqs /\ target_id(r.addr) = u /\ r.addr \in Addr
  BY <1>1, Doms, BeatsFacts
<1>3. y \in Rsps /\ y.at = r.addr /\ y.initiator = r.initiator /\ y \in RspsFrom[u]
  <2>1. y \in Rsps /\ y.at = r.addr /\ y.initiator = r.initiator
    BY <1>2 DEF Response, Rsps, Reqs, Data
  <2> QED
    BY <1>2, <2>1, Doms
<1>4. ASSUME NEW i \in Initiators, NEW t \in Targets
      PROVE  Unsent(i, t) = Cat(ToldOf(i, t, y), Unsent(i, t)') /\ Unsent(i, t)' \in Seq(Addr)
  <2>1. Unsent(i, t) = Cat(AskedOf(i, t, r), Unsent(i, t)') /\ Unsent(i, t)' \in Seq(Addr)
    BY UnsentShrinks
  <2>2. AskedOf(i, t, r) = ToldOf(i, t, y)
    <3>1. CASE r.initiator = i /\ u = t
      <4>1. Beats(r) = <<r.addr>>
        BY <1>2, <3>1, BeatsFacts
      <4> QED
        BY <1>2, <1>3, <3>1, <4>1 DEF AskedOf, ToldOf
    <3>2. CASE ~(r.initiator = i /\ u = t)
      BY <1>2, <1>3, <3>2 DEF AskedOf, ToldOf
    <3> QED
      BY <3>1, <3>2
  <2> QED
    BY <2>1, <2>2
<1>5. t_rsps' = Put(t_rsps, u, y)
  OBVIOUS
<1> QED
  BY <1>1, <1>3, <1>4, <1>5, OrderAfterResponse

LEMMA OrderAfterReturn ==
  ASSUME BufferInv, ControllerInv, InOrder, NEW u \in Targets, rl_targets_to_initiators(u),
         UNCHANGED <<owed, mc_state, rg_rsp>>
  PROVE  BufferInv' /\ InOrder'
<1> SUFFICES ASSUME NEW y, y = Head(t_rsps[u]), NEW j, j = y.initiator
             PROVE  BufferInv' /\ InOrder'
  OBVIOUS
<1>1. /\ t_rsps[u] # << >> /\ i_rsps' = Put(i_rsps, j, y) /\ t_rsps' = Taken(t_rsps, u)
      /\ UNCHANGED <<i_reqs, t_reqs>>
  BY DEF rl_targets_to_initiators, CanReturn
<1>2. /\ Holds(t_rsps', RspsFrom) /\ t_rsps'[u] = Tail(t_rsps[u]) /\ y \in RspsFrom[u]
      /\ \A d \in Targets : d # u => t_rsps'[d] = t_rsps[d]
  BY <1>1, TakenFacts, Doms DEF BufferInv
<1>3. y \in Rsps /\ j \in Initiators /\ target_id(y.at) = u /\ y \in RspsTo[j]
  <2>1. y \in Rsps /\ target_id(y.at) = u
    BY <1>2, Doms
  <2>2. j \in Initiators
    BY <2>1 DEF Rsps
  <2> QED
    BY <2>1, <2>2, Doms
<1>4. /\ Holds(i_rsps', RspsTo) /\ i_rsps'[j] = Append(i_rsps[j], y)
      /\ \A d \in Initiators : d # j => i_rsps'[d] = i_rsps[d]
  <2>1. Holds(i_rsps, RspsTo) /\ j \in DOMAIN RspsTo /\ y \in RspsTo[j]
    BY <1>3, Doms DEF BufferInv
  <2>2. /\ Holds(Put(i_rsps, j, y), RspsTo) /\ Put(i_rsps, j, y)[j] = Append(i_rsps[j], y)
        /\ \A d \in DOMAIN RspsTo : d # j => Put(i_rsps, j, y)[d] = i_rsps[d]
    BY <2>1, PutFacts, SMTT(30)
  <2>3. i_rsps' = Put(i_rsps, j, y) /\ DOMAIN RspsTo = Initiators
    BY <1>1, Doms
  <2> QED
    BY <2>2, <2>3
<1>5. BufferInv'
  BY <1>1, <1>2, <1>4 DEF BufferInv
<1>6. ASSUME NEW i \in Initiators, NEW t \in Targets PROVE OnPath(i, t)' = owed'[i][t]
  <2> DEFINE x == ToldOf(i, t, y)
  <2>1. Unsent(i, t)' = Unsent(i, t)
    BY <1>1, UnsentSame
  <2>2. Told(i, t, t_rsps[t]) = Cat(x, Told(i, t, t_rsps'[t])) /\ Told(i, t, t_rsps'[t]) \in Seq(Addr)
    <3>1. t_rsps[t] \in Seq(Rsps)
      BY BufferTypes
    <3>2. CASE t = u
      <4>1. t_rsps[t] # << >> /\ t_rsps'[t] = Tail(t_rsps[t]) /\ y = Head(t_rsps[t])
        BY <1>1, <1>2, <3>2
      <4> QED
        BY <3>1, <4>1, ToldHead
    <3>3. CASE t # u
      <4>1. x = << >>
        BY <1>3, <3>3 DEF ToldOf
      <4>2. Told(i, t, t_rsps[t]) \in Seq(Addr)
        BY <3>1, ToldFacts
      <4> QED
        BY <1>2, <3>3, <4>1, <4>2, CatEmpty
    <3> QED
      BY <3>2, <3>3
  <2>3. x \in Seq(Addr)
    BY <1>3, ToldForType
  <2>4. Told(i, t, i_rsps'[i]) = Cat(Told(i, t, i_rsps[i]), x)
    <3>1. i_rsps[i] \in Seq(Rsps)
      BY BufferTypes
    <3>2. CASE i = j
      <4>1. i_rsps'[i] = Append(i_rsps[i], y)
        BY <1>4, <3>2
      <4> QED
        BY <1>3, <3>1, <4>1, ToldAppend
    <3>3. CASE i # j
      <4>1. x = << >>
        BY <3>3 DEF ToldOf
      <4>2. Told(i, t, i_rsps[i]) \in Seq(Addr)
        BY <3>1, ToldFacts
      <4> QED
        BY <1>4, <3>3, <4>1, <4>2, CatEmpty
    <3> QED
      BY <3>2, <3>3
  <2> HIDE DEF x
  <2>5. OnPath(i, t)' = Path(Cat(Told(i, t, i_rsps[i]), x), Told(i, t, t_rsps'[t]), Unsent(i, t),
                             Asked(i, t, i_reqs[i]))
    BY <1>1, <2>1, <2>4 DEF OnPath, Path, Cat
  <2>6. OnPath(i, t) = Path(Told(i, t, i_rsps[i]), Cat(x, Told(i, t, t_rsps'[t])), Unsent(i, t),
                            Asked(i, t, i_reqs[i]))
    BY <2>2, OnPathIs
  <2>7. OnPath(i, t)' = OnPath(i, t)
    <3>1. /\ Told(i, t, i_rsps[i]) \in Seq(Addr) /\ Unsent(i, t) \in Seq(Addr)
          /\ Asked(i, t, i_reqs[i]) \in Seq(Addr)
      BY PartTypes
    <3> QED
      BY <2>2, <2>3, <2>5, <2>6, <3>1, PathReturned
  <2> QED
    BY <2>7 DEF InOrder
<1> QED
  BY <1>5, <1>6 DEF InOrder

LEMMA OrderAfterArrival ==
  ASSUME BufferInv, ControllerInv, InOrder, NEW j \in Initiators, i_rsps[j] # << >>,
         i_rsps' = Taken(i_rsps, j), owed' = Gets(j),
         UNCHANGED <<i_reqs, t_reqs, t_rsps, mc_state, rg_rsp>>
  PROVE  /\ BufferInv' /\ InOrder'
         /\ LET y == Head(i_rsps[j]) IN
              /\ y \in Rsps /\ y.initiator = j
              /\ owed[j][target_id(y.at)] # << >> /\ Head(owed[j][target_id(y.at)]) = y.at
<1> SUFFICES ASSUME NEW y, y = Head(i_rsps[j]), NEW u, u = target_id(y.at)
             PROVE  /\ BufferInv' /\ InOrder'
                    /\ y \in Rsps /\ y.initiator = j
                    /\ owed[j][u] # << >> /\ Head(owed[j][u]) = y.at
  OBVIOUS
<1>1. /\ Holds(i_rsps', RspsTo) /\ i_rsps'[j] = Tail(i_rsps[j]) /\ y \in RspsTo[j]
      /\ \A d \in Initiators : d # j => i_rsps'[d] = i_rsps[d]
  BY TakenFacts, Doms DEF BufferInv
<1>2. y \in Rsps /\ y.initiator = j /\ u \in Targets /\ y.at \in Addr
  BY <1>1, Doms, TargetType DEF Rsps
<1>3. owed' = [owed EXCEPT ![j][u] = Tail(@)]
  BY DEF Gets
<1>4. owed \in [Initiators -> [Targets -> Seq(Addr)]]
  BY DEF BufferInv
<1>5. ASSUME NEW i \in Initiators, NEW t \in Targets
      PROVE  owed[i][t] = Cat(ToldOf(i, t, y), OnPath(i, t)') /\ OnPath(i, t)' \in Seq(Addr)
  <2> DEFINE x == ToldOf(i, t, y)
  <2>1. Unsent(i, t)' = Unsent(i, t)
    BY UnsentSame
  <2>2. Told(i, t, i_rsps[i]) = Cat(x, Told(i, t, i_rsps'[i])) /\ Told(i, t, i_rsps'[i]) \in Seq(Addr)
    <3>1. i_rsps[i] \in Seq(Rsps)
      BY BufferTypes
    <3>2. CASE i = j
      <4>1. i_rsps[i] # << >> /\ i_rsps'[i] = Tail(i_rsps[i]) /\ y = Head(i_rsps[i])
        BY <1>1, <3>2
      <4> QED
        BY <3>1, <4>1, ToldHead
    <3>3. CASE i # j
      <4>1. x = << >>
        BY <1>2, <3>3 DEF ToldOf
      <4>2. Told(i, t, i_rsps[i]) \in Seq(Addr)
        BY <3>1, ToldFacts
      <4> QED
        BY <1>1, <3>3, <4>1, <4>2, CatEmpty
    <3> QED
      BY <3>2, <3>3
  <2>3. x \in Seq(Addr)
    BY <1>2, ToldForType
  <2> HIDE DEF x
  <2>4. OnPath(i, t)' = Path(Told(i, t, i_rsps'[i]), Told(i, t, t_rsps[t]), Unsent(i, t),
                             Asked(i, t, i_reqs[i]))
    BY <2>1 DEF OnPath, Path, Cat
  <2>5. OnPath(i, t) = Path(Cat(x, Told(i, t, i_rsps'[i])), Told(i, t, t_rsps[t]), Unsent(i, t),
                            Asked(i, t, i_reqs[i]))
    BY <2>2, OnPathIs
  <2>6. OnPath(i, t) = Cat(x, OnPath(i, t)') /\ OnPath(i, t)' \in Seq(Addr)
    <3>1. /\ Told(i, t, t_rsps[t]) \in Seq(Addr) /\ Unsent(i, t) \in Seq(Addr)
          /\ Asked(i, t, i_reqs[i]) \in Seq(Addr)
      BY PartTypes
    <3> DEFINE a == Told(i, t, i_rsps'[i])
               b == Told(i, t, t_rsps[t])
               c == Unsent(i, t)
               d == Asked(i, t, i_reqs[i])
    <3>2. a \in Seq(Addr) /\ b \in Seq(Addr) /\ c \in Seq(Addr) /\ d \in Seq(Addr)
      BY <2>2, <3>1
    <3>3. OnPath(i, t)' = Path(a, b, c, d) /\ OnPath(i, t) = Path(Cat(x, a), b, c, d)
      BY <2>4, <2>5
    <3> HIDE DEF a, b, c, d
    <3> QED
      BY <2>3, <3>2, <3>3, PathArrived
  <2> QED
    BY <2>6 DEF InOrder, x
<1>6. owed[j][u] = Cat(<<y.at>>, OnPath(j, u)') /\ OnPath(j, u)' \in Seq(Addr)
  <2>1. ToldOf(j, u, y) = <<y.at>>
    BY <1>2 DEF ToldOf
  <2>2. owed[j][u] = Cat(ToldOf(j, u, y), OnPath(j, u)') /\ OnPath(j, u)' \in Seq(Addr)
    BY <1>2, <1>5
  <2> QED
    BY <2>1, <2>2
<1>7. owed[j][u] # << >> /\ Head(owed[j][u]) = y.at /\ Tail(owed[j][u]) = OnPath(j, u)'
  <2> DEFINE p == OnPath(j, u)'
  <2>1. p \in Seq(Addr) /\ y.at \in Addr /\ owed[j][u] = Cat(<<y.at>>, p)
    BY <1>2, <1>6
  <2> HIDE DEF p
  <2>2. Cat(<<y.at>>, p) # << >> /\ Head(Cat(<<y.at>>, p)) = y.at /\ Tail(Cat(<<y.at>>, p)) = p
    BY <2>1, ConsFacts
  <2> QED
    BY <2>1, <2>2 DEF p
<1>8. ASSUME NEW i \in Initiators, NEW t \in Targets PROVE OnPath(i, t)' = owed'[i][t]
  <2>1. CASE i = j /\ t = u
    <3>1. owed'[j][u] = Tail(owed[j][u])
      BY <1>2, <1>3, <1>4
    <3>2. OnPath(i, t)' = OnPath(j, u)'
      BY <2>1
    <3> QED
      BY <1>7, <2>1, <3>1, <3>2
  <2>2. CASE ~(i = j /\ t = u)
    <3>1. ToldOf(i, t, y) = << >>
      BY <1>2, <2>2 DEF ToldOf
    <3>2. owed'[i][t] = owed[i][t]
      BY <1>2, <1>3, <1>4, <2>2
    <3> QED
      BY <1>5, <3>1, <3>2, CatEmpty
  <2> QED
    BY <2>1, <2>2
<1>9. owed' \in [Initiators -> [Targets -> Seq(Addr)]]
  <2>1. Tail(owed[j][u]) \in Seq(Addr)
    BY <1>6, <1>7
  <2> QED
    BY <1>2, <1>3, <1>4, <2>1
<1>10. BufferInv'
  BY <1>1, <1>9 DEF BufferInv
<1> QED
  BY <1>2, <1>7, <1>8, <1>10 DEF InOrder

-----------------------------------------------------------------------------
(* The memory controller takes a request to serve, and sends a word.       *)
LEMMA WordsFacts ==
  ASSUME BufferInv, RawTypes, t_reqs[0] # << >>
  PROVE  /\ Words \in Seq(Data) /\ Len(Words) = Len(Beats(Request)) /\ Words # << >>
         /\ ~Refused /\ Request.op = "LD" =>
              \A k \in 1 .. Len(Words) :
                 Words[k] = rg_cached_burst[IF Request.burst
                               THEN Cardinality(Off) - Len(Words) + k - 1 ELSE off]
<1> DEFINE n == Cardinality(Off)
<1>1. /\ Request \in Reqs /\ target_id(Request.addr) = 0 /\ off \in Off
      /\ Request.op \in {"LD", "ST"} /\ (Request.burst => ~Refused /\ Request.op = "LD")
      /\ Request.burst \in BOOLEAN /\ Request.addr \in Addr
  BY RequestFacts, BeatsFacts
<1>2. n \in Nat \ {0} /\ \A k \in 1 .. n : k - 1 \in Off
  BY OffFacts
<1>3. \A w \in Off : rg_cached_burst[w] \in Data
  BY DEF RawTypes, LineWords, Data
<1>4. CASE Request.burst
  <2>1. Len(Beats(Request)) = n
    BY <1>1, <1>4, BeatsFacts
  <2>2. Words = [k \in 1 .. n |-> rg_cached_burst[k - 1]]
    BY <1>1, <1>4 DEF Words
  <2> HIDE DEF n
  <2>3. Words \in Seq(Data) /\ Len(Words) = n /\ \A k \in 1 .. n : Words[k] = rg_cached_burst[k - 1]
    BY <1>2, <1>3, <2>2
  <2>4. Words # << >>
    BY <1>2, <2>3
  <2>5. \A k \in 1 .. n : n - n + k - 1 = k - 1
    BY <1>2
  <2> QED
    BY <1>4, <2>1, <2>3, <2>4, <2>5 DEF n
<1>5. CASE ~Request.burst
  <2>1. Len(Beats(Request)) = 1
    <3>1. Beats(Request) = <<Request.addr>>
      BY <1>1, <1>5, BeatsFacts
    <3> QED
      BY <3>1
  <2>2. CASE Refused \/ Request.op = "ST"
    <3>1. Words = <<Request.addr>>
      BY <2>2 DEF Words
    <3>2. Request.addr \in Data
      BY <1>1 DEF Data
    <3> QED
      BY <1>1, <2>1, <2>2, <3>1, <3>2
  <2>3. CASE ~Refused /\ Request.op = "LD"
    <3>1. Words = <<rg_cached_burst[off]>>
      BY <1>5, <2>3 DEF Words
    <3>2. rg_cached_burst[off] \in Data
      BY <1>1, <1>3
    <3> QED
      BY <1>5, <2>1, <2>3, <3>1, <3>2
  <2> QED
    BY <1>1, <2>2, <2>3
<1> QED
  BY <1>1, <1>4, <1>5

LEMMA OrderAfterServe ==
  ASSUME BufferInv, ControllerInv, InOrder, rl_process_req, UNCHANGED owed
  PROVE  BufferInv' /\ InOrder'
<1>1. /\ mc_state = "READY" /\ t_reqs[0] # << >> /\ mc_state' = "SEND" /\ rg_rsp'.words = Words
      /\ UNCHANGED <<i_reqs, t_reqs, t_rsps, i_rsps>>
  BY DEF rl_process_req, Waiting, fabricVars
<1>2. BufferInv'
  BY <1>1 DEF BufferInv
<1>3. Len(Words) = Len(Beats(Request)) /\ Request \in Reqs /\ t_reqs[0] \in Seq(Reqs)
  BY <1>1, WordsFacts, RequestFacts, BufferTypes, TargetType DEF ControllerInv
<1>4. ASSUME NEW i \in Initiators, NEW t \in Targets PROVE Unsent(i, t)' = Unsent(i, t)
  <2>1. CASE t # 0
    BY <1>1, <2>1 DEF Unsent
  <2>2. CASE t = 0
    <3> DEFINE b == AskedOf(i, 0, Request)
               n == Len(b)
    <3>1. b \in Seq(Addr) /\ Request' = Request
      BY <1>1, <1>3, AskedForType DEF Request
    <3>2. BeingSent(i)' = b
      <4>1. CASE b = << >>
        BY <3>1, <4>1 DEF BeingSent
      <4>2. CASE b # << >>
        <5>1. b = Beats(Request)
          BY <4>2 DEF AskedOf
        <5>2. n \in Nat /\ n # 0
          BY <3>1, <4>2, EmptySeq
        <5>3. BeingSent(i)' = SubSeq(b, n - n + 1, n)
          BY <1>1, <1>3, <3>1, <4>2, <5>1 DEF BeingSent
        <5> HIDE DEF b
        <5>4. n - n + 1 = 1 /\ 1 \in 1 .. n
          BY <5>2
        <5>5. SubSeq(b, 1, n) = b
          BY <3>1, <5>2, <5>4, SubSeqFacts
        <5> QED
          BY <5>3, <5>4, <5>5
      <4> QED
        BY <4>1, <4>2
    <3>3. Unsent(i, t)' = Cat(b, Asked(i, 0, Tail(t_reqs[0])))
      BY <1>1, <2>2, <3>2 DEF Unsent, Cat
    <3>4. Unsent(i, t) = Asked(i, 0, t_reqs[0])
      BY <1>1, <2>2 DEF Unsent
    <3>5. Asked(i, 0, t_reqs[0]) = Cat(b, Asked(i, 0, Tail(t_reqs[0])))
      BY <1>1, <1>3, AskedHead DEF Request
    <3> QED
      BY <3>3, <3>4, <3>5
  <2> QED
    BY <2>1, <2>2
<1>5. InOrder'
  BY <1>1, <1>4 DEF InOrder, OnPath
<1> QED
  BY <1>2, <1>5

(* The next word the memory controller sends is the next one owed.         *)
LEMMA SendFacts ==
  ASSUME BufferInv, ControllerInv, mc_state = "SEND"
  PROVE  /\ Len(rg_rsp.words) \in 1 .. Len(Beats(Request)) /\ Len(Beats(Request)) \in Nat
         /\ At = Beats(Request)[Len(Beats(Request)) - Len(rg_rsp.words) + 1]
         /\ At \in Addr /\ At[1] = line /\ target_id(At) = 0
         /\ rg_rsp.words \in Seq(Data) /\ rg_rsp.words # << >> /\ Head(rg_rsp.words) \in Data
<1> DEFINE b == Beats(Request)
           n == Len(b)
           L == Len(rg_rsp.words)
           c == Cardinality(Off)
<1>1. /\ Request \in Reqs /\ target_id(Request.addr) = 0 /\ line \in MemLines
      /\ Request.addr = <<line, off>> /\ (Request.burst => ~Refused) /\ rg_rsp.err = Refused
  BY RequestFacts DEF ControllerInv, SendInv
<1>2. b \in Seq(Addr) /\ n \in Nat \ {0}
  BY <1>1, BeatsFacts
<1>3. rg_rsp.words \in Seq(Data) /\ rg_rsp.words # << >> /\ L <= n
  BY DEF ControllerInv, SendInv
<1>4. Head(rg_rsp.words) \in Data /\ L \in Nat \ {0}
  BY <1>3, EmptySeq, TailFacts
<1> HIDE DEF n, L
<1>5. L \in 1 .. n /\ n - L + 1 \in 1 .. n
  BY <1>2, <1>3, <1>4
<1>6. At = b[n - L + 1] /\ At[1] = line
  <2>1. CASE Request.burst
    <3>1. n = c /\ \A k \in 1 .. c : b[k] = <<line, k - 1>>
      BY <1>1, <2>1, BeatsFacts DEF n, line
    <3>2. At = <<line, c - L>>
      BY <1>1, <2>1 DEF At, L
    <3>3. n - L + 1 \in 1 .. c /\ (n - L + 1) - 1 = c - L
      BY <1>2, <1>4, <1>5, <3>1
    <3> QED
      BY <3>1, <3>2, <3>3
  <2>2. CASE ~Request.burst
    <3>1. b = <<Request.addr>> /\ At = Request.addr
      BY <1>1, <2>2, BeatsFacts DEF At
    <3>2. n = 1
      BY <3>1 DEF n
    <3>3. n - L + 1 = 1
      BY <1>4, <1>5, <3>2
    <3> QED
      BY <1>1, <3>1, <3>3
  <2> QED
    BY <2>1, <2>2
<1>7. b[n - L + 1] \in Addr
  BY <1>2, <1>5 DEF n
<1> QED
  BY <1>1, <1>2, <1>3, <1>4, <1>5, <1>6, <1>7, TargetType DEF n, L

LEMMA OrderAfterSend ==
  ASSUME BufferInv, ControllerInv, InOrder, rl_send_rsp, UNCHANGED owed
  PROVE  BufferInv' /\ InOrder'
<1> DEFINE b == Beats(Request)
           n == Len(b)
           L == Len(rg_rsp.words)
           q == Tail(t_reqs[0])
<1> SUFFICES ASSUME NEW y, y = Response(Request, rg_rsp.err, Head(rg_rsp.words), At)
             PROVE  BufferInv' /\ InOrder'
  OBVIOUS
<1>1. /\ mc_state = "SEND" /\ t_rsps' = Put(t_rsps, 0, y) /\ UNCHANGED <<i_reqs, i_rsps>>
      /\ t_reqs' = IF LastWord THEN Taken(t_reqs, 0) ELSE t_reqs
      /\ mc_state' = IF LastWord THEN "READY" ELSE mc_state
      /\ rg_rsp' = IF LastWord THEN NoRsp ELSE [rg_rsp EXCEPT !.words = Tail(@)]
  BY DEF rl_send_rsp
<1>2. SendInv /\ rg_rsp \in [err : BOOLEAN, words : Seq(Data)] /\ t_reqs[0] # << >>
  BY <1>1 DEF ControllerInv, SendInv
<1>3. Request \in Reqs /\ target_id(Request.addr) = 0 /\ q \in Seq(Reqs)
  BY <1>2, RequestFacts
<1>4. /\ L \in 1 .. n /\ At = b[n - L + 1] /\ At \in Addr /\ target_id(At) = 0
      /\ rg_rsp.words # << >> /\ Head(rg_rsp.words) \in Data /\ rg_rsp.words \in Seq(Data)
  BY <1>1, SendFacts
<1>5. b \in Seq(Addr) /\ n \in Nat
  BY <1>3, BeatsFacts
<1>6. y \in Rsps /\ y.at = At /\ y.initiator = Request.initiator /\ y \in RspsFrom[0] /\ 0 \in Targets
  <2>1. y \in Rsps /\ y.at = At /\ y.initiator = Request.initiator
    BY <1>2, <1>3, <1>4 DEF Response, Rsps, Reqs
  <2> QED
    <3>1. 0 \in Targets /\ RspsFrom[0] = {x \in Rsps : target_id(x.at) = 0}
      BY Doms, TargetType
    <3>2. target_id(y.at) = 0
      BY <1>4, <2>1
    <3> QED
      BY <2>1, <3>1, <3>2
<1>7. /\ Holds(t_reqs', ReqsTo) /\ \A d \in Targets : d # 0 => t_reqs'[d] = t_reqs[d]
      /\ LastWord => t_reqs'[0] = q
      /\ ~LastWord => t_reqs' = t_reqs
  BY <1>1, <1>2, <1>6, TakenFacts, Doms DEF BufferInv
<1> DEFINE R(i) == IF Request.initiator = i THEN SubSeq(b, n - L + 2, n) ELSE << >>
<1>8. ASSUME NEW i \in Initiators
      PROVE  /\ BeingSent(i) = Cat(ToldOf(i, 0, y), R(i)) /\ R(i) \in Seq(Addr)
             /\ BeingSent(i) = << >> => R(i) = << >>
             /\ LastWord => R(i) = << >>
             /\ ~LastWord => BeingSent(i)' = R(i)
  <2>1. rg_rsp.words \in Seq(Data)
    BY <1>4
  <2>2. CASE Request.initiator # i
    <3>1. BeingSent(i) = << >> /\ ToldOf(i, 0, y) = << >> /\ R(i) = << >>
      BY <1>2, <1>6, <2>1, <2>2, BeingSentFacts DEF ToldOf
    <3>2. R(i) \in Seq(Addr) /\ Cat(<< >>, << >>) = << >>
      BY <3>1, EmptySeq, CatEmpty
    <3>3. ASSUME ~LastWord PROVE BeingSent(i)' = << >>
      <4>1. Request' = Request
        BY <1>7, <3>3 DEF Request
      <4> QED
        BY <2>2, <4>1 DEF BeingSent, AskedOf
    <3> QED
      BY <3>1, <3>2, <3>3
  <2>3. CASE Request.initiator = i
    <3>1. BeingSent(i) = SubSeq(b, n - L + 1, n)
      BY <1>2, <2>1, <2>3, BeingSentFacts
    <3>2. ToldOf(i, 0, y) = <<b[n - L + 1]>>
      BY <1>4, <1>6, <2>3 DEF ToldOf
    <3>3. R(i) = SubSeq(b, n - L + 2, n)
      BY <2>3
    <3>4. ~LastWord => BeingSent(i)' = SubSeq(b, n - (L - 1) + 1, n)
      <4>1. ASSUME ~LastWord
            PROVE  BeingSent(i)' = SubSeq(b, n - (L - 1) + 1, n)
        <5>1. Request' = Request /\ rg_rsp'.words = Tail(rg_rsp.words)
          BY <1>1, <1>2, <1>7, <4>1 DEF Request
        <5>2. Len(Tail(rg_rsp.words)) = L - 1
          BY <1>4, TailFacts
        <5>3. AskedOf(i, 0, Request) = b /\ b # << >>
          BY <1>3, <1>4, <1>5, <2>3 DEF AskedOf
        <5>4. BeingSent(i)' = SubSeq(b, n - Len(rg_rsp'.words) + 1, n)
          BY <5>1, <5>3 DEF BeingSent
        <5> QED
          BY <5>1, <5>2, <5>4
      <4> QED
        BY <4>1
    <3>5. LastWord => L = 1
      BY DEF LastWord
    <3> HIDE DEF b
    <3>6. n = Len(b)
      OBVIOUS
    <3> HIDE DEF n, L, R
    <3>7. n - L + 1 \in 1 .. n /\ n - (L - 1) + 1 = n - L + 2 /\ (n - L + 1) + 1 = n - L + 2 /\ L \in 1 .. n
      BY <1>4, <1>5
    <3>8. /\ SubSeq(b, n - L + 1, n) = Cat(<<b[n - L + 1]>>, SubSeq(b, (n - L + 1) + 1, n))
          /\ SubSeq(b, n - L + 1, n) \in Seq(Addr)
          /\ SubSeq(b, n + 1, n) = << >>
      BY <1>5, <3>6, <3>7, SubSeqFacts, SMTT(30)
    <3>9. SubSeq(b, n - L + 2, n) \in Seq(Addr)
      <4>1. CASE L = 1
        BY <1>5, <3>7, <3>8, <4>1, EmptySeq
      <4>2. CASE L # 1
        <5>1. n - L + 2 \in 1 .. n
          BY <1>5, <3>7, <4>2
        <5> QED
          BY <1>5, <3>6, <5>1, SubSeqFacts
      <4> QED
        BY <4>1, <4>2
    <3>10. LastWord => R(i) = << >>
      <4>1. LastWord => n - L + 2 = n + 1
        BY <1>5, <3>5, <3>7
      <4> QED
        BY <3>3, <3>8, <4>1
    <3>11. BeingSent(i) # << >>
      <4>1. b[n - L + 1] \in Addr
        BY <1>5, <3>6, <3>7
      <4> QED
        BY <3>1, <3>7, <3>8, <3>9, <4>1, ConsFacts, ZenonT(60)
    <3> QED
      BY <3>1, <3>2, <3>3, <3>4, <3>7, <3>8, <3>9, <3>10, <3>11
  <2> QED
    BY <2>2, <2>3
<1> HIDE DEF R, b, n, L
<1>9. ASSUME NEW i \in Initiators, NEW t \in Targets
      PROVE  Unsent(i, t) = Cat(ToldOf(i, t, y), Unsent(i, t)') /\ Unsent(i, t)' \in Seq(Addr)
  <2>1. CASE t # 0
    <3>1. ToldOf(i, t, y) = << >>
      BY <1>4, <1>6, <2>1 DEF ToldOf
    <3>2. Unsent(i, t) = Asked(i, t, t_reqs[t]) /\ Unsent(i, t)' = Asked(i, t, t_reqs[t])
      BY <1>7, <2>1 DEF Unsent
    <3>3. Unsent(i, t) \in Seq(Addr)
      BY PartTypes
    <3> QED
      BY <3>1, <3>2, <3>3, CatEmpty
  <2>2. CASE t = 0
    <3> DEFINE x == ToldOf(i, 0, y)
               z == Asked(i, 0, q)
    <3>1. x \in Seq(Addr) /\ z \in Seq(Addr) /\ R(i) \in Seq(Addr)
      BY <1>3, <1>6, <1>8, ToldForType, AskedFacts
    <3>2. Unsent(i, 0) = Cat(BeingSent(i), z)
      BY <1>1 DEF Unsent, Cat
    <3>3. BeingSent(i) = Cat(x, R(i))
      BY <1>8
    <3>4. Unsent(i, 0)' = Cat(R(i), z)
      <4>1. CASE LastWord
        <5>1. Unsent(i, 0)' = Asked(i, 0, t_reqs'[0])
          BY <1>1, <4>1 DEF Unsent
        <5>2. R(i) = << >> /\ t_reqs'[0] = q
          BY <1>7, <1>8, <4>1
        <5> QED
          BY <3>1, <5>1, <5>2, CatEmpty
      <4>2. CASE ~LastWord
        <5>1. Unsent(i, 0)' = Cat(BeingSent(i)', Asked(i, 0, Tail(t_reqs'[0])))
          BY <1>1, <4>2 DEF Unsent, Cat
        <5>2. BeingSent(i)' = R(i) /\ t_reqs'[0] = t_reqs[0]
          BY <1>7, <1>8, <4>2
        <5> QED
          BY <5>1, <5>2
      <4> QED
        BY <4>1, <4>2
    <3> HIDE DEF x, z
    <3>5. Cat(Cat(x, R(i)), z) = Cat(x, Cat(R(i), z)) /\ Cat(R(i), z) \in Seq(Addr)
      BY <3>1, CatAssociative, CatType
    <3> QED
      BY <2>2, <3>2, <3>3, <3>4, <3>5 DEF x
  <2> QED
    BY <2>1, <2>2
<1> QED
  BY <1>1, <1>6, <1>7, <1>9, OrderAfterResponse

-----------------------------------------------------------------------------
(* Nothing is owed: then nothing is on the way.                            *)
LEMMA CatNothing ==
  ASSUME NEW S, NEW p \in Seq(S), NEW q \in Seq(S)
  PROVE  Cat(p, q) = << >> <=> p = << >> /\ q = << >>
<1>1. Cat(p, q) \in Seq(S) /\ Len(Cat(p, q)) = Len(p) + Len(q)
  BY CatType
<1>2. /\ Len(p) \in Nat /\ Len(q) \in Nat
      /\ (p = << >> <=> Len(p) = 0) /\ (q = << >> <=> Len(q) = 0)
  BY EmptySeq
<1>3. Cat(p, q) = << >> <=> Len(Cat(p, q)) = 0
  BY <1>1, EmptySeq
<1> QED
  BY <1>1, <1>2, <1>3

LEMMA PathNothing ==
  ASSUME NEW a \in Seq(Addr), NEW b \in Seq(Addr), NEW c \in Seq(Addr), NEW d \in Seq(Addr)
  PROVE  Path(a, b, c, d) = << >> <=> a = << >> /\ b = << >> /\ c = << >> /\ d = << >>
<1> DEFINE ab == Cat(a, b)
           abc == Cat(ab, c)
<1>1. ab \in Seq(Addr) /\ (ab = << >> <=> a = << >> /\ b = << >>)
  BY CatType, CatNothing
<1> HIDE DEF ab
<1>2. abc \in Seq(Addr) /\ (abc = << >> <=> ab = << >> /\ c = << >>)
  BY <1>1, CatType, CatNothing
<1> HIDE DEF abc
<1>3. Path(a, b, c, d) = Cat(abc, d)
  BY DEF Path, ab, abc
<1>4. Cat(abc, d) = << >> <=> abc = << >> /\ d = << >>
  BY <1>2, CatNothing
<1> QED
  BY <1>1, <1>2, <1>3, <1>4

LEMMA QuietFacts ==
  ASSUME BufferInv, ControllerInv, InOrder, Quiet
  PROVE  /\ \A i \in Initiators, t \in Targets :
              /\ Told(i, t, i_rsps[i]) = << >> /\ Told(i, t, t_rsps[t]) = << >>
              /\ Unsent(i, t) = << >> /\ Asked(i, t, i_reqs[i]) = << >>
         /\ t_reqs[0] = << >> /\ mc_state = "READY"
<1>1. ASSUME NEW i \in Initiators, NEW t \in Targets
      PROVE  /\ Told(i, t, i_rsps[i]) = << >> /\ Told(i, t, t_rsps[t]) = << >>
             /\ Unsent(i, t) = << >> /\ Asked(i, t, i_reqs[i]) = << >>
  <2>1. OnPath(i, t) = << >>
    BY DEF InOrder, Quiet
  <2>2. Path(Told(i, t, i_rsps[i]), Told(i, t, t_rsps[t]), Unsent(i, t), Asked(i, t, i_reqs[i])) = << >>
    BY <2>1, OnPathIs
  <2> QED
    BY <2>2, PartTypes, PathNothing
<1>2. ASSUME t_reqs[0] # << >> PROVE FALSE
  <2> DEFINE i == Request.initiator
             b == Beats(Request)
             n == Len(b)
             L == Len(rg_rsp.words)
  <2>1. /\ Request \in Reqs /\ target_id(Request.addr) = 0 /\ i \in Initiators
        /\ Tail(t_reqs[0]) \in Seq(Reqs) /\ t_reqs[0] \in Seq(Reqs) /\ 0 \in Targets
    BY <1>2, RequestFacts, BufferTypes, TargetType
  <2>2. b \in Seq(Addr) /\ n \in Nat \ {0} /\ b # << >> /\ AskedOf(i, 0, Request) = b
    BY <2>1, BeatsFacts, EmptySeq DEF AskedOf
  <2>3. Unsent(i, 0) = << >>
    BY <1>1, <2>1
  <2>4. Asked(i, 0, Tail(t_reqs[0])) \in Seq(Addr)
    BY <2>1, AskedFacts
  <2>5. CASE mc_state # "SEND"
    <3>1. Asked(i, 0, t_reqs[0]) = << >>
      BY <2>3, <2>5 DEF Unsent
    <3>2. Asked(i, 0, t_reqs[0]) = Cat(b, Asked(i, 0, Tail(t_reqs[0])))
      BY <1>2, <2>1, <2>2, AskedHead DEF Request
    <3> QED
      BY <2>2, <2>4, <3>1, <3>2, CatNothing
  <2>6. CASE mc_state = "SEND"
    <3>1. SendInv /\ rg_rsp.words \in Seq(Data) /\ L \in 1 .. n
      BY <2>6, SendFacts DEF ControllerInv
    <3>2. BeingSent(i) \in Seq(Addr) /\ BeingSent(i) = SubSeq(b, n - L + 1, n)
      BY <3>1, BeingSentFacts
    <3>3. Cat(BeingSent(i), Asked(i, 0, Tail(t_reqs[0]))) = << >>
      BY <2>3, <2>6 DEF Unsent, Cat
    <3>4. BeingSent(i) = << >>
      BY <2>4, <3>2, <3>3, CatNothing
    <3> HIDE DEF b
    <3>5. n = Len(b)
      OBVIOUS
    <3> HIDE DEF n, L
    <3>6. n - L + 1 \in 1 .. n
      BY <2>2, <3>1
    <3>7. SubSeq(b, n - L + 1, n) = Cat(<<b[n - L + 1]>>, SubSeq(b, n - L + 2, n))
      <4>1. SubSeq(b, n - L + 1, n) = Cat(<<b[n - L + 1]>>, SubSeq(b, (n - L + 1) + 1, n))
        BY <2>2, <3>5, <3>6, SubSeqFacts
      <4>2. (n - L + 1) + 1 = n - L + 2
        BY <2>2, <3>1
      <4> QED
        BY <4>1, <4>2
    <3>8. Len(SubSeq(b, n - L + 1, n)) = n - (n - L + 1) + 1
      BY <2>2, <3>5, <3>6
    <3>9. n - (n - L + 1) + 1 = L
      BY <2>2, <3>1
    <3> QED
      BY <3>1, <3>2, <3>4, <3>8, <3>9, EmptySeq
  <2> QED
    BY <2>5, <2>6
<1>3. mc_state = "READY"
  BY <1>2 DEF ControllerInv, RawTypes, ReloadInv, SendInv
<1> QED
  BY <1>1, <1>2, <1>3

(* A reset that begins when nothing is owed leaves nothing on the way.     *)
LEMMA OrderAfterClear ==
  ASSUME BufferInv, ControllerInv, InOrder, Quiet, UNCHANGED owed, mc_state' = "READY",
         Holds(i_reqs', ReqsFrom), Holds(t_reqs', ReqsTo),
         Holds(t_rsps', RspsFrom), Holds(i_rsps', RspsTo),
         \A i \in Initiators : /\ i_reqs'[i] = << >> \/ i_reqs'[i] = i_reqs[i]
                               /\ i_rsps'[i] = << >> \/ i_rsps'[i] = i_rsps[i],
         \A t \in Targets : /\ t_reqs'[t] = << >> \/ t_reqs'[t] = t_reqs[t]
                            /\ t_rsps'[t] = << >> \/ t_rsps'[t] = t_rsps[t]
  PROVE  BufferInv' /\ InOrder'
<1>1. BufferInv'
  BY DEF BufferInv
<1>2. ASSUME NEW i \in Initiators, NEW t \in Targets PROVE OnPath(i, t)' = owed'[i][t]
  <2>1. /\ Told(i, t, i_rsps[i]) = << >> /\ Told(i, t, t_rsps[t]) = << >>
        /\ Unsent(i, t) = << >> /\ Asked(i, t, i_reqs[i]) = << >> /\ mc_state = "READY"
    BY QuietFacts
  <2>2. /\ Asked(i, t, << >>) = << >> /\ Told(i, t, << >>) = << >>
    <3>1. << >> \in Seq(Reqs) /\ << >> \in Seq(Rsps)
      BY EmptySeq
    <3> QED
      BY <3>1, AskedFacts, ToldFacts
  <2>3. Asked(i, t, t_reqs[t]) = << >>
    BY <2>1 DEF Unsent
  <2>4. Unsent(i, t)' = Asked(i, t, t_reqs'[t])
    BY DEF Unsent
  <2>5. Unsent(i, t)' = << >>
    BY <2>2, <2>3, <2>4
  <2>6. Told(i, t, i_rsps'[i]) = << >> /\ Told(i, t, t_rsps'[t]) = << >>
    BY <2>1, <2>2
  <2>7. Asked(i, t, i_reqs'[i]) = << >>
    BY <2>1, <2>2
  <2>8. OnPath(i, t)' = Path(<< >>, << >>, << >>, << >>)
    BY <2>5, <2>6, <2>7 DEF OnPath, Path, Cat
  <2>9. OnPath(i, t)' = << >>
    <3>1. << >> \in Seq(Addr)
      BY EmptySeq
    <3> QED
      BY <2>8, <3>1, PathNothing
  <2> QED
    BY <2>9 DEF Quiet
<1> QED
  BY <1>1, <1>2 DEF InOrder

-----------------------------------------------------------------------------
(* The steps of the memory controller.                                     *)
LEMMA ControllerKept ==
  ASSUME ControllerInv, UNCHANGED <<controllerVars, rawVars>>,
         t_reqs[0] # << >> => t_reqs'[0] # << >> /\ Head(t_reqs'[0]) = Head(t_reqs[0])
  PROVE  ControllerInv'
<1>1. UNCHANGED <<mc_state, rg_cached_addr, rg_cached_burst, rg_cached_clean, rg_rsp,
                  f_raw_mem_reqs, f_raw_mem_rsps, rf>>
  BY DEF controllerVars, rawVars
<1>2. CASE t_reqs[0] = << >>
  <2>1. mc_state = "READY" /\ f_raw_mem_reqs = << >> /\ f_raw_mem_rsps = << >>
    BY <1>2 DEF ControllerInv, RawTypes, ReadyInv, ReloadInv, SendInv
  <2> QED
    BY <1>1, <2>1 DEF ControllerInv, RawTypes, ReadyInv
<1>3. CASE t_reqs[0] # << >>
  <2>1. t_reqs'[0] # << >> /\ Request' = Request
    BY <1>3 DEF Request
  <2>2. Cached' = Cached /\ off' = off /\ Refused' = Refused
    BY <1>1, <2>1 DEF Cached, line, off, Refused
  <2>3. RawTypes'
    BY <1>1 DEF ControllerInv, RawTypes
  <2>4. mc_state = "READY" => ReadyInv'
    BY <1>1, <2>1, <2>2 DEF ControllerInv, ReadyInv
  <2>5. mc_state = "RELOAD" => ReloadInv'
    BY <1>1, <2>1, <2>2 DEF ControllerInv, ReloadInv
  <2>6. mc_state = "SEND" => SendInv'
    BY <1>1, <2>1, <2>2 DEF ControllerInv, SendInv
  <2> QED
    BY <1>1, <2>3, <2>4, <2>5, <2>6 DEF ControllerInv
<1> QED
  BY <1>2, <1>3

LEMMA AppendShort ==
  ASSUME NEW x, NEW y
  PROVE  Append(<< >>, x) = <<x>> /\ Append(<<x>>, y) = <<x, y>>
<1> DEFINE S == {x, y}
           e == << >>
           p == <<x>>
           q == <<x, y>>
<1>1. /\ e \in Seq(S) /\ Len(e) = 0 /\ p \in Seq(S) /\ Len(p) = 1 /\ p[1] = x
      /\ q \in Seq(S) /\ Len(q) = 2 /\ q[1] = x /\ q[2] = y
  OBVIOUS
<1>2. x \in S /\ y \in S
  OBVIOUS
<1> HIDE DEF S, e, p, q
<1>3. Append(e, x) \in Seq(S) /\ Len(Append(e, x)) = 1 /\ Append(e, x)[1] = x
  BY <1>1, <1>2
<1>4. Append(e, x) = p
  <2>1. \A k \in 1 .. 1 : Append(e, x)[k] = p[k]
    BY <1>1, <1>3
  <2> QED
    BY <1>1, <1>3, <2>1, SeqEqual
<1>5. /\ Append(p, y) \in Seq(S) /\ Len(Append(p, y)) = 2
      /\ Append(p, y)[1] = x /\ Append(p, y)[2] = y
  <2>1. /\ Append(p, y) \in Seq(S) /\ Len(Append(p, y)) = Len(p) + 1
        /\ \A k \in 1 .. Len(p) : Append(p, y)[k] = p[k]
        /\ Append(p, y)[Len(p) + 1] = y
    <3>1. p \in Seq(S) /\ y \in S
      BY <1>1, <1>2
    <3> QED
      BY <3>1, AppendProperties
  <2> QED
    BY <1>1, <2>1
<1>6. Append(p, y) = q
  <2>1. \A k \in 1 .. 2 : Append(p, y)[k] = q[k]
    <3>1. \A k \in 1 .. 2 : k = 1 \/ k = 2
      OBVIOUS
    <3> QED
      BY <1>1, <1>5, <3>1
  <2> QED
    BY <1>1, <1>5, <2>1, SeqEqual
<1> QED
  BY <1>4, <1>6 DEF e, p, q

LEMMA ControllerAfterWriteBack ==
  ASSUME ControllerInv, rl_writeback_dirty
  PROVE  ControllerInv'
<1>1. /\ mc_state = "READY" /\ t_reqs[0] # << >> /\ ~Cached /\ ~rg_cached_clean
      /\ f_raw_mem_reqs' = Append(f_raw_mem_reqs, WriteOf(rg_cached_addr, rg_cached_burst))
      /\ rg_cached_clean' = TRUE
      /\ UNCHANGED <<mc_state, rg_cached_addr, rg_cached_burst, rg_rsp, f_raw_mem_rsps, rf, t_reqs>>
  BY DEF rl_writeback_dirty, Waiting, WriteOf, fabricVars
<1>2. f_raw_mem_reqs = << >> /\ f_raw_mem_rsps = << >>
  BY <1>1 DEF ControllerInv, ReadyInv
<1>3. f_raw_mem_reqs' = <<WriteOf(rg_cached_addr, rg_cached_burst)>>
  BY <1>1, <1>2
<1>4. ReadyInv'
  BY <1>1, <1>2, <1>3 DEF ReadyInv, Cached, line, Request
<1>5. RawTypes'
  BY <1>1 DEF ControllerInv, RawTypes
<1> QED
  BY <1>1, <1>3, <1>4, <1>5 DEF ControllerInv

LEMMA ControllerAfterMiss ==
  ASSUME BufferInv, ControllerInv, rl_miss_clean_req
  PROVE  ControllerInv'
<1>1. /\ mc_state = "READY" /\ t_reqs[0] # << >> /\ ~Cached /\ rg_cached_clean
      /\ f_raw_mem_reqs' = Append(f_raw_mem_reqs, ReadOf(line))
      /\ rg_cached_addr' = line /\ mc_state' = "RELOAD"
      /\ UNCHANGED <<rg_cached_burst, rg_cached_clean, rg_rsp, f_raw_mem_rsps, rf, t_reqs>>
  BY DEF rl_miss_clean_req, Waiting, MayReplace, ReadOf, fabricVars
<1>2. /\ f_raw_mem_rsps = << >>
      /\ f_raw_mem_reqs = << >> \/ f_raw_mem_reqs = <<WriteOf(rg_cached_addr, rg_cached_burst)>>
  BY <1>1 DEF ControllerInv, ReadyInv
<1>3. line \in MemLines /\ rg_cached_addr \in MemLines /\ rg_cached_burst \in LineWords
  BY <1>1, RequestFacts DEF ControllerInv, RawTypes
<1>4. \/ f_raw_mem_reqs' = <<ReadOf(line)>>
      \/ f_raw_mem_reqs' = <<WriteOf(rg_cached_addr, rg_cached_burst), ReadOf(line)>>
  BY <1>1, <1>2, AppendShort
<1>5. line' = line
  BY <1>1 DEF line, Request
<1>6. ReloadInv'
  BY <1>1, <1>2, <1>3, <1>4, <1>5 DEF ReloadInv, Cached
<1>7. RawTypes'
  BY <1>1, <1>3 DEF ControllerInv, RawTypes
<1> QED
  BY <1>1, <1>6, <1>7 DEF ControllerInv

LEMMA ControllerAfterReload ==
  ASSUME ControllerInv, rl_reload
  PROVE  ControllerInv'
<1>1. /\ mc_state = "RELOAD" /\ f_raw_mem_rsps # << >>
      /\ rg_cached_burst' = Head(f_raw_mem_rsps) /\ mc_state' = "READY"
      /\ f_raw_mem_rsps' = Tail(f_raw_mem_rsps)
      /\ UNCHANGED <<rg_cached_addr, rg_cached_clean, rg_rsp, f_raw_mem_reqs, rf, t_reqs>>
  BY DEF rl_reload, fabricVars
<1>2. f_raw_mem_reqs = << >> /\ f_raw_mem_rsps = <<rf[rg_cached_addr]>>
  BY <1>1 DEF ControllerInv, ReloadInv
<1>3. rg_cached_burst' = rf[rg_cached_addr] /\ f_raw_mem_rsps' = << >>
  BY <1>1, <1>2
<1>4. ReadyInv'
  BY <1>1, <1>2, <1>3 DEF ReadyInv
<1>5. RawTypes'
  BY <1>1, <1>3 DEF ControllerInv, RawTypes
<1> QED
  BY <1>1, <1>3, <1>4, <1>5 DEF ControllerInv

LEMMA ControllerAfterServe ==
  ASSUME BufferInv, ControllerInv, rl_process_req
  PROVE  ControllerInv'
<1>1. /\ mc_state = "READY" /\ t_reqs[0] # << >> /\ Cached /\ mc_state' = "SEND"
      /\ rg_rsp' = [err |-> Refused, words |-> Words]
      /\ UNCHANGED <<rg_cached_addr, f_raw_mem_reqs, f_raw_mem_rsps, rf, t_reqs>>
      /\ IF Request.op = "ST" /\ ~Refused
         THEN /\ rg_cached_burst' = [rg_cached_burst EXCEPT
                                       ![off] = Merged(@, Request.lanes, Request.word)]
              /\ rg_cached_clean' = FALSE
         ELSE UNCHANGED <<rg_cached_burst, rg_cached_clean>>
  BY DEF rl_process_req, Waiting, rawVars, fabricVars
<1>2. f_raw_mem_reqs = << >> /\ f_raw_mem_rsps = << >>
  BY <1>1 DEF ControllerInv, ReadyInv
<1>3. /\ Request' = Request /\ Refused' = Refused /\ off' = off /\ Cached'
  BY <1>1 DEF Request, Refused, off, Cached, line
<1>4. /\ Words \in Seq(Data) /\ Len(Words) = Len(Beats(Request)) /\ Words # << >>
      /\ ~Refused /\ Request.op = "LD" =>
           \A k \in 1 .. Len(Words) :
              Words[k] = rg_cached_burst[IF Request.burst
                            THEN Cardinality(Off) - Len(Words) + k - 1 ELSE off]
  BY <1>1, WordsFacts DEF ControllerInv
<1>5. Request \in Reqs /\ off \in Off /\ Refused \in BOOLEAN /\ Len(Beats(Request)) \in Nat
  BY <1>1, RequestFacts, BeatsFacts
<1>6. rg_cached_burst' \in LineWords /\ rg_cached_clean' \in BOOLEAN
  <2>1. rg_cached_burst \in LineWords /\ rg_cached_clean \in BOOLEAN
    BY DEF ControllerInv, RawTypes
  <2>2. CASE Request.op = "ST" /\ ~Refused
    <3>1. Request.word \in [Lane -> Byte]
      BY <1>5, <2>2 DEF Reqs
    <3>2. rg_cached_burst[off] \in ByteWord
      BY <1>5, <2>1 DEF LineWords
    <3>3. Merged(rg_cached_burst[off], Request.lanes, Request.word) \in ByteWord
      BY <3>1, <3>2 DEF Merged, ByteWord
    <3> QED
      BY <1>1, <1>5, <2>1, <2>2, <3>3 DEF LineWords
  <2>3. CASE ~(Request.op = "ST" /\ ~Refused)
    BY <1>1, <2>1, <2>3
  <2> QED
    BY <2>2, <2>3
<1>7. RawTypes'
  BY <1>1, <1>6 DEF ControllerInv, RawTypes
<1>8. SendInv'
  <2>1. rg_rsp'.err = Refused /\ rg_rsp'.words = Words
    BY <1>1
  <2>2. Request.op = "LD" => rg_cached_burst' = rg_cached_burst
    BY <1>1
  <2>3. Len(rg_rsp'.words) <= Len(Beats(Request))
    BY <1>4, <1>5, <2>1
  <2> QED
    BY <1>1, <1>2, <1>3, <1>4, <2>1, <2>2, <2>3 DEF SendInv
<1>9. rg_rsp' \in [err : BOOLEAN, words : Seq(Data)]
  BY <1>1, <1>4, <1>5
<1>10. rg_cached_clean' => rf'[rg_cached_addr'] = rg_cached_burst'
  BY <1>1, <1>2 DEF ControllerInv
<1> QED
  BY <1>1, <1>7, <1>8, <1>9, <1>10 DEF ControllerInv

LEMMA ControllerAfterSend ==
  ASSUME BufferInv, ControllerInv, rl_send_rsp
  PROVE  ControllerInv'
<1> DEFINE L == Len(rg_rsp.words)
           w == Tail(rg_rsp.words)
           c == Cardinality(Off)
<1>1. /\ mc_state = "SEND"
      /\ t_reqs' = IF LastWord THEN Taken(t_reqs, 0) ELSE t_reqs
      /\ mc_state' = IF LastWord THEN "READY" ELSE mc_state
      /\ rg_rsp' = IF LastWord THEN NoRsp ELSE [rg_rsp EXCEPT !.words = Tail(@)]
      /\ UNCHANGED <<rg_cached_addr, rg_cached_burst, rg_cached_clean,
                     f_raw_mem_reqs, f_raw_mem_rsps, rf>>
  BY DEF rl_send_rsp, rawVars
<1>2. SendInv /\ rg_rsp \in [err : BOOLEAN, words : Seq(Data)]
  BY <1>1 DEF ControllerInv
<1>3. RawTypes'
  BY <1>1 DEF ControllerInv, RawTypes
<1>4. rg_cached_clean' => rf'[rg_cached_addr'] = rg_cached_burst'
  BY <1>1, <1>2 DEF ControllerInv, SendInv
<1>5. CASE LastWord
  <2>1. mc_state' = "READY" /\ rg_rsp' = [err |-> FALSE, words |-> << >>]
    BY <1>1, <1>5 DEF NoRsp
  <2>2. ReadyInv'
    BY <1>1, <1>2 DEF ReadyInv, SendInv
  <2>3. rg_rsp' \in [err : BOOLEAN, words : Seq(Data)] /\ rg_rsp'.words = << >>
    BY <2>1, EmptySeq
  <2> QED
    BY <1>3, <1>4, <2>1, <2>2, <2>3 DEF ControllerInv
<1>6. CASE ~LastWord
  <2>1. /\ mc_state' = "SEND" /\ t_reqs' = t_reqs /\ rg_rsp'.words = w /\ rg_rsp'.err = rg_rsp.err
        /\ rg_rsp' \in [err : BOOLEAN, words : Seq(Data)]
    <3>1. w \in Seq(Data)
      BY <1>2, TailFacts DEF SendInv
    <3> QED
      BY <1>1, <1>2, <1>6, <3>1
  <2>2. /\ L \in 1 .. Len(Beats(Request)) /\ Len(Beats(Request)) \in Nat /\ L # 1
        /\ rg_rsp.words \in Seq(Data) /\ rg_rsp.words # << >>
    BY <1>1, <1>6, SendFacts DEF LastWord
  <2>3. w \in Seq(Data) /\ Len(w) = L - 1 /\ \A k \in 1 .. L - 1 : w[k] = rg_rsp.words[k + 1]
    BY <2>2, TailFacts
  <2>4. c \in Nat
    BY OffFacts
  <2>5. Request' = Request /\ Refused' = Refused /\ off' = off /\ Cached' = Cached
    BY <1>1, <2>1 DEF Request, Refused, off, Cached, line
  <2> HIDE DEF L, w, c
  <2>6. L \in Nat /\ L - 1 # 0 /\ L - 1 <= Len(Beats(Request))
    BY <2>2
  <2>7. w # << >>
    BY <2>3, <2>6, EmptySeq
  <2>8. ASSUME ~Refused, Request.op = "LD", NEW k \in 1 .. Len(w)
        PROVE  w[k] = rg_cached_burst[IF Request.burst THEN c - Len(w) + k - 1 ELSE off]
    <3>1. k \in 1 .. L - 1 /\ k + 1 \in 1 .. L /\ c - L + (k + 1) - 1 = c - (L - 1) + k - 1
      BY <2>3, <2>4, <2>6, <2>8
    <3>2. w[k] = rg_rsp.words[k + 1]
      BY <2>3, <3>1
    <3>3. rg_rsp.words[k + 1] = rg_cached_burst[IF Request.burst THEN c - L + (k + 1) - 1 ELSE off]
      BY <1>2, <2>8, <3>1 DEF SendInv, L, c
    <3> QED
      BY <2>3, <3>1, <3>2, <3>3
  <2>9. SendInv'
    <3>1. t_reqs'[0] # << >> /\ Cached' /\ f_raw_mem_reqs' = << >> /\ f_raw_mem_rsps' = << >>
      BY <1>1, <1>2, <2>1, <2>5 DEF SendInv
    <3>2. rg_rsp'.err = Refused'
      BY <1>2, <2>1, <2>5 DEF SendInv
    <3>3. rg_rsp'.words # << >> /\ Len(rg_rsp'.words) <= Len(Beats(Request'))
      BY <2>1, <2>3, <2>5, <2>6, <2>7
    <3>4. ~Refused' /\ Request'.op = "LD" =>
            \A k \in 1 .. Len(rg_rsp'.words) :
              rg_rsp'.words[k] = rg_cached_burst'[IF Request'.burst
                                    THEN Cardinality(Off) - Len(rg_rsp'.words) + k - 1 ELSE off']
      BY <1>1, <2>1, <2>5, <2>8 DEF c
    <3> QED
      BY <3>1, <3>2, <3>3, <3>4 DEF SendInv
  <2> QED
    BY <1>3, <1>4, <2>1, <2>9 DEF ControllerInv
<1> QED
  BY <1>5, <1>6

LEMMA ControllerAfterRaw ==
  ASSUME ControllerInv, rl_process_reqs
  PROVE  ControllerInv'
<1> DEFINE r == Head(f_raw_mem_reqs)
           c == rg_cached_addr
<1>1. /\ f_raw_mem_reqs # << >> /\ f_raw_mem_reqs' = Tail(f_raw_mem_reqs)
      /\ IF r.write THEN rf' = [rf EXCEPT ![r.line] = r.words] /\ UNCHANGED f_raw_mem_rsps
         ELSE /\ f_raw_mem_rsps' = Append(f_raw_mem_rsps, rf[r.line])
              /\ UNCHANGED rf
      /\ UNCHANGED <<mc_state, rg_cached_addr, rg_cached_burst, rg_cached_clean, rg_rsp, t_reqs>>
  BY DEF rl_process_reqs, controllerVars, fabricVars
<1>2. Cached' = Cached
  BY <1>1 DEF Cached, line, Request
<1>3. mc_state # "SEND"
  BY <1>1 DEF ControllerInv, SendInv
<1>4. RawTypes
  BY DEF ControllerInv
<1>5. CASE mc_state = "READY"
  <2>1. /\ f_raw_mem_reqs = <<WriteOf(c, rg_cached_burst)>> /\ f_raw_mem_rsps = << >>
    BY <1>1, <1>5 DEF ControllerInv, ReadyInv
  <2>2. r = WriteOf(c, rg_cached_burst) /\ f_raw_mem_reqs' = << >>
    BY <1>1, <2>1
  <2>3. rf' = [rf EXCEPT ![c] = rg_cached_burst] /\ f_raw_mem_rsps' = << >>
    BY <1>1, <2>1, <2>2 DEF WriteOf
  <2>4. rf'[c] = rg_cached_burst /\ rf' \in [MemLines -> LineWords]
    BY <1>4, <2>3 DEF RawTypes
  <2>5. RawTypes' /\ ReadyInv'
    BY <1>1, <1>4, <2>2, <2>3, <2>4 DEF RawTypes, ReadyInv
  <2> QED
    BY <1>1, <1>5, <2>4, <2>5 DEF ControllerInv
<1>6. CASE mc_state = "RELOAD"
  <2>1. t_reqs[0] # << >> /\ Cached /\ rg_cached_clean /\ f_raw_mem_rsps = << >>
    BY <1>1, <1>6 DEF ControllerInv, ReloadInv
  <2>2. RawTypes' /\ ReloadInv'
    <3>1. CASE f_raw_mem_reqs = <<ReadOf(c)>>
      <4>1. r = ReadOf(c) /\ f_raw_mem_reqs' = << >>
        BY <1>1, <3>1
      <4>2. f_raw_mem_rsps' = <<rf[c]>> /\ rf' = rf
        BY <1>1, <2>1, <4>1 DEF ReadOf
      <4> QED
        BY <1>1, <1>2, <1>4, <2>1, <4>1, <4>2 DEF RawTypes, ReloadInv
    <3>2. ASSUME NEW l \in MemLines, NEW w \in LineWords, f_raw_mem_reqs = <<WriteOf(l, w), ReadOf(c)>>
          PROVE  RawTypes' /\ ReloadInv'
      <4>1. r = WriteOf(l, w) /\ f_raw_mem_reqs' = <<ReadOf(c)>>
        BY <1>1, <3>2
      <4>2. f_raw_mem_rsps' = << >> /\ rf' = [rf EXCEPT ![l] = w]
        BY <1>1, <2>1, <4>1 DEF WriteOf
      <4>3. rf' \in [MemLines -> LineWords]
        BY <1>4, <4>2 DEF RawTypes
      <4> QED
        BY <1>1, <1>2, <1>4, <2>1, <4>1, <4>2, <4>3 DEF RawTypes, ReloadInv
    <3> QED
      BY <1>1, <1>6, <3>1, <3>2 DEF ControllerInv, ReloadInv
  <2> QED
    BY <1>1, <1>6, <2>2 DEF ControllerInv
<1> QED
  BY <1>3, <1>4, <1>5, <1>6 DEF RawTypes

LEMMA ControllerAfterReset ==
  ASSUME ControllerInv, rl_reset
  PROVE  ControllerInv'
<1>1. /\ mc_state' = "READY" /\ rg_cached_addr' = 0 /\ rg_cached_clean' = FALSE
      /\ f_raw_mem_reqs' = << >> /\ f_raw_mem_rsps' = << >>
      /\ rg_rsp' = [err |-> FALSE, words |-> << >>] /\ UNCHANGED <<rg_cached_burst, rf>>
  BY DEF rl_reset, NoRsp
<1>2. RawTypes'
  BY <1>1, AddrFacts DEF ControllerInv, RawTypes
<1>3. rg_rsp' \in [err : BOOLEAN, words : Seq(Data)] /\ rg_rsp'.words = << >>
  BY <1>1, EmptySeq
<1> QED
  BY <1>1, <1>2, <1>3 DEF ControllerInv, ReadyInv

-----------------------------------------------------------------------------
(* The order on all paths is an invariant.                                 *)
LEMMA NewRequest ==
  ASSUME NEW i \in {0, 2}, NEW r \in DOMAIN ClientRequests, NEW q, q = [r EXCEPT !.initiator = i]
  PROVE  q \in ReqsFrom[i]
<1>1. /\ r \in [initiator : {0}, op : {"LD", "ST"}, burst : BOOLEAN, addr : Addr,
                lanes : SUBSET Lane, word : [Lane -> Byte] \cup {<< >>}]
      /\ r.op = "ST" => ~r.burst /\ r.word # << >> /\ r.addr \notin Fetches
  BY MemoryAssumption
<1>2. i \in Initiators /\ i # 1
  BY TargetType
<1>3. /\ q \in [initiator : Initiators, op : {"LD", "ST"}, burst : BOOLEAN, addr : Addr,
                lanes : SUBSET Lane, word : [Lane -> Byte] \cup {<< >>}]
      /\ q.initiator = i /\ q.op = r.op /\ q.burst = r.burst /\ q.addr = r.addr /\ q.word = r.word
  BY <1>1, <1>2
<1>4. q \in Reqs
  BY <1>1, <1>2, <1>3 DEF Reqs
<1> QED
  BY <1>2, <1>3, <1>4, Doms

LEMMA NewBurst ==
  ASSUME rg_addr \in Addr
  PROVE  Burst \in ReqsFrom[1] /\ 1 \in Initiators /\ Burst.addr = <<rg_addr[1], 0>>
<1>1. <<rg_addr[1], 0>> \in Addr /\ 1 \in Initiators
  BY AddrFacts, OffFacts, TargetType
<1>2. Burst \in Reqs /\ Burst.initiator = 1
  BY <1>1 DEF Burst, Reqs
<1> QED
  BY <1>1, <1>2, Doms DEF Burst

LEMMA OrderInit == Init => OrderInv
<1> SUFFICES ASSUME Init PROVE OrderInv
  OBVIOUS
<1>1. /\ i_reqs = [i \in Initiators |-> << >>] /\ i_rsps = [i \in Initiators |-> << >>]
      /\ t_reqs = [t \in Targets |-> << >>] /\ t_rsps = [t \in Targets |-> << >>]
      /\ owed = [i \in Initiators |-> [t \in Targets |-> << >>]]
      /\ mc_state = "READY" /\ rg_cached_addr = 0 /\ rg_cached_clean = FALSE
      /\ rg_cached_burst = [w \in Off |-> [k \in Lane |-> Unset]]
      /\ rg_rsp = [err |-> FALSE, words |-> << >>]
      /\ f_raw_mem_reqs = << >> /\ f_raw_mem_rsps = << >> /\ rf = Contents
      /\ resetting = [on |-> FALSE, waiting |-> {}] /\ rg_addr = <<0, 0>>
  BY DEF Init, FabricInit, ControllerInit, ICacheInit, NoRsp
<1>2. BufferInv
  <2>1. Holds(i_reqs, ReqsFrom) /\ Holds(t_reqs, ReqsTo) /\ Holds(t_rsps, RspsFrom) /\ Holds(i_rsps, RspsTo)
    BY <1>1, Doms, ClearFacts
  <2>2. owed \in [Initiators -> [Targets -> Seq(Addr)]]
    BY <1>1, EmptySeq
  <2> QED
    BY <2>1, <2>2 DEF BufferInv
<1>3. ControllerInv
  <2>1. rf \in [MemLines -> LineWords]
    BY <1>1, MemControllerAssumption DEF LineWords, ByteWord
  <2>2. rg_cached_burst \in LineWords
    BY <1>1 DEF LineWords, ByteWord
  <2>3. RawTypes
    BY <1>1, <2>1, <2>2, AddrFacts DEF RawTypes
  <2>4. rg_rsp \in [err : BOOLEAN, words : Seq(Data)] /\ rg_rsp.words = << >>
    BY <1>1, EmptySeq
  <2> QED
    BY <1>1, <2>3, <2>4 DEF ControllerInv, ReadyInv
<1>4. ResetInv
  BY <1>1 DEF ResetInv
<1>5. rg_addr \in Addr
  BY <1>1, AddrFacts, OffFacts
<1>6. ASSUME NEW i \in Initiators, NEW t \in Targets PROVE OnPath(i, t) = owed[i][t]
  <2>1. /\ Asked(i, t, << >>) = << >> /\ Told(i, t, << >>) = << >> /\ << >> \in Seq(Addr)
    <3>1. << >> \in Seq(Reqs) /\ << >> \in Seq(Rsps) /\ << >> \in Seq(Addr)
      BY EmptySeq
    <3> QED
      BY <3>1, AskedFacts, ToldFacts
  <2>2. Unsent(i, t) = << >>
    BY <1>1, <2>1 DEF Unsent
  <2>3. OnPath(i, t) = Path(<< >>, << >>, << >>, << >>)
    BY <1>1, <2>1, <2>2, OnPathIs
  <2> QED
    BY <1>1, <2>1, <2>3, PathNothing
<1> QED
  BY <1>2, <1>3, <1>4, <1>5, <1>6 DEF OrderInv, InOrder

LEMMA OrderAfterClient ==
  ASSUME OrderInv, NEW i \in {0, 2}, Client(i)
  PROVE  OrderInv'
<1> PICK r \in DOMAIN ClientRequests :
         /\ ~resetting.on
         /\ i_reqs' = Put(i_reqs, i, [r EXCEPT !.initiator = i])
         /\ owed' = Owes(i, [r EXCEPT !.initiator = i])
         /\ UNCHANGED <<resetting, t_reqs, t_rsps, i_rsps, icacheVars, controllerVars, rawVars>>
  BY DEF Client
<1> SUFFICES ASSUME NEW q, q = [r EXCEPT !.initiator = i] PROVE OrderInv'
  OBVIOUS
<1>1. q \in ReqsFrom[i] /\ i \in Initiators
  BY NewRequest, TargetType
<1>2. /\ i_reqs' = Put(i_reqs, i, q) /\ owed' = Owes(i, q)
      /\ UNCHANGED <<t_reqs, t_rsps, i_rsps, mc_state, rg_rsp, resetting, rg_addr>>
  BY DEF icacheVars, controllerVars
<1>3. BufferInv /\ ControllerInv /\ InOrder /\ ResetInv /\ rg_addr \in Addr
  BY DEF OrderInv
<1>4. BufferInv' /\ InOrder'
  BY <1>1, <1>2, <1>3, OrderAfterRequest
<1>5. ControllerInv'
  BY <1>2, <1>3, ControllerKept
<1>6. ResetInv'
  BY <1>2, <1>3 DEF ResetInv
<1> QED
  BY <1>2, <1>3, <1>4, <1>5, <1>6 DEF OrderInv

LEMMA OrderAfterArrives ==
  ASSUME OrderInv, NEW i \in Initiators, i_rsps[i] # << >>, i_rsps' = Taken(i_rsps, i),
         owed' = Gets(i),
         UNCHANGED <<resetting, i_reqs, t_reqs, t_rsps, controllerVars, rawVars, rg_addr>>
  PROVE  OrderInv' /\ ~resetting.on
<1>1. BufferInv /\ ControllerInv /\ InOrder /\ ResetInv /\ rg_addr \in Addr
  BY DEF OrderInv
<1>2. UNCHANGED <<mc_state, rg_rsp>>
  BY DEF controllerVars
<1> SUFFICES ASSUME NEW y, y = Head(i_rsps[i]), NEW u, u = target_id(y.at)
             PROVE  OrderInv' /\ ~resetting.on
  OBVIOUS
<1>3. BufferInv' /\ InOrder' /\ owed[i][u] # << >>
  BY <1>1, <1>2, OrderAfterArrival
<1>4. u \in Targets
  BY TargetType
<1>5. ~resetting.on
  BY <1>1, <1>3, <1>4 DEF ResetInv, Quiet
<1>6. ResetInv'
  BY <1>1, <1>5 DEF ResetInv
<1>7. ControllerInv'
  BY <1>1, ControllerKept
<1> QED
  BY <1>1, <1>3, <1>5, <1>6, <1>7 DEF OrderInv

LEMMA OrderAfterFetch ==
  ASSUME OrderInv, Fetch
  PROVE  OrderInv'
<1>1. /\ ~resetting.on /\ UNCHANGED <<resetting, owed, controllerVars, rawVars, fabricVars>>
      /\ \E a \in Fetches : rg_addr' = a
  BY DEF Fetch, req
<1>2. BufferInv /\ ControllerInv /\ InOrder /\ ResetInv
  BY DEF OrderInv
<1>3. UNCHANGED <<i_reqs, t_reqs, t_rsps, i_rsps, mc_state, rg_rsp>>
  BY <1>1 DEF fabricVars, controllerVars
<1>4. rg_addr' \in Addr
  BY <1>1, MemoryAssumption
<1>5. ControllerInv'
  BY <1>1, <1>2, <1>3, ControllerKept
<1>6. BufferInv' /\ ResetInv'
  BY <1>1, <1>2, <1>3 DEF BufferInv, ResetInv
<1>7. InOrder'
  BY <1>1, <1>2, <1>3, OrderKept
<1> QED
  BY <1>4, <1>5, <1>6, <1>7 DEF OrderInv

LEMMA OrderAfterCache ==
  ASSUME OrderInv, Cache
  PROVE  OrderInv' /\ ~resetting.on
<1>1. BufferInv /\ ControllerInv /\ InOrder /\ ResetInv /\ rg_addr \in Addr
  BY DEF OrderInv
<1>2. UNCHANGED resetting
  BY DEF Cache
<1>3. CASE rl_process_RAM_outs /\ owed' = Owes(1, Burst)
  <2>1. /\ rg_state = "PROCESS" /\ i_reqs' = Put(i_reqs, 1, Burst)
        /\ UNCHANGED <<rg_addr, t_reqs, t_rsps, i_rsps, controllerVars, rawVars>>
    BY <1>3 DEF rl_process_RAM_outs
  <2>2. ~resetting.on
    BY <1>1, <2>1 DEF ResetInv
  <2>3. UNCHANGED <<mc_state, rg_rsp>>
    BY <2>1 DEF controllerVars
  <2>4. BufferInv' /\ InOrder'
    <3> SUFFICES ASSUME NEW q, q = Burst PROVE BufferInv' /\ InOrder'
      OBVIOUS
    <3>1. q \in ReqsFrom[1] /\ 1 \in Initiators /\ i_reqs' = Put(i_reqs, 1, q) /\ owed' = Owes(1, q)
      BY <1>1, <1>3, <2>1, NewBurst
    <3> QED
      BY <1>1, <2>1, <2>3, <3>1, OrderAfterRequest
  <2>5. ControllerInv'
    BY <1>1, <2>1, ControllerKept
  <2>6. ResetInv'
    BY <1>1, <1>2, <2>2 DEF ResetInv
  <2> QED
    BY <1>1, <2>1, <2>2, <2>4, <2>5, <2>6 DEF OrderInv
<1>4. CASE rl_refill_loop /\ owed' = Gets(1)
  <2>1. /\ i_rsps[1] # << >> /\ i_rsps' = Taken(i_rsps, 1)
        /\ UNCHANGED <<rg_addr, i_reqs, t_reqs, t_rsps, controllerVars, rawVars>>
    BY <1>4 DEF rl_refill_loop
  <2>2. 1 \in Initiators
    BY TargetType
  <2> QED
    BY <1>2, <1>4, <2>1, <2>2, OrderAfterArrives
<1>5. CASE (rl_start_refill \/ rl_rereq) /\ UNCHANGED owed
  <2>1. /\ rg_state \in {"START_REFILL", "REREQ"}
        /\ UNCHANGED <<rg_addr, fabricVars, controllerVars, rawVars>>
    BY <1>5 DEF rl_start_refill, rl_rereq
  <2>2. ~resetting.on
    BY <1>1, <2>1 DEF ResetInv
  <2>3. UNCHANGED <<i_reqs, t_reqs, t_rsps, i_rsps, mc_state, rg_rsp>>
    BY <2>1 DEF fabricVars, controllerVars
  <2>4. ControllerInv'
    BY <1>1, <2>1, <2>3, ControllerKept
  <2>5. BufferInv' /\ ResetInv'
    BY <1>1, <1>2, <1>5, <2>2, <2>3 DEF BufferInv, ResetInv
  <2>6. InOrder'
    BY <1>1, <1>5, <2>3, OrderKept
  <2> QED
    BY <1>1, <2>1, <2>2, <2>4, <2>5, <2>6 DEF OrderInv
<1> QED
  BY <1>3, <1>4, <1>5 DEF Cache

LEMMA PutKeepsHead ==
  ASSUME BufferInv, NEW u \in Targets, NEW r \in ReqsTo[u], t_reqs' = Put(t_reqs, u, r)
  PROVE  t_reqs[0] # << >> => t_reqs'[0] # << >> /\ Head(t_reqs'[0]) = Head(t_reqs[0])
<1>1. /\ t_reqs'[u] = Append(t_reqs[u], r) /\ 0 \in Targets
      /\ \A d \in Targets : d # u => t_reqs'[d] = t_reqs[d]
  <2>1. Holds(t_reqs, ReqsTo) /\ u \in DOMAIN ReqsTo /\ DOMAIN ReqsTo = Targets
    BY Doms DEF BufferInv
  <2>2. /\ Put(t_reqs, u, r)[u] = Append(t_reqs[u], r)
        /\ \A d \in DOMAIN ReqsTo : d # u => Put(t_reqs, u, r)[d] = t_reqs[d]
    BY <2>1, PutFacts
  <2> QED
    BY <2>1, <2>2, TargetType
<1>2. t_reqs[0] \in Seq(Reqs) /\ r \in Reqs
  BY <1>1, BufferTypes, Doms
<1>3. CASE u = 0
  <2>1. t_reqs'[0] = Append(t_reqs[0], r)
    BY <1>1, <1>3
  <2> QED
    BY <1>2, <2>1, AppendHead
<1> QED
  BY <1>1, <1>3

(* What the UART and the fabric itself answer: a burst with an error.      *)
Answer(r, e) == Response(r, e, r.addr, r.addr)
RefusesBurst(r, e) == r.burst => e = TRUE

LEMMA OrderAfterDevice ==
  ASSUME BufferInv, ControllerInv, InOrder, NEW u \in {2, 3}, NEW e,
         t_reqs[u] # << >>, e \in BOOLEAN, t_reqs' = Taken(t_reqs, u),
         t_rsps' = Put(t_rsps, u, Response(Head(t_reqs[u]), e, Head(t_reqs[u]).addr, Head(t_reqs[u]).addr)),
         UNCHANGED <<i_reqs, i_rsps, owed, controllerVars, rawVars>>
  PROVE  BufferInv' /\ InOrder' /\ ControllerInv'
<1>1. u \in Targets \ {0} /\ 0 \in Targets
  BY TargetType
<1>2. Head(t_reqs[u]) \in Reqs
  <2>1. Holds(t_reqs, ReqsTo) /\ u \in DOMAIN ReqsTo
    BY <1>1, Doms DEF BufferInv
  <2>2. Head(t_reqs[u]) \in ReqsTo[u]
    BY <2>1, TakenFacts
  <2> QED
    BY <1>1, <2>2, Doms
<1>4. UNCHANGED <<mc_state, rg_rsp>>
  BY DEF controllerVars
<1>5. BufferInv' /\ InOrder'
  BY <1>1, <1>4, OrderAfterAnswer
<1>6. t_reqs'[0] = t_reqs[0]
  BY <1>1, TakenFacts, Doms DEF BufferInv
<1>7. ControllerInv'
  BY <1>6, ControllerKept
<1> QED
  BY <1>5, <1>7

LEMMA OrderAfterFabrics ==
  ASSUME OrderInv, Fabrics
  PROVE  OrderInv'
<1>1. BufferInv /\ ControllerInv /\ InOrder /\ ResetInv /\ rg_addr \in Addr
  BY DEF OrderInv
<1>2. Routing /\ UNCHANGED <<resetting, owed, icacheVars, controllerVars, rawVars>>
  BY DEF Fabrics
<1>3. UNCHANGED <<mc_state, rg_rsp, rg_addr, rg_state, owed, resetting>>
  BY <1>2 DEF controllerVars, icacheVars
<1>4. ResetInv' /\ rg_addr' \in Addr
  BY <1>1, <1>3 DEF ResetInv, Quiet
<1>5. ASSUME NEW j \in Initiators, rl_initiators_to_targets(j)
      PROVE  BufferInv' /\ InOrder' /\ ControllerInv'
  <2>1. BufferInv' /\ InOrder'
    BY <1>1, <1>3, <1>5, OrderAfterRoute
  <2> SUFFICES ASSUME NEW r, r = Head(i_reqs[j]), NEW u, u = target_id(r.addr) PROVE ControllerInv'
    BY <2>1
  <2>2. i_reqs[j] # << >> /\ t_reqs' = Put(t_reqs, u, r)
    BY <1>5 DEF rl_initiators_to_targets, CanRoute
  <2>3. r \in ReqsTo[u] /\ u \in Targets
    <3>1. r \in ReqsFrom[j]
      BY <1>1, <2>2, TakenFacts, Doms DEF BufferInv
    <3>2. u \in Targets /\ r \in Reqs
      BY <3>1, Doms, TargetType
    <3> QED
      BY <3>2, Doms
  <2> QED
    BY <1>1, <1>2, <2>2, <2>3, PutKeepsHead, ControllerKept
<1>6. ASSUME NEW u \in Targets, rl_targets_to_initiators(u)
      PROVE  BufferInv' /\ InOrder' /\ ControllerInv'
  <2>1. BufferInv' /\ InOrder'
    BY <1>1, <1>3, <1>6, OrderAfterReturn
  <2>2. UNCHANGED t_reqs
    BY <1>6 DEF rl_targets_to_initiators
  <2> QED
    BY <1>1, <1>2, <2>1, <2>2, ControllerKept
<1>8. CASE rl_process_config_reqs
  <2>1. /\ t_reqs[3] # << >> /\ t_reqs' = Taken(t_reqs, 3) /\ UNCHANGED <<i_reqs, i_rsps>>
        /\ t_rsps' = Put(t_rsps, 3, Response(Head(t_reqs[3]), TRUE, Head(t_reqs[3]).addr,
                                             Head(t_reqs[3]).addr))
    BY <1>8 DEF rl_process_config_reqs
  <2> SUFFICES ASSUME NEW e, e = TRUE PROVE OrderInv'
    OBVIOUS
  <2>2. t_rsps' = Put(t_rsps, 3, Response(Head(t_reqs[3]), e, Head(t_reqs[3]).addr,
                                          Head(t_reqs[3]).addr))
    BY <2>1
  <2>3. 3 \in {2, 3} /\ UNCHANGED <<i_reqs, i_rsps, owed, controllerVars, rawVars>>
    BY <1>2, <2>1
  <2>4. BufferInv' /\ InOrder' /\ ControllerInv'
    BY <1>1, <2>1, <2>2, <2>3, OrderAfterDevice
  <2> QED
    BY <1>4, <2>4 DEF OrderInv
<1> QED
  BY <1>2, <1>4, <1>5, <1>6, <1>8 DEF Routing, OrderInv

LEMMA UARTAnswers ==
  ASSUME uart_process_req, NEW e, e = Unknown(Head(t_reqs[2]))
  PROVE  /\ e \in BOOLEAN
         /\ RefusesBurst(Head(t_reqs[2]), e)
         /\ t_rsps' = Put(t_rsps, 2, Answer(Head(t_reqs[2]), e))
<1>1. e \in BOOLEAN
  BY DEF Unknown
<1>2. RefusesBurst(Head(t_reqs[2]), e)
  BY DEF Unknown, RefusesBurst
<1>3. t_rsps' = Put(t_rsps, 2, Answer(Head(t_reqs[2]), e))
  BY DEF uart_process_req, Answer
<1> QED
  BY <1>1, <1>2, <1>3

LEMMA OrderAfterConsole ==
  ASSUME OrderInv, Console
  PROVE  OrderInv'
<1>1. BufferInv /\ ControllerInv /\ InOrder /\ ResetInv /\ rg_addr \in Addr
  BY DEF OrderInv
<1>2. UNCHANGED <<resetting, owed, icacheVars, controllerVars, rawVars>>
  BY DEF Console
<1>3. UNCHANGED <<mc_state, rg_rsp, rg_addr, rg_state>>
  BY <1>2 DEF controllerVars, icacheVars
<1>4. ResetInv' /\ rg_addr' \in Addr
  BY <1>1, <1>2, <1>3 DEF ResetInv, Quiet
<1>5. CASE uart_process_req
  <2>1. t_reqs[2] # << >> /\ t_reqs' = Taken(t_reqs, 2) /\ UNCHANGED <<i_reqs, i_rsps>>
    BY <1>5 DEF uart_process_req
  <2> SUFFICES ASSUME NEW e, e = Unknown(Head(t_reqs[2])) PROVE OrderInv'
    OBVIOUS
  <2>2. e \in BOOLEAN /\ t_rsps' = Put(t_rsps, 2, Answer(Head(t_reqs[2]), e))
    BY <1>5, UARTAnswers
  <2>3. 2 \in {2, 3} /\ UNCHANGED <<i_reqs, i_rsps, owed, controllerVars, rawVars>>
    BY <1>2, <2>1
  <2>4. BufferInv' /\ InOrder' /\ ControllerInv'
    BY <1>1, <2>1, <2>2, <2>3, OrderAfterDevice DEF Answer
  <2> QED
    BY <1>4, <2>4 DEF OrderInv
<1>6. CASE to_console_cnx
  <2>1. UNCHANGED <<i_reqs, t_reqs, t_rsps, i_rsps>>
    BY <1>6 DEF to_console_cnx, fabricVars
  <2>2. BufferInv' /\ InOrder'
    BY <1>1, <1>2, <1>3, <2>1, OrderKept DEF BufferInv
  <2>3. ControllerInv'
    BY <1>1, <1>2, <2>1, ControllerKept
  <2> QED
    BY <1>4, <2>2, <2>3 DEF OrderInv
<1> QED
  BY <1>5, <1>6 DEF Console

LEMMA OrderAfterController ==
  ASSUME OrderInv, Controller
  PROVE  OrderInv'
<1>1. BufferInv /\ ControllerInv /\ InOrder /\ ResetInv /\ rg_addr \in Addr
  BY DEF OrderInv
<1>2. Serving /\ UNCHANGED <<resetting, owed, icacheVars>>
  BY DEF Controller
<1>3. UNCHANGED <<resetting, owed, rg_state, rg_addr>>
  BY <1>2 DEF icacheVars
<1>4. ResetInv' /\ rg_addr' \in Addr
  BY <1>1, <1>3 DEF ResetInv, Quiet
<1>5. CASE rl_process_req
  BY <1>1, <1>3, <1>4, <1>5, OrderAfterServe, ControllerAfterServe DEF OrderInv
<1>6. CASE rl_send_rsp
  BY <1>1, <1>3, <1>4, <1>6, OrderAfterSend, ControllerAfterSend DEF OrderInv
<1>7. ASSUME ControllerInv', mc_state # "SEND", mc_state' # "SEND", UNCHANGED fabricVars
      PROVE  OrderInv'
  <2>1. UNCHANGED <<i_reqs, t_reqs, t_rsps, i_rsps>>
    BY <1>7 DEF fabricVars
  <2>2. BufferInv'
    BY <1>1, <1>3, <2>1 DEF BufferInv
  <2>3. ASSUME NEW i \in Initiators, NEW t \in Targets PROVE OnPath(i, t)' = owed'[i][t]
    <3>1. Unsent(i, t)' = Unsent(i, t)
      BY <1>7, <2>1, UnsentKept
    <3>2. OnPath(i, t)' = OnPath(i, t)
      BY <2>1, <3>1 DEF OnPath
    <3> QED
      BY <1>1, <1>3, <3>2 DEF InOrder
  <2> QED
    BY <1>4, <1>7, <2>2, <2>3 DEF OrderInv, InOrder
<1>8. CASE rl_writeback_dirty
  <2>1. mc_state # "SEND" /\ mc_state' # "SEND" /\ UNCHANGED fabricVars
    BY <1>8 DEF rl_writeback_dirty, Waiting
  <2> QED
    BY <1>1, <1>7, <1>8, <2>1, ControllerAfterWriteBack
<1>9. CASE rl_miss_clean_req
  <2>1. mc_state # "SEND" /\ mc_state' # "SEND" /\ UNCHANGED fabricVars
    BY <1>9 DEF rl_miss_clean_req, Waiting
  <2> QED
    BY <1>1, <1>7, <1>9, <2>1, ControllerAfterMiss
<1>10. CASE rl_reload
  <2>1. mc_state # "SEND" /\ mc_state' # "SEND" /\ UNCHANGED fabricVars
    BY <1>10 DEF rl_reload
  <2> QED
    BY <1>1, <1>7, <1>10, <2>1, ControllerAfterReload
<1>11. CASE rl_process_reqs
  <2>1. f_raw_mem_reqs # << >> /\ UNCHANGED <<mc_state, fabricVars>>
    BY <1>11 DEF rl_process_reqs, controllerVars
  <2>2. mc_state # "SEND"
    BY <1>1, <2>1 DEF ControllerInv, SendInv
  <2> QED
    BY <1>1, <1>7, <1>11, <2>1, <2>2, ControllerAfterRaw
<1> QED
  BY <1>2, <1>5, <1>6, <1>8, <1>9, <1>10, <1>11 DEF Serving

LEMMA OrderAfterResetStart ==
  ASSUME OrderInv, rl_reset_start
  PROVE  OrderInv'
<1>1. BufferInv /\ ControllerInv /\ InOrder /\ ResetInv /\ rg_addr \in Addr
  BY DEF OrderInv
<1>2. /\ Quiet /\ resetting' = [on |-> TRUE, waiting |-> Modules]
      /\ rg_state' = "RESET" /\ UNCHANGED <<rg_addr, owed, controllerVars, rawVars, fabricVars>>
  BY DEF rl_reset_start, rl_start_reset
<1>3. UNCHANGED <<i_reqs, t_reqs, t_rsps, i_rsps, mc_state, rg_rsp>>
  BY <1>2 DEF fabricVars, controllerVars
<1>5. ResetInv'
  BY <1>2 DEF ResetInv, Quiet
<1>6. BufferInv' /\ InOrder'
  BY <1>1, <1>2, <1>3, OrderKept DEF BufferInv
<1>7. ControllerInv'
  BY <1>1, <1>2, <1>3, ControllerKept
<1> QED
  BY <1>1, <1>2, <1>5, <1>6, <1>7 DEF OrderInv

LEMMA OrderAfterResetting ==
  ASSUME OrderInv, Resetting
  PROVE  OrderInv'
<1>1. BufferInv /\ ControllerInv /\ InOrder /\ ResetInv /\ rg_addr \in Addr
  BY DEF OrderInv
<1>2. ASSUME NEW m, Answers(m), UNCHANGED owed, rg_state' \in {rg_state, "READY"}
      PROVE  ResetInv' /\ Quiet
  <2>1. resetting.on /\ Quiet
    BY <1>1, <1>2 DEF Answers, ResetInv
  <2>2. resetting' = [resetting EXCEPT !.waiting = resetting.waiting \ {m}]
    BY <1>2 DEF Answers
  <2>3. /\ resetting'.on /\ resetting' \in [on : BOOLEAN, waiting : SUBSET Modules]
    BY <1>1, <2>1, <2>2 DEF ResetInv
  <2> QED
    BY <1>1, <1>2, <2>1, <2>3 DEF ResetInv, Quiet
<1>3. CASE ResetFabric
  <2>1. Answers("fabric") /\ ClearFabric /\ UNCHANGED <<owed, icacheVars, controllerVars, rawVars>>
    BY <1>3 DEF ResetFabric
  <2>2. UNCHANGED <<rg_state, rg_addr, mc_state>>
    BY <2>1 DEF icacheVars, controllerVars
  <2>3. ResetInv' /\ Quiet
    BY <1>2, <2>1, <2>2
  <2>4. t_reqs[0] = << >> /\ mc_state = "READY"
    BY <1>1, <2>3, QuietFacts
  <2>5. /\ Holds(i_reqs', ReqsFrom) /\ Holds(i_rsps', RspsTo)
        /\ Holds(t_reqs', ReqsTo) /\ Holds(t_rsps', RspsFrom)
        /\ \A i \in Initiators : i_reqs'[i] = << >> /\ i_rsps'[i] = << >>
        /\ \A t \in Targets : t_reqs'[t] = << >> /\ t_rsps'[t] = << >>
    BY <2>1, Doms, ClearFacts DEF ClearFabric
  <2>6. BufferInv' /\ InOrder'
    BY <1>1, <2>1, <2>2, <2>3, <2>4, <2>5, OrderAfterClear
  <2>7. ControllerInv'
    BY <1>1, <2>1, <2>4, ControllerKept
  <2> QED
    BY <1>1, <2>2, <2>3, <2>6, <2>7 DEF OrderInv
<1>4. CASE ResetController
  <2>1. Answers("mem_controller") /\ rl_reset /\ UNCHANGED <<owed, icacheVars>>
    BY <1>4 DEF ResetController
  <2>2. /\ UNCHANGED <<rg_state, rg_addr, i_reqs, i_rsps>> /\ mc_state' = "READY"
        /\ t_reqs' = [t_reqs EXCEPT ![0] = << >>] /\ t_rsps' = [t_rsps EXCEPT ![0] = << >>]
    BY <2>1 DEF icacheVars, rl_reset
  <2>3. ResetInv' /\ Quiet
    BY <1>2, <2>1, <2>2
  <2>4. /\ Holds(t_reqs', ReqsTo) /\ Holds(t_rsps', RspsFrom)
        /\ \A t \in Targets : /\ t_reqs'[t] = << >> \/ t_reqs'[t] = t_reqs[t]
                              /\ t_rsps'[t] = << >> \/ t_rsps'[t] = t_rsps[t]
    <3>1. Holds(t_reqs, ReqsTo) /\ Holds(t_rsps, RspsFrom) /\ 0 \in Targets
      BY <1>1, TargetType DEF BufferInv
    <3>2. DOMAIN ReqsTo = Targets /\ DOMAIN RspsFrom = Targets
      BY Doms
    <3>3. /\ Holds(t_reqs', ReqsTo) /\ t_reqs'[0] = << >>
          /\ \A t \in Targets : t # 0 => t_reqs'[t] = t_reqs[t]
      BY <2>2, <3>1, <3>2, ClearOneFacts
    <3>4. /\ Holds(t_rsps', RspsFrom) /\ t_rsps'[0] = << >>
          /\ \A t \in Targets : t # 0 => t_rsps'[t] = t_rsps[t]
      BY <2>2, <3>1, <3>2, ClearOneFacts
    <3> QED
      BY <3>3, <3>4
  <2>5. /\ Holds(i_reqs', ReqsFrom) /\ Holds(i_rsps', RspsTo)
        /\ \A i \in Initiators : /\ i_reqs'[i] = << >> \/ i_reqs'[i] = i_reqs[i]
                                 /\ i_rsps'[i] = << >> \/ i_rsps'[i] = i_rsps[i]
    BY <1>1, <2>2 DEF BufferInv
  <2>6. BufferInv' /\ InOrder'
    BY <1>1, <2>1, <2>2, <2>3, <2>4, <2>5, OrderAfterClear
  <2>7. ControllerInv'
    BY <1>1, <2>1, ControllerAfterReset
  <2> QED
    BY <1>1, <2>2, <2>3, <2>6, <2>7 DEF OrderInv
<1>5. CASE ResetICache
  <2>1. /\ Answers("icache") /\ rg_state' = "READY"
        /\ UNCHANGED <<rg_addr, owed, controllerVars, rawVars, fabricVars>>
    BY <1>5 DEF ResetICache, rl_reset_sets
  <2>2. ResetInv'
    BY <1>2, <2>1
  <2>3. UNCHANGED <<i_reqs, t_reqs, t_rsps, i_rsps, mc_state, rg_rsp>>
    BY <2>1 DEF fabricVars, controllerVars
  <2>4. BufferInv' /\ InOrder'
    BY <1>1, <2>1, <2>3, OrderKept DEF BufferInv
  <2>5. ControllerInv'
    BY <1>1, <2>1, <2>3, ControllerKept
  <2> QED
    BY <1>1, <2>1, <2>2, <2>4, <2>5 DEF OrderInv
<1>6. CASE rl_reset_complete
  <2>1. /\ resetting.waiting = {} /\ resetting' = [resetting EXCEPT !.on = FALSE]
        /\ UNCHANGED <<owed, icacheVars, controllerVars, rawVars, fabricVars>>
    BY <1>6 DEF rl_reset_complete
  <2>2. UNCHANGED <<i_reqs, t_reqs, t_rsps, i_rsps, mc_state, rg_rsp, rg_addr>>
    BY <2>1 DEF fabricVars, controllerVars, icacheVars
  <2>3. ResetInv'
    BY <1>1, <2>1 DEF ResetInv
  <2>4. BufferInv' /\ InOrder'
    BY <1>1, <2>1, <2>2, OrderKept DEF BufferInv
  <2>5. ControllerInv'
    BY <1>1, <2>1, <2>2, ControllerKept
  <2> QED
    BY <1>1, <2>2, <2>3, <2>4, <2>5 DEF OrderInv
<1> QED
  BY <1>3, <1>4, <1>5, <1>6 DEF Resetting

LEMMA OrderStep == OrderInv /\ [Next]_vars => OrderInv'
<1> SUFFICES ASSUME OrderInv, [Next]_vars PROVE OrderInv'
  OBVIOUS
<1>1. ASSUME NEW i \in {0, 2}, Client(i) PROVE OrderInv'
  BY <1>1, OrderAfterClient
<1>2. ASSUME NEW i \in {0, 2}, Arrives(i) PROVE OrderInv'
  <2>1. /\ i_rsps[i] # << >> /\ i_rsps' = Taken(i_rsps, i) /\ owed' = Gets(i)
        /\ UNCHANGED <<resetting, i_reqs, t_reqs, t_rsps, controllerVars, rawVars, rg_addr>>
    BY <1>2 DEF Arrives, icacheVars
  <2>2. i \in Initiators
    BY TargetType
  <2> QED
    BY <2>1, <2>2, OrderAfterArrives
<1>3. CASE UNCHANGED vars
  <2>1. /\ UNCHANGED <<resetting, owed, controllerVars, rawVars>>
        /\ UNCHANGED <<i_reqs, t_reqs, t_rsps, i_rsps, mc_state, rg_rsp, rg_addr, rg_state>>
    BY <1>3 DEF vars, fabricVars, controllerVars, icacheVars
  <2>2. BufferInv /\ ControllerInv /\ InOrder /\ ResetInv /\ rg_addr \in Addr
    BY DEF OrderInv
  <2>3. ControllerInv' /\ InOrder'
    BY <2>1, <2>2, ControllerKept, OrderKept
  <2>4. BufferInv' /\ ResetInv' /\ rg_addr' \in Addr
    BY <2>1, <2>2 DEF BufferInv, ResetInv, Quiet
  <2> QED
    BY <2>3, <2>4 DEF OrderInv
<1> QED
  BY <1>1, <1>2, <1>3, OrderAfterFetch, OrderAfterCache, OrderAfterFabrics, OrderAfterController,
     OrderAfterConsole, OrderAfterResetStart, OrderAfterResetting DEF Next

(* Whatever the initiators ask for, between each of them and each target   *)
(* is what the initiator waits for, in the order it asked: the fabric and  *)
(* the controller lose, double and reorder nothing, and a reset that       *)
(* begins when nothing is owed leaves nothing behind.                      *)
THEOREM OrderHolds == Spec => []InOrder
<1>1. OrderInv => InOrder
  BY DEF OrderInv
<1> QED
  BY <1>1, OrderInit, OrderStep, PTL DEF Spec

-----------------------------------------------------------------------------
(* The controller is an array of words.  Stored and View as functions of   *)
(* the variables they are about.                                           *)
Writes(q, l) == {k \in DOMAIN q : q[k].write /\ q[k].line = l}
StoredIn(q, r, l) == IF Writes(q, l) = {} THEN r[l] ELSE q[Max(Writes(q, l))].words
ViewOf(s, a, b, q, r) ==
    [l \in MemLines |-> IF s # "RELOAD" /\ a = l THEN b ELSE StoredIn(q, r, l)]

LEMMA ViewIs ==
  /\ View = ViewOf(mc_state, rg_cached_addr, rg_cached_burst, f_raw_mem_reqs, rf)
  /\ View' = ViewOf(mc_state', rg_cached_addr', rg_cached_burst', f_raw_mem_reqs', rf')
BY DEF View, ViewOf, Stored, StoredIn, OnTheWay, Writes

LEMMA StoredWhenNone ==
  ASSUME NEW q, NEW r, NEW l, Writes(q, l) = {}
  PROVE  StoredIn(q, r, l) = r[l]
BY DEF StoredIn

LEMMA StoredWhenOne ==
  ASSUME NEW q, NEW r, NEW l, Writes(q, l) = {1}
  PROVE  StoredIn(q, r, l) = q[1].words
<1>1. Max({1}) = 1
  <2>1. {1} \subseteq 1 .. 1 /\ {1} # {} /\ 1 \in Nat
    OBVIOUS
  <2> QED
    BY <2>1, MaxFacts
<1> QED
  BY <1>1 DEF StoredIn

LEMMA StoredEmpty ==
  ASSUME NEW r, NEW l
  PROVE  StoredIn(<< >>, r, l) = r[l]
BY StoredWhenNone DEF Writes

LEMMA StoredRead ==
  ASSUME NEW r, NEW l, NEW m
  PROVE  StoredIn(<<ReadOf(m)>>, r, l) = r[l]
<1>1. Writes(<<ReadOf(m)>>, l) = {}
  BY DEF Writes, ReadOf
<1> QED
  BY <1>1, StoredWhenNone

LEMMA StoredWrite ==
  ASSUME NEW r, NEW l, NEW k, NEW w
  PROVE  StoredIn(<<WriteOf(k, w)>>, r, l) = IF l = k THEN w ELSE r[l]
<1>1. /\ l # k => Writes(<<WriteOf(k, w)>>, l) = {}
      /\ l = k => Writes(<<WriteOf(k, w)>>, l) = {1}
      /\ <<WriteOf(k, w)>>[1].words = w
  BY DEF Writes, WriteOf
<1> QED
  BY <1>1, StoredWhenNone, StoredWhenOne

LEMMA StoredBoth ==
  ASSUME NEW r, NEW l, NEW k, NEW w, NEW m
  PROVE  StoredIn(<<WriteOf(k, w), ReadOf(m)>>, r, l) = IF l = k THEN w ELSE r[l]
<1> DEFINE q == <<WriteOf(k, w), ReadOf(m)>>
<1>1. /\ DOMAIN q = {1, 2} /\ q[1] = WriteOf(k, w) /\ q[2] = ReadOf(m)
  OBVIOUS
<1>2. WriteOf(k, w).write /\ WriteOf(k, w).line = k /\ WriteOf(k, w).words = w /\ ~ReadOf(m).write
  BY DEF WriteOf, ReadOf
<1> HIDE DEF q
<1>3. /\ l # k => Writes(q, l) = {}
      /\ l = k => Writes(q, l) = {1}
      /\ q[1].words = w
  BY <1>1, <1>2 DEF Writes
<1>4. StoredIn(q, r, l) = IF l = k THEN w ELSE r[l]
  BY <1>3, StoredWhenNone, StoredWhenOne
<1> QED
  BY <1>4 DEF q

LEMMA ViewKept ==
  ASSUME UNCHANGED <<mc_state, rg_cached_addr, rg_cached_burst, rawVars>>
  PROVE  View' = View
BY ViewIs DEF rawVars

LEMMA ViewAfterWriteBack ==
  ASSUME ControllerInv, rl_writeback_dirty
  PROVE  View' = View
<1>1. /\ mc_state = "READY"
      /\ f_raw_mem_reqs' = Append(f_raw_mem_reqs, WriteOf(rg_cached_addr, rg_cached_burst))
      /\ ~rg_cached_clean
      /\ UNCHANGED <<mc_state, rg_cached_addr, rg_cached_burst, rf>>
  BY DEF rl_writeback_dirty, Waiting, WriteOf
<1>2. f_raw_mem_reqs = << >>
  BY <1>1 DEF ControllerInv, ReadyInv
<1>3. f_raw_mem_reqs' = <<WriteOf(rg_cached_addr, rg_cached_burst)>>
  BY <1>1, <1>2, AppendShort
<1>4. \A l \in MemLines : l # rg_cached_addr =>
         StoredIn(f_raw_mem_reqs', rf, l) = StoredIn(f_raw_mem_reqs, rf, l)
  BY <1>2, <1>3, StoredEmpty, StoredWrite
<1> QED
  BY <1>1, <1>4, ViewIs DEF ViewOf

LEMMA ViewAfterMiss ==
  ASSUME ControllerInv, rl_miss_clean_req
  PROVE  View' = View
<1> SUFFICES ASSUME NEW a, a = rg_cached_addr, NEW b, b = rg_cached_burst
             PROVE  View' = View
  OBVIOUS
<1>1. /\ mc_state = "READY" /\ mc_state' = "RELOAD" /\ rg_cached_clean
      /\ f_raw_mem_reqs' = Append(f_raw_mem_reqs, ReadOf(line)) /\ rf' = rf
  BY DEF rl_miss_clean_req, Waiting, MayReplace, ReadOf
<1>2. \/ f_raw_mem_reqs = << >> /\ rf[a] = b
      \/ f_raw_mem_reqs = <<WriteOf(a, b)>>
  BY <1>1 DEF ControllerInv, ReadyInv
<1>3. ASSUME NEW l \in MemLines
      PROVE  StoredIn(f_raw_mem_reqs', rf, l) = IF a = l THEN b ELSE StoredIn(f_raw_mem_reqs, rf, l)
  <2>1. CASE f_raw_mem_reqs = << >> /\ rf[a] = b
    <3>1. f_raw_mem_reqs' = <<ReadOf(line)>>
      BY <1>1, <2>1, AppendShort
    <3> QED
      BY <2>1, <3>1, StoredEmpty, StoredRead
  <2>2. CASE f_raw_mem_reqs = <<WriteOf(a, b)>>
    <3>1. f_raw_mem_reqs' = <<WriteOf(a, b), ReadOf(line)>>
      BY <1>1, <2>2, AppendShort
    <3> QED
      BY <2>2, <3>1, StoredWrite, StoredBoth
  <2> QED
    BY <1>2, <2>1, <2>2
<1> QED
  BY <1>1, <1>3, ViewIs DEF ViewOf

LEMMA ViewAfterReload ==
  ASSUME ControllerInv, rl_reload
  PROVE  View' = View
<1>1. /\ mc_state = "RELOAD" /\ mc_state' = "READY" /\ f_raw_mem_rsps # << >>
      /\ rg_cached_burst' = Head(f_raw_mem_rsps)
      /\ UNCHANGED <<rg_cached_addr, f_raw_mem_reqs, rf>>
  BY DEF rl_reload
<1>2. f_raw_mem_reqs = << >> /\ rg_cached_burst' = rf[rg_cached_addr]
  BY <1>1 DEF ControllerInv, ReloadInv
<1>3. \A l \in MemLines : StoredIn(f_raw_mem_reqs, rf, l) = rf[l]
  BY <1>2, StoredEmpty
<1> QED
  BY <1>1, <1>2, <1>3, ViewIs DEF ViewOf

LEMMA ViewAfterRaw ==
  ASSUME ControllerInv, rl_process_reqs
  PROVE  View' = View
<1> SUFFICES ASSUME NEW r, r = Head(f_raw_mem_reqs), NEW a, a = rg_cached_addr
             PROVE  View' = View
  OBVIOUS
<1>1. /\ f_raw_mem_reqs # << >> /\ f_raw_mem_reqs' = Tail(f_raw_mem_reqs)
      /\ r.write => rf' = [rf EXCEPT ![r.line] = r.words]
      /\ ~r.write => rf' = rf
      /\ UNCHANGED <<mc_state, rg_cached_addr, rg_cached_burst>>
  BY DEF rl_process_reqs, controllerVars
<1>2. rf \in [MemLines -> LineWords] /\ a \in MemLines /\ mc_state \in {"READY", "RELOAD", "SEND"}
  BY DEF ControllerInv, RawTypes
<1>3. \A l \in MemLines : StoredIn(f_raw_mem_reqs', rf', l) = StoredIn(f_raw_mem_reqs, rf, l)
  <2>1. ASSUME NEW k \in MemLines, NEW w \in LineWords,
               \/ f_raw_mem_reqs = <<WriteOf(k, w)>>
               \/ f_raw_mem_reqs = <<WriteOf(k, w), ReadOf(a)>>,
               NEW l \in MemLines
        PROVE  StoredIn(f_raw_mem_reqs', rf', l) = StoredIn(f_raw_mem_reqs, rf, l)
    <3>1. /\ r = WriteOf(k, w)
          /\ f_raw_mem_reqs' = << >> \/ f_raw_mem_reqs' = <<ReadOf(a)>>
      <4>1. CASE f_raw_mem_reqs = <<WriteOf(k, w)>>
        BY <1>1, <4>1
      <4>2. CASE f_raw_mem_reqs = <<WriteOf(k, w), ReadOf(a)>>
        BY <1>1, <4>2
      <4> QED
        BY <2>1, <4>1, <4>2
    <3>2. rf' = [rf EXCEPT ![k] = w]
      BY <1>1, <3>1 DEF WriteOf
    <3>3. rf'[l] = IF l = k THEN w ELSE rf[l]
      BY <1>2, <3>2
    <3>4. StoredIn(f_raw_mem_reqs', rf', l) = rf'[l]
      BY <3>1, StoredEmpty, StoredRead
    <3>5. StoredIn(f_raw_mem_reqs, rf, l) = IF l = k THEN w ELSE rf[l]
      BY <2>1, StoredWrite, StoredBoth
    <3> QED
      BY <3>3, <3>4, <3>5
  <2>2. ASSUME f_raw_mem_reqs = <<ReadOf(a)>>, NEW l \in MemLines
        PROVE  StoredIn(f_raw_mem_reqs', rf', l) = StoredIn(f_raw_mem_reqs, rf, l)
    <3>1. r = ReadOf(a) /\ f_raw_mem_reqs' = << >>
      BY <1>1, <2>2
    <3>2. rf' = rf
      BY <1>1, <3>1 DEF ReadOf
    <3> QED
      BY <2>2, <3>1, <3>2, StoredEmpty, StoredRead
  <2>3. \/ \E k \in MemLines, w \in LineWords :
              \/ f_raw_mem_reqs = <<WriteOf(k, w)>>
              \/ f_raw_mem_reqs = <<WriteOf(k, w), ReadOf(a)>>
        \/ f_raw_mem_reqs = <<ReadOf(a)>>
    <3>1. CASE mc_state = "READY"
      <4>1. f_raw_mem_reqs = <<WriteOf(a, rg_cached_burst)>> /\ rg_cached_burst \in LineWords
        BY <1>1, <3>1 DEF ControllerInv, RawTypes, ReadyInv
      <4> QED
        BY <1>2, <4>1
    <3>2. CASE mc_state = "RELOAD"
      BY <1>1, <3>2 DEF ControllerInv, ReloadInv
    <3>3. mc_state # "SEND"
      BY <1>1 DEF ControllerInv, SendInv
    <3> QED
      BY <1>2, <3>1, <3>2, <3>3
  <2> QED
    BY <2>1, <2>2, <2>3
<1> QED
  BY <1>1, <1>3, ViewIs DEF ViewOf

-----------------------------------------------------------------------------
(* Each step of the controller is a step of the array, or none.            *)
LEMMA FlatKept ==
  ASSUME UNCHANGED <<mc_state, rg_cached_addr, rg_cached_burst, rawVars, rg_rsp>>,
         resetting'.waiting = resetting.waiting
  PROVE  UNCHANGED Flat!vars
BY ViewKept DEF Flat!vars

LEMMA FlatAfterServe ==
  ASSUME BufferInv, ControllerInv, rl_process_req, UNCHANGED resetting
  PROVE  Flat!Serve
<1> SUFFICES ASSUME NEW v, v = View, NEW b, b = rg_cached_burst, NEW l, l = line,
                    NEW o, o = off, NEW c, c = Cardinality(Off)
             PROVE  Flat!Serve
  OBVIOUS
<1>1. /\ mc_state = "READY" /\ t_reqs[0] # << >> /\ rg_cached_addr = l /\ mc_state' = "SEND"
      /\ rg_rsp' = [err |-> Refused, words |-> Words]
      /\ UNCHANGED <<rg_cached_addr, f_raw_mem_reqs, rf>>
      /\ Request.op = "ST" /\ ~Refused =>
           rg_cached_burst' = [b EXCEPT ![o] = Merged(@, Request.lanes, Request.word)]
      /\ ~(Request.op = "ST" /\ ~Refused) => rg_cached_burst' = b
  BY DEF rl_process_req, Waiting, Cached, rawVars
<1>2. /\ l \in MemLines /\ o \in Off /\ Request.addr = <<l, o>> /\ Request.op \in {"LD", "ST"}
      /\ Request.burst \in BOOLEAN /\ Refused \in BOOLEAN /\ Request.lanes \subseteq Lane
  BY <1>1, RequestFacts
<1>3. b \in LineWords
  BY DEF ControllerInv, RawTypes
<1>4. v[l] = b
  BY <1>1, <1>2, ViewIs DEF ViewOf
<1>5. rg_rsp.words = << >> /\ rg_rsp'.words = Words /\ Words # << >>
  BY <1>1, WordsFacts DEF ControllerInv
<1>6. CASE Refused
  <2>1. View' = View
    BY <1>1, <1>6, ViewIs DEF ViewOf
  <2>2. rg_rsp'.words = <<<<l, o>>>>
    BY <1>2, <1>5, <1>6 DEF Words
  <2>3. Flat!Refuse(l, o)
    BY <2>1, <2>2 DEF Flat!Refuse
  <2> QED
    BY <1>2, <1>5, <2>3 DEF Flat!Serve
<1>7. CASE ~Refused /\ Request.op = "ST"
  <2>1. rg_rsp'.words = <<<<l, o>>>>
    BY <1>2, <1>5, <1>7 DEF Words
  <2>2. \A k \in MemLines : k # l => View'[k] = View[k]
    BY <1>1, ViewIs DEF ViewOf
  <2>3. View'[l] = rg_cached_burst'
    BY <1>1, <1>2, ViewIs DEF ViewOf
  <2>4. /\ \A w \in Off : w # o => rg_cached_burst'[w] = b[w]
        /\ rg_cached_burst'[o] = Merged(b[o], Request.lanes, Request.word)
    BY <1>1, <1>2, <1>3, <1>7 DEF LineWords
  <2>5. \A k \in Lane : k \notin Request.lanes =>
           Merged(b[o], Request.lanes, Request.word)[k] = b[o][k]
    BY DEF Merged
  <2>6. \A k \in MemLines, w \in Off, y \in Lane :
           <<k, w>> # <<l, o>> \/ y \notin Request.lanes => View'[k][w][y] = View[k][w][y]
    <3>1. ASSUME NEW k \in MemLines, NEW w \in Off, NEW y \in Lane,
                 k # l \/ w # o \/ y \notin Request.lanes
          PROVE  View'[k][w][y] = View[k][w][y]
      <4>1. CASE k # l
        BY <2>2, <4>1
      <4>2. CASE k = l /\ w # o
        BY <1>4, <2>3, <2>4, <4>2
      <4>3. CASE k = l /\ w = o
        BY <1>4, <2>3, <2>4, <2>5, <3>1, <4>3
      <4> QED
        BY <4>1, <4>2, <4>3
    <3> QED
      BY <3>1
  <2>7. Flat!Write(l, o)
    BY <1>2, <2>1, <2>6 DEF Flat!Write
  <2> QED
    BY <1>2, <1>5, <2>7 DEF Flat!Serve
<1>8. CASE ~Refused /\ Request.op = "LD"
  <2>1. View' = View
    BY <1>1, <1>8, ViewIs DEF ViewOf
  <2>2. Words = IF Request.burst THEN [k \in 1 .. c |-> b[k - 1]] ELSE <<b[o]>>
    BY <1>8 DEF Words
  <2>3. Flat!Read(l)
    <3>1. CASE Request.burst
      <4>1. Flat!WordsOf(l) = [k \in 1 .. c |-> View[l][k - 1]]
        BY DEF Flat!WordsOf, Flat!Cardinality, Cardinality
      <4>2. rg_rsp'.words = Flat!WordsOf(l)
        BY <1>4, <1>5, <2>2, <3>1, <4>1
      <4> QED
        BY <2>1, <4>2 DEF Flat!Read
    <3>2. CASE ~Request.burst
      <4>1. rg_rsp'.words = <<View[l][o]>>
        BY <1>4, <1>5, <2>2, <3>2
      <4> QED
        BY <1>2, <2>1, <4>1 DEF Flat!Read
    <3> QED
      BY <3>1, <3>2
  <2> QED
    BY <1>2, <1>5, <2>3 DEF Flat!Serve
<1> QED
  BY <1>2, <1>6, <1>7, <1>8

LEMMA FlatAfterSend ==
  ASSUME BufferInv, ControllerInv, rl_send_rsp, UNCHANGED resetting
  PROVE  Flat!Send
<1>1. /\ mc_state = "SEND" /\ mc_state' \in {"READY", "SEND"}
      /\ rg_rsp' = IF LastWord THEN NoRsp ELSE [rg_rsp EXCEPT !.words = Tail(@)]
      /\ UNCHANGED <<rg_cached_addr, rg_cached_burst, f_raw_mem_reqs, rf>>
  BY DEF rl_send_rsp, rawVars
<1>2. /\ rg_rsp.words \in Seq(Data) /\ rg_rsp.words # << >>
      /\ rg_rsp \in [err : BOOLEAN, words : Seq(Data)]
  BY <1>1, SendFacts DEF ControllerInv
<1>3. rg_rsp'.words = Tail(rg_rsp.words)
  <2>1. CASE LastWord
    <3>1. Len(Tail(rg_rsp.words)) = 0 /\ Tail(rg_rsp.words) \in Seq(Data)
      BY <1>2, <2>1, TailFacts DEF LastWord
    <3> QED
      BY <1>1, <2>1, <3>1, EmptySeq DEF NoRsp
  <2>2. CASE ~LastWord
    BY <1>1, <1>2, <2>2
  <2> QED
    BY <2>1, <2>2
<1>4. View' = View
  BY <1>1, ViewIs DEF ViewOf
<1> QED
  BY <1>2, <1>3, <1>4 DEF Flat!Send

LEMMA FlatAfterReset ==
  ASSUME OrderInv, ResetController
  PROVE  Flat!Reset
<1>1. /\ "mem_controller" \in resetting.waiting
      /\ resetting' = [resetting EXCEPT !.waiting = resetting.waiting \ {"mem_controller"}]
      /\ rl_reset
  BY DEF ResetController, Answers
<1>2. /\ mc_state' = "READY" /\ rg_cached_addr' = 0 /\ f_raw_mem_reqs' = << >>
      /\ rg_rsp'.words = << >> /\ UNCHANGED <<rg_cached_burst, rf>>
  BY <1>1 DEF rl_reset, NoRsp
<1>3. BufferInv /\ ControllerInv /\ InOrder /\ ResetInv
  BY DEF OrderInv
<1>4. Quiet
  BY <1>1, <1>3 DEF ResetInv
<1>5. mc_state = "READY" /\ t_reqs[0] = << >>
  BY <1>3, <1>4, QuietFacts
<1>6. f_raw_mem_reqs = << >> /\ rg_cached_addr \in MemLines
  BY <1>3, <1>5 DEF ControllerInv, ReadyInv, RawTypes
<1>7. \A k \in MemLines \ {0, rg_cached_addr} : View'[k] = View[k]
  BY <1>2, <1>6, ViewIs DEF ViewOf
<1>8. ~("mem_controller" \in resetting'.waiting)
  BY <1>1, <1>3 DEF ResetInv
<1>9. \E l \in MemLines : \A k \in MemLines \ {0, l} : View'[k] = View[k]
  BY <1>6, <1>7
<1> QED
  BY <1>1, <1>2, <1>8, <1>9 DEF Flat!Reset

LEMMA FlatInit == Init => Flat!Init
<1> SUFFICES ASSUME Init PROVE Flat!Init
  OBVIOUS
<1>1. /\ mc_state = "READY" /\ rg_cached_addr = 0 /\ rg_rsp.words = << >>
      /\ f_raw_mem_reqs = << >> /\ rf = Contents
      /\ ~("mem_controller" \in resetting.waiting)
  BY DEF Init, ControllerInit, NoRsp
<1>2. \A l \in MemLines : StoredIn(f_raw_mem_reqs, rf, l) = rf[l]
  BY <1>1, StoredEmpty
<1>3. \A l \in MemLines \ {0} : View[l] = Contents[l]
  BY <1>1, <1>2, ViewIs DEF ViewOf
<1> QED
  BY <1>1, <1>3 DEF Flat!Init

FlatNext == Flat!Serve \/ Flat!Send \/ Flat!Ask \/ Flat!Reset

LEMMA FlatStep == OrderInv /\ [Next]_vars => [FlatNext]_(Flat!vars)
<1> SUFFICES ASSUME OrderInv, [Next]_vars PROVE FlatNext \/ UNCHANGED Flat!vars
  OBVIOUS
<1>1. BufferInv /\ ControllerInv /\ ResetInv
  BY DEF OrderInv
<1>2. ASSUME NEW i \in {0, 2}, Client(i) \/ Arrives(i) PROVE UNCHANGED Flat!vars
  BY <1>2, FlatKept DEF Client, Arrives, controllerVars
<1>3. CASE Fetch
  <2>1. UNCHANGED <<resetting, controllerVars, rawVars>>
    BY <1>3 DEF Fetch, req
  <2> QED
    BY <2>1, FlatKept DEF controllerVars
<1>4. CASE Cache
  <2>1. UNCHANGED <<resetting, controllerVars, rawVars>>
    BY <1>4 DEF Cache, rl_process_RAM_outs, rl_refill_loop, rl_start_refill, rl_rereq
  <2> QED
    BY <2>1, FlatKept DEF controllerVars
<1>5. CASE Fabrics
  BY <1>5, FlatKept DEF Fabrics, controllerVars
<1>6. CASE Controller
  <2>1. Serving /\ UNCHANGED resetting
    BY <1>6 DEF Controller
  <2>2. ASSUME View' = View, rg_rsp' = rg_rsp PROVE UNCHANGED Flat!vars
    BY <2>1, <2>2 DEF Flat!vars
  <2>3. CASE rl_writeback_dirty
    BY <1>1, <2>2, <2>3, ViewAfterWriteBack DEF rl_writeback_dirty
  <2>4. CASE rl_miss_clean_req
    BY <1>1, <2>2, <2>4, ViewAfterMiss DEF rl_miss_clean_req
  <2>5. CASE rl_reload
    BY <1>1, <2>2, <2>5, ViewAfterReload DEF rl_reload
  <2>6. CASE rl_process_req
    BY <1>1, <2>1, <2>6, FlatAfterServe DEF FlatNext
  <2>7. CASE rl_send_rsp
    BY <1>1, <2>1, <2>7, FlatAfterSend DEF FlatNext
  <2>8. CASE rl_process_reqs
    BY <1>1, <2>2, <2>8, ViewAfterRaw DEF rl_process_reqs, controllerVars
  <2> QED
    BY <2>1, <2>3, <2>4, <2>5, <2>6, <2>7, <2>8 DEF Serving
<1>7. CASE rl_reset_start
  <2>1. /\ resetting' = [on |-> TRUE, waiting |-> Modules]
        /\ UNCHANGED <<controllerVars, rawVars>>
    BY <1>7 DEF rl_reset_start
  <2>2. UNCHANGED <<mc_state, rg_cached_addr, rg_cached_burst, rawVars, rg_rsp>>
    BY <2>1 DEF controllerVars
  <2>3. View' = View
    BY <2>2, ViewKept
  <2>4. "mem_controller" \in resetting'.waiting
    BY <2>1 DEF Modules
  <2>5. Flat!Ask
    BY <2>2, <2>3, <2>4 DEF Flat!Ask
  <2> QED
    BY <2>5 DEF FlatNext
<1>8. CASE Resetting
  <2>1. ASSUME NEW m, m # "mem_controller", Answers(m), UNCHANGED <<controllerVars, rawVars>>
        PROVE  UNCHANGED Flat!vars
    <3>1. "mem_controller" \in resetting'.waiting <=> "mem_controller" \in resetting.waiting
      <4>1. resetting' = [resetting EXCEPT !.waiting = resetting.waiting \ {m}]
        BY <2>1 DEF Answers
      <4> QED
        BY <1>1, <2>1, <4>1 DEF ResetInv
    <3>2. View' = View /\ rg_rsp' = rg_rsp
      BY <2>1, ViewKept DEF controllerVars
    <3> QED
      BY <3>1, <3>2 DEF Flat!vars
  <2>2. CASE ResetFabric
    BY <2>1, <2>2 DEF ResetFabric
  <2>3. CASE ResetController
    BY <2>3, FlatAfterReset DEF FlatNext
  <2>4. CASE ResetICache
    BY <2>1, <2>4 DEF ResetICache
  <2>5. CASE rl_reset_complete
    <3>1. resetting' = [resetting EXCEPT !.on = FALSE] /\ UNCHANGED <<controllerVars, rawVars>>
      BY <2>5 DEF rl_reset_complete
    <3>2. resetting'.waiting = resetting.waiting
      BY <1>1, <3>1 DEF ResetInv
    <3> QED
      BY <3>1, <3>2, FlatKept DEF controllerVars
  <2> QED
    BY <1>8, <2>2, <2>3, <2>4, <2>5 DEF Resetting
<1>9. CASE Console
  BY <1>9, FlatKept DEF Console, controllerVars
<1>10. CASE UNCHANGED vars
  BY <1>10, FlatKept DEF vars, controllerVars
<1> QED
  BY <1>2, <1>3, <1>4, <1>5, <1>6, <1>7, <1>8, <1>9, <1>10 DEF Next

(* The controller with its one line, its write-backs and its reloads is    *)
(* the array of FlatMemory: every step of the memory system serves one     *)
(* request, sends one word, asks for a reset, resets, or changes nothing   *)
(* that the clients of the memory see.                                     *)
THEOREM ControllerIsFlat == Spec => ImplementsFlatMemory
<1>1. [FlatNext]_(Flat!vars) <=> [Flat!Serve \/ Flat!Send \/ Flat!Ask \/ Flat!Reset]_(Flat!vars)
  BY DEF FlatNext
<1> QED
  BY <1>1, FlatInit, FlatStep, OrderInit, OrderStep, PTL
     DEF Spec, ImplementsFlatMemory, Flat!Spec

-----------------------------------------------------------------------------
(* The code stays in the memory and in what is on its way.                 *)
LEMMA CodeElsewhereFacts ==
  ASSUME CodeElsewhere, NEW w
  PROVE  CodeIn(0, w)
BY DEF CodeElsewhere, CodeIn, Code

LEMMA AllRightAppend ==
  ASSUME NEW q \in Seq(Rsps), NEW x \in Rsps, AllRight(q), RspRight(x)
  PROVE  AllRight(Append(q, x))
<1> DEFINE n == Len(q)
           p == Append(q, x)
<1>1. /\ n \in Nat /\ DOMAIN q = 1 .. n /\ DOMAIN p = 1 .. n + 1 /\ p[n + 1] = x
      /\ \A k \in 1 .. n : p[k] = q[k]
  OBVIOUS
<1> HIDE DEF n, p
<1>2. ASSUME NEW k \in DOMAIN p PROVE RspRight(p[k])
  <2>1. CASE k = n + 1
    BY <1>1, <2>1
  <2>2. CASE k # n + 1
    <3>1. k \in 1 .. n
      BY <1>1, <2>2
    <3> QED
      BY <1>1, <3>1 DEF AllRight
  <2> QED
    BY <2>1, <2>2
<1> QED
  BY <1>2 DEF AllRight, p

LEMMA AllRightTail ==
  ASSUME NEW q \in Seq(Rsps), q # << >>, AllRight(q)
  PROVE  AllRight(Tail(q)) /\ RspRight(Head(q))
<1> DEFINE n == Len(q)
           p == Tail(q)
<1>1. /\ p \in Seq(Rsps) /\ Len(p) = n - 1 /\ \A k \in 1 .. n - 1 : p[k] = q[k + 1]
  BY TailFacts
<1>2. n \in Nat \ {0} /\ DOMAIN q = 1 .. n /\ Head(q) = q[1]
  OBVIOUS
<1>3. DOMAIN p = 1 .. n - 1
  BY <1>1
<1> HIDE DEF n, p
<1>4. ASSUME NEW k \in DOMAIN p PROVE RspRight(p[k])
  <2>1. k + 1 \in 1 .. n /\ p[k] = q[k + 1]
    BY <1>1, <1>2, <1>3
  <2> QED
    BY <1>2, <2>1 DEF AllRight
<1>5. 1 \in 1 .. n
  BY <1>2
<1> QED
  BY <1>2, <1>4, <1>5 DEF AllRight, p

LEMMA MemoryRightKept ==
  ASSUME MemoryRight, UNCHANGED <<controllerVars, rawVars>>
  PROVE  MemoryRight'
BY DEF MemoryRight, controllerVars, rawVars

LEMMA MemoryRightAfterReset ==
  ASSUME CodeElsewhere, MemoryRight, rl_reset
  PROVE  MemoryRight'
<1>1. mc_state' = "READY" /\ rg_cached_addr' = 0 /\ f_raw_mem_reqs' = << >> /\ UNCHANGED rf
  BY DEF rl_reset
<1>2. CodeIn(rg_cached_addr', rg_cached_burst')
  BY <1>1, CodeElsewhereFacts
<1>3. DOMAIN f_raw_mem_reqs' = {}
  BY <1>1
<1> QED
  BY <1>1, <1>2, <1>3 DEF MemoryRight

LEMMA MemoryRightAfterServing ==
  ASSUME BufferInv, ControllerInv, MemoryRight, Serving
  PROVE  MemoryRight'
<1> DEFINE c == rg_cached_addr
           b == rg_cached_burst
<1>1. CASE rl_writeback_dirty
  <2>1. /\ mc_state = "READY" /\ f_raw_mem_reqs' = Append(f_raw_mem_reqs, WriteOf(c, b))
        /\ ~rg_cached_clean /\ UNCHANGED <<mc_state, rg_cached_addr, rg_cached_burst, rf>>
    BY <1>1 DEF rl_writeback_dirty, Waiting, WriteOf
  <2>2. f_raw_mem_reqs = << >>
    BY <2>1 DEF ControllerInv, ReadyInv
  <2>3. f_raw_mem_reqs' = <<WriteOf(c, b)>>
    BY <2>1, <2>2, AppendShort
  <2>4. CodeIn(c, b)
    BY <2>1 DEF MemoryRight
  <2>5. \A k \in DOMAIN f_raw_mem_reqs' : CodeIn(f_raw_mem_reqs'[k].line, f_raw_mem_reqs'[k].words)
    BY <2>3, <2>4 DEF WriteOf
  <2> QED
    BY <2>1, <2>4, <2>5 DEF MemoryRight
<1>2. CASE rl_miss_clean_req
  <2>1. /\ mc_state = "READY" /\ f_raw_mem_reqs' = Append(f_raw_mem_reqs, ReadOf(line))
        /\ mc_state' = "RELOAD" /\ UNCHANGED rf
    BY <1>2 DEF rl_miss_clean_req, Waiting, ReadOf
  <2>2. f_raw_mem_reqs = << >> \/ f_raw_mem_reqs = <<WriteOf(c, b)>>
    BY <2>1 DEF ControllerInv, ReadyInv
  <2>3. f_raw_mem_reqs' = <<ReadOf(line)>> \/ f_raw_mem_reqs' = <<WriteOf(c, b), ReadOf(line)>>
    BY <2>1, <2>2, AppendShort
  <2>4. CodeIn(c, b)
    BY <2>1 DEF MemoryRight
  <2>5. \A k \in DOMAIN f_raw_mem_reqs' : f_raw_mem_reqs'[k].write =>
           CodeIn(f_raw_mem_reqs'[k].line, f_raw_mem_reqs'[k].words)
    BY <2>3, <2>4 DEF WriteOf, ReadOf
  <2> QED
    BY <2>1, <2>5 DEF MemoryRight
<1>3. CASE rl_reload
  <2>1. /\ mc_state = "RELOAD" /\ f_raw_mem_rsps # << >>
        /\ rg_cached_burst' = Head(f_raw_mem_rsps)
        /\ UNCHANGED <<rg_cached_addr, rf, f_raw_mem_reqs>>
    BY <1>3 DEF rl_reload
  <2>2. f_raw_mem_rsps = <<rf[c]>> /\ c \in MemLines
    BY <2>1 DEF ControllerInv, ReloadInv, RawTypes
  <2>3. rg_cached_burst' = rf[c]
    BY <2>1, <2>2
  <2> QED
    BY <2>1, <2>2, <2>3 DEF MemoryRight
<1>4. CASE rl_process_req
  <2>1. /\ mc_state = "READY" /\ t_reqs[0] # << >> /\ Cached
        /\ UNCHANGED <<rg_cached_addr, rf, f_raw_mem_reqs>>
        /\ IF Request.op = "ST" /\ ~Refused
           THEN rg_cached_burst' = [b EXCEPT ![off] = Merged(@, Request.lanes, Request.word)]
           ELSE rg_cached_burst' = b
    BY <1>4 DEF rl_process_req, Waiting, rawVars
  <2>2. CodeIn(c, b) /\ c = line
    BY <2>1 DEF MemoryRight, Cached
  <2>3. CodeIn(c, rg_cached_burst')
    <3>1. CASE Request.op = "ST" /\ ~Refused
      <4>1. Request \in Reqs /\ Request.addr = <<line, off>>
        BY <2>1, RequestFacts
      <4>2. <<c, off>> \notin Code
        BY <2>2, <3>1, <4>1 DEF Reqs, Code
      <4>3. b \in [Off -> ByteWord]
        BY DEF ControllerInv, RawTypes, LineWords
      <4>4. \A k \in Off : k # off => rg_cached_burst'[k] = b[k]
        BY <2>1, <3>1, <4>3
      <4> HIDE DEF b
      <4> QED
        BY <2>2, <4>2, <4>4 DEF CodeIn
    <3>2. CASE ~(Request.op = "ST" /\ ~Refused)
      BY <2>1, <2>2, <3>2
    <3> QED
      BY <3>1, <3>2
  <2> QED
    BY <2>1, <2>3 DEF MemoryRight
<1>5. CASE rl_send_rsp
  <2>1. /\ mc_state = "SEND" /\ UNCHANGED <<rg_cached_addr, rg_cached_burst, rf, f_raw_mem_reqs>>
    BY <1>5 DEF rl_send_rsp, rawVars
  <2> QED
    BY <2>1 DEF MemoryRight
<1>6. CASE rl_process_reqs
  <2> DEFINE r == Head(f_raw_mem_reqs)
  <2>1. /\ f_raw_mem_reqs # << >> /\ f_raw_mem_reqs' = Tail(f_raw_mem_reqs)
        /\ IF r.write THEN rf' = [rf EXCEPT ![r.line] = r.words] ELSE UNCHANGED rf
        /\ UNCHANGED <<mc_state, rg_cached_addr, rg_cached_burst>>
    BY <1>6 DEF rl_process_reqs, controllerVars
  <2>2. RawTypes
    BY DEF ControllerInv
  <2>3. ASSUME NEW l \in MemLines, NEW w \in LineWords, r = WriteOf(l, w), CodeIn(l, w),
               f_raw_mem_reqs' = << >> \/ f_raw_mem_reqs' = <<ReadOf(c)>>
        PROVE  MemoryRight'
    <3>1. rf' = [rf EXCEPT ![l] = w]
      BY <2>1, <2>3 DEF WriteOf
    <3>2. \A k \in MemLines : rf'[k] = IF k = l THEN w ELSE rf[k]
      BY <2>2, <3>1 DEF RawTypes
    <3>3. \A k \in MemLines : CodeIn(k, rf'[k])
      BY <2>3, <3>2 DEF MemoryRight
    <3>4. \A k \in DOMAIN f_raw_mem_reqs' : ~f_raw_mem_reqs'[k].write
      BY <2>3 DEF ReadOf
    <3> QED
      BY <2>1, <3>3, <3>4 DEF MemoryRight
  <2>4. CASE mc_state = "READY"
    <3>1. f_raw_mem_reqs = <<WriteOf(c, b)>>
      BY <2>1, <2>4 DEF ControllerInv, ReadyInv
    <3>2. r = WriteOf(c, b) /\ f_raw_mem_reqs' = << >> /\ c \in MemLines /\ b \in LineWords
      BY <2>1, <2>2, <3>1 DEF RawTypes
    <3>3. CodeIn(c, b)
      BY <2>4 DEF MemoryRight
    <3> QED
      BY <2>3, <3>2, <3>3
  <2>5. CASE mc_state = "RELOAD"
    <3>1. ASSUME f_raw_mem_reqs = <<ReadOf(c)>> PROVE MemoryRight'
      <4>1. r = ReadOf(c) /\ f_raw_mem_reqs' = << >>
        BY <2>1, <3>1
      <4>2. UNCHANGED rf /\ DOMAIN f_raw_mem_reqs' = {}
        BY <2>1, <4>1 DEF ReadOf
      <4> QED
        BY <2>1, <4>2 DEF MemoryRight
    <3>2. ASSUME NEW l \in MemLines, NEW w \in LineWords, f_raw_mem_reqs = <<WriteOf(l, w), ReadOf(c)>>
          PROVE  MemoryRight'
      <4>1. r = WriteOf(l, w) /\ f_raw_mem_reqs' = <<ReadOf(c)>>
        BY <2>1, <3>2
      <4>2. 1 \in DOMAIN f_raw_mem_reqs /\ f_raw_mem_reqs[1] = WriteOf(l, w)
        BY <3>2
      <4>3. CodeIn(l, w)
        BY <4>2 DEF MemoryRight, WriteOf
      <4> QED
        BY <2>3, <4>1, <4>3
    <3> QED
      BY <2>1, <2>5, <3>1, <3>2 DEF ControllerInv, ReloadInv
  <2> QED
    BY <2>1, <2>2, <2>4, <2>5 DEF RawTypes, ControllerInv, SendInv
<1> QED
  BY <1>1, <1>2, <1>3, <1>4, <1>5, <1>6 DEF Serving

(* What is answered is right.                                              *)
LEMMA RightAfterPut ==
  ASSUME BufferInv, AnswersRight, NEW u \in Targets, NEW y \in RspsFrom[u], RspRight(y),
         t_rsps' = Put(t_rsps, u, y), UNCHANGED i_rsps
  PROVE  AnswersRight'
<1>1. Holds(t_rsps, RspsFrom) /\ u \in DOMAIN RspsFrom /\ DOMAIN RspsFrom = Targets /\ y \in Rsps
  BY Doms DEF BufferInv
<1>2. t_rsps'[u] = Append(t_rsps[u], y) /\ \A d \in Targets : d # u => t_rsps'[d] = t_rsps[d]
  BY <1>1, PutFacts
<1>3. t_rsps[u] \in Seq(Rsps) /\ AllRight(t_rsps[u])
  BY BufferTypes DEF AnswersRight
<1>4. AllRight(t_rsps'[u])
  BY <1>1, <1>2, <1>3, AllRightAppend
<1> QED
  BY <1>2, <1>4 DEF AnswersRight

LEMMA RightAfterReturn ==
  ASSUME BufferInv, AnswersRight, NEW u \in Targets, rl_targets_to_initiators(u)
  PROVE  AnswersRight'
<1> SUFFICES ASSUME NEW y, y = Head(t_rsps[u]), NEW j, j = y.initiator
             PROVE  AnswersRight'
  OBVIOUS
<1>1. t_rsps[u] # << >> /\ i_rsps' = Put(i_rsps, j, y) /\ t_rsps' = Taken(t_rsps, u)
  BY DEF rl_targets_to_initiators, CanReturn
<1>2. /\ t_rsps'[u] = Tail(t_rsps[u]) /\ y \in RspsFrom[u]
      /\ \A d \in Targets : d # u => t_rsps'[d] = t_rsps[d]
  BY <1>1, TakenFacts, Doms DEF BufferInv
<1>3. y \in Rsps /\ j \in Initiators /\ y \in RspsTo[j]
  <2>1. y \in Rsps
    BY <1>2, Doms
  <2>2. j \in Initiators
    BY <2>1 DEF Rsps
  <2> QED
    BY <2>1, <2>2, Doms
<1>4. i_rsps'[j] = Append(i_rsps[j], y) /\ \A d \in Initiators : d # j => i_rsps'[d] = i_rsps[d]
  <2>1. Holds(i_rsps, RspsTo) /\ j \in DOMAIN RspsTo /\ DOMAIN RspsTo = Initiators
    BY <1>3, Doms DEF BufferInv
  <2>2. /\ Put(i_rsps, j, y)[j] = Append(i_rsps[j], y)
        /\ \A d \in DOMAIN RspsTo : d # j => Put(i_rsps, j, y)[d] = i_rsps[d]
    BY <1>3, <2>1, PutFacts
  <2> QED
    BY <1>1, <2>1, <2>2
<1>5. t_rsps[u] \in Seq(Rsps) /\ AllRight(t_rsps[u]) /\ i_rsps[j] \in Seq(Rsps) /\ AllRight(i_rsps[j])
  BY <1>3, BufferTypes DEF AnswersRight
<1>6. AllRight(t_rsps'[u]) /\ RspRight(y)
  BY <1>1, <1>2, <1>5, AllRightTail
<1>7. AllRight(i_rsps'[j])
  BY <1>3, <1>4, <1>5, <1>6, AllRightAppend
<1> QED
  BY <1>2, <1>4, <1>6, <1>7 DEF AnswersRight

LEMMA RightAfterArrival ==
  ASSUME BufferInv, AnswersRight, NEW j \in Initiators, i_rsps[j] # << >>,
         i_rsps' = Taken(i_rsps, j), UNCHANGED t_rsps
  PROVE  AnswersRight' /\ RspRight(Head(i_rsps[j]))
<1>1. /\ i_rsps'[j] = Tail(i_rsps[j]) /\ \A d \in Initiators : d # j => i_rsps'[d] = i_rsps[d]
  BY TakenFacts, Doms DEF BufferInv
<1>2. i_rsps[j] \in Seq(Rsps) /\ AllRight(i_rsps[j])
  BY BufferTypes DEF AnswersRight
<1>3. AllRight(i_rsps'[j]) /\ RspRight(Head(i_rsps[j]))
  BY <1>1, <1>2, AllRightTail
<1> QED
  BY <1>1, <1>3 DEF AnswersRight

LEMMA RightAfterDevice ==
  ASSUME BufferInv, AnswersRight, NEW u \in {2, 3}, NEW e,
         t_reqs[u] # << >>, e \in BOOLEAN, RefusesBurst(Head(t_reqs[u]), e),
         t_rsps' = Put(t_rsps, u, Response(Head(t_reqs[u]), e, Head(t_reqs[u]).addr, Head(t_reqs[u]).addr)),
         UNCHANGED i_rsps
  PROVE  AnswersRight'
<1> SUFFICES ASSUME NEW r, r = Head(t_reqs[u]), NEW y, y = Response(r, e, r.addr, r.addr)
             PROVE  AnswersRight'
  OBVIOUS
<1>1. u \in Targets /\ u # 0
  BY TargetType
<1>2. r \in ReqsTo[u]
  <2>1. Holds(t_reqs, ReqsTo) /\ u \in DOMAIN ReqsTo
    BY <1>1, Doms DEF BufferInv
  <2> QED
    BY <2>1, TakenFacts
<1>3. r \in Reqs /\ target_id(r.addr) = u /\ r.addr \in Addr
  BY <1>1, <1>2, Doms, BeatsFacts
<1>5. /\ y \in Rsps /\ y.at = r.addr /\ y.initiator = r.initiator /\ y.op = r.op /\ y.err = e
  BY <1>3 DEF Response, Rsps, Reqs, Data
<1>6. y \in RspsFrom[u]
  BY <1>1, <1>3, <1>5, Doms
<1>7. y.at \notin Code
  BY <1>1, <1>3, <1>5 DEF Code
<1>8. r.initiator = 1 => r.op = "LD" /\ e = TRUE
  BY <1>3 DEF Reqs, RefusesBurst
<1>9. RspRight(y)
  BY <1>1, <1>3, <1>5, <1>7, <1>8 DEF RspRight
<1>10. t_rsps' = Put(t_rsps, u, y)
  OBVIOUS
<1> QED
  BY <1>1, <1>6, <1>9, <1>10, RightAfterPut

LEMMA RightAfterSend ==
  ASSUME BufferInv, ControllerInv, MemoryRight, AnswersRight, rl_send_rsp
  PROVE  AnswersRight'
<1> DEFINE L == Len(rg_rsp.words)
           n == Cardinality(Off)
<1> SUFFICES ASSUME NEW y, y = Response(Request, rg_rsp.err, Head(rg_rsp.words), At)
             PROVE  AnswersRight'
  OBVIOUS
<1>1. mc_state = "SEND" /\ t_rsps' = Put(t_rsps, 0, y) /\ UNCHANGED i_rsps
  BY DEF rl_send_rsp
<1>2. SendInv /\ rg_rsp \in [err : BOOLEAN, words : Seq(Data)] /\ t_reqs[0] # << >> /\ RawTypes
  BY <1>1 DEF ControllerInv, SendInv
<1>3. /\ Request \in Reqs /\ (Request.burst => ~Refused /\ Request.op = "LD") /\ off \in Off
      /\ line \in MemLines /\ Request.addr = <<line, off>> /\ rg_rsp.err = Refused
      /\ Request.burst \in BOOLEAN /\ Request.initiator \in Initiators /\ Request.op \in {"LD", "ST"}
  BY <1>2, RequestFacts DEF SendInv
<1>4. /\ At \in Addr /\ At[1] = line /\ target_id(At) = 0
      /\ rg_rsp.words # << >> /\ Head(rg_rsp.words) \in Data /\ rg_rsp.words \in Seq(Data)
  BY <1>1, SendFacts
<1>5. /\ y \in Rsps /\ y.at = At /\ y.initiator = Request.initiator /\ y.op = Request.op
      /\ y.err = Refused /\ y.word = Head(rg_rsp.words)
  BY <1>2, <1>3, <1>4 DEF Response, Rsps
<1>6. y \in RspsFrom[0] /\ 0 \in Targets
  <2>1. 0 \in Targets /\ RspsFrom[0] = {x \in Rsps : target_id(x.at) = 0}
    BY Doms, TargetType
  <2> QED
    BY <1>4, <1>5, <2>1
<1>7. y.initiator = 1 => y.op = "LD" /\ (y.err <=> target_id(y.at) # 0)
  <2>1. Request.initiator = 1 => Request.burst
    BY <1>3 DEF Reqs
  <2> QED
    BY <1>3, <1>4, <1>5, <2>1
<1>8. ASSUME y.op = "LD", ~y.err, y.at \in Code PROVE y.word = Contents[y.at[1]][y.at[2]]
  <2>1. L \in Nat /\ L # 0 /\ n \in Nat /\ Head(rg_rsp.words) = rg_rsp.words[1]
    BY <1>4, OffFacts, EmptySeq
  <2>2. CodeIn(line, rg_cached_burst)
    BY <1>1, <1>2 DEF MemoryRight, SendInv, Cached
  <2>3. \A k \in 1 .. L : rg_rsp.words[k] = rg_cached_burst[IF Request.burst THEN n - L + k - 1 ELSE off]
    BY <1>2, <1>5, <1>8 DEF SendInv
  <2> HIDE DEF L, n
  <2>4. 1 \in 1 .. L /\ n - L + 1 - 1 = n - L
    BY <2>1
  <2>5. y.word = rg_cached_burst[IF Request.burst THEN n - L ELSE off]
    BY <1>5, <2>1, <2>3, <2>4
  <2>6. At = <<line, IF Request.burst THEN n - L ELSE off>>
    <3>1. CASE Request.burst
      BY <1>3, <3>1 DEF At, L, n
    <3>2. CASE ~Request.burst
      BY <1>3, <3>2 DEF At
    <3> QED
      BY <3>1, <3>2
  <2> SUFFICES ASSUME NEW w, w = IF Request.burst THEN n - L ELSE off PROVE y.word = Contents[y.at[1]][y.at[2]]
    OBVIOUS
  <2>7. y.at = <<line, w>> /\ y.word = rg_cached_burst[w]
    BY <1>5, <2>5, <2>6
  <2>8. w \in Off
    BY <1>4, <1>5, <2>7, AddrFacts
  <2>9. y.at[1] = line /\ y.at[2] = w /\ <<line, w>> \in Code
    BY <1>8, <2>7
  <2>10. rg_cached_burst[w] = Contents[line][w]
    BY <2>2, <2>8, <2>9 DEF CodeIn
  <2> QED
    BY <2>7, <2>9, <2>10
<1>9. RspRight(y)
  BY <1>7, <1>8 DEF RspRight
<1> QED
  BY <1>1, <1>6, <1>9, RightAfterPut

-----------------------------------------------------------------------------
(* The instruction cache.                                                  *)
LEMMA SetFacts ==
  ASSUME rg_addr \in Addr
  PROVE  set \in CSet /\ rg_addr[1] \in Lines /\ rg_addr[2] \in Off /\ rg_addr = <<rg_addr[1], rg_addr[2]>>
BY AddrFacts, ICacheAssumption DEF set

LEMMA RestFacts ==
  ASSUME rg_addr \in Addr, NEW n \in Off
  PROVE  /\ RestOfLine(n) # << >>
         /\ target_id(rg_addr) # 0 => Tail(RestOfLine(n)) = << >>
         /\ target_id(rg_addr) = 0 =>
              /\ Head(RestOfLine(n)) = <<rg_addr[1], n>>
              /\ n = Cardinality(Off) - 1 => Tail(RestOfLine(n)) = << >>
              /\ n # Cardinality(Off) - 1 => Tail(RestOfLine(n)) = RestOfLine(n + 1)
<1> DEFINE c == Cardinality(Off)
           l == rg_addr[1]
           m == c - n
           R == [k \in 1 .. m |-> <<l, n + k - 1>>]
           T == [k \in 1 .. c - (n + 1) |-> <<l, n + 1 + k - 1>>]
           S == {<<l, j>> : j \in Nat}
<1>1. c \in Nat /\ n \in Nat /\ n <= c - 1
  BY OffFacts
<1>2. CASE target_id(rg_addr) # 0
  <2>1. RestOfLine(n) = <<<<rg_addr[1], 0>>>>
    BY <1>2 DEF RestOfLine
  <2> QED
    BY <1>2, <2>1
<1>3. CASE target_id(rg_addr) = 0
  <2>1. RestOfLine(n) = R /\ RestOfLine(n + 1) = T
    BY <1>3 DEF RestOfLine
  <2> HIDE DEF c
  <2>2. m \in Nat /\ m >= 1 /\ c - (n + 1) = m - 1
    BY <1>1
  <2>3. /\ \A k \in 1 .. m : n + k - 1 \in Nat
        /\ \A k \in 1 .. m - 1 : n + 1 + k - 1 \in Nat /\ n + 1 + k - 1 = n + (k + 1) - 1 /\ k + 1 \in 1 .. m
    BY <1>1, <2>2
  <2> HIDE DEF m
  <2>4. R \in Seq(S) /\ Len(R) = m /\ \A k \in 1 .. m : R[k] = <<l, n + k - 1>>
    BY <2>2, <2>3
  <2>5. T \in Seq(S) /\ Len(T) = m - 1 /\ \A k \in 1 .. m - 1 : T[k] = <<l, n + 1 + k - 1>>
    <3>1. \A k \in 1 .. m - 1 : <<l, n + 1 + k - 1>> \in S
      BY <2>3
    <3>2. T = [k \in 1 .. m - 1 |-> <<l, n + 1 + k - 1>>]
      BY <2>2
    <3>3. m - 1 \in Nat
      BY <2>2
    <3> HIDE DEF T, S
    <3> QED
      BY <3>1, <3>2, <3>3
  <2> HIDE DEF R, T, S
  <2>6. R # << >> /\ Head(R) = R[1] /\ 1 \in 1 .. m /\ n + 1 - 1 = n
    <3>1. R # << >>
      BY <2>2, <2>4
    <3> QED
      BY <1>1, <2>2, <2>4, <3>1
  <2>7. Tail(R) \in Seq(S) /\ Len(Tail(R)) = m - 1 /\ \A k \in 1 .. m - 1 : Tail(R)[k] = R[k + 1]
    BY <2>4, <2>6, TailFacts
  <2>8. Tail(R) = T
    <3>1. \A k \in 1 .. m - 1 : Tail(R)[k] = T[k]
      BY <2>3, <2>4, <2>5, <2>7
    <3> QED
      BY <2>5, <2>7, <3>1, SeqEqual
  <2>9. Head(R) = <<l, n>>
    <3>1. R[1] = <<l, n + 1 - 1>>
      BY <2>4, <2>6
    <3> QED
      BY <2>6, <3>1
  <2>10. n = c - 1 => Tail(R) = << >>
    <3>1. n = c - 1 => m - 1 = 0
      BY <1>1 DEF m
    <3> QED
      BY <2>7, <3>1, EmptySeq
  <2> QED
    BY <1>3, <2>1, <2>6, <2>8, <2>9, <2>10 DEF c
<1> QED
  BY <1>2, <1>3

LEMMA CacheKept ==
  ASSUME CacheTypes, CacheInv, UNCHANGED icacheVars, \A t \in Targets : owed'[1][t] = owed[1][t]
  PROVE  CacheTypes' /\ CacheInv'
<1>1. UNCHANGED <<rg_state, rg_addr, rg_exc_code, rg_wordset_in_cache, ctag, words>>
  BY DEF icacheVars
<1>2. ASSUME NEW b, WaitsFor(b) PROVE WaitsFor(b)'
  BY <1>1, <1>2 DEF WaitsFor
<1>3. CacheTypes'
  BY <1>1 DEF CacheTypes
<1>4. set' = set /\ exc' = exc
  BY <1>1 DEF set, exc
<1>5. \A n : RestOfLine(n)' = RestOfLine(n)
  BY <1>1 DEF RestOfLine
<1>6. \A s, l, n : Refilled(s, l, n)' = Refilled(s, l, n)
  BY <1>1 DEF Refilled
<1>7. /\ rg_state \notin {"START_REFILL", "REFILL_LOOP"} => WaitsFor(<< >>)'
      /\ rg_state = "START_REFILL" => WaitsFor(RestOfLine(0))'
      /\ rg_state = "REFILL_LOOP" => WaitsFor(RestOfLine(rg_wordset_in_cache))'
  BY <1>1, <1>5 DEF CacheInv, WaitsFor
<1>8. /\ rg_state \notin {"RESET", "READY"} => rg_addr' \in Fetches
      /\ rg_state = "REFILL_LOOP" => ctag'[set'] = {rg_addr'[1]} /\ Refilled(set, rg_addr[1], rg_wordset_in_cache)'
      /\ exc' /\ rg_exc_code' = FAULT => target_id(rg_addr') # 0
  BY <1>1, <1>4, <1>6 DEF CacheInv
<1>9. \A s \in CSet, l \in MemLines :
         ctag'[s] = {l} => \/ rg_state' = "REFILL_LOOP" /\ s = set'
                           \/ Refilled(s, l, Cardinality(Off))'
  BY <1>1, <1>4, <1>6 DEF CacheInv
<1> QED
  BY <1>1, <1>3, <1>7, <1>8, <1>9 DEF CacheInv

LEMMA CacheAfterFetch ==
  ASSUME NoRedirects, CacheTypes, CacheInv, Fetch
  PROVE  CacheTypes' /\ CacheInv'
<1> PICK a \in Fetches, misaligned \in BOOLEAN : req(a, misaligned)
  BY DEF Fetch
<1>1. /\ rg_addr' = a /\ rg_state' = (IF misaligned THEN "EXCEPTION" ELSE "PROCESS")
      /\ rg_exc_code' = (IF misaligned THEN MISALIGNED ELSE rg_exc_code)
      /\ UNCHANGED <<rg_wordset_in_cache, ctag, words, owed>>
      /\ ~Refilling
  BY DEF req, Fetch, NoRedirects
<1>2. rg_state \notin {"START_REFILL", "REFILL_LOOP"}
  BY <1>1 DEF Refilling
<1>3. a \in Addr
  BY MemoryAssumption
<1>4. CacheTypes'
  BY <1>1, <1>3 DEF CacheTypes
<1>5. WaitsFor(<< >>)'
  BY <1>1, <1>2 DEF CacheInv, WaitsFor
<1>6. rg_state' \in {"EXCEPTION", "PROCESS"}
  BY <1>1
<1>7. exc' => rg_exc_code' # FAULT
  BY <1>1 DEF exc, MISALIGNED, FAULT
<1>8. \A s \in CSet, l \in MemLines : ctag'[s] = {l} => Refilled(s, l, Cardinality(Off))'
  BY <1>1, <1>2 DEF CacheInv, Refilled
<1> QED
  BY <1>1, <1>4, <1>5, <1>6, <1>7, <1>8 DEF CacheInv

LEMMA CacheAfterMiss ==
  ASSUME BufferInv, CacheTypes, CacheInv, rl_process_RAM_outs, owed' = Owes(1, Burst)
  PROVE  CacheTypes' /\ CacheInv'
<1>1. /\ rg_state = "PROCESS" /\ rg_state' = "START_REFILL"
      /\ UNCHANGED <<rg_addr, rg_exc_code, rg_wordset_in_cache, ctag, words>>
  BY DEF rl_process_RAM_outs
<1>2. CacheTypes'
  BY <1>1 DEF CacheTypes
<1>3. rg_addr \in Addr /\ 1 \in Initiators
  BY TargetType DEF CacheTypes
<1>4. Burst.addr = <<rg_addr[1], 0>> /\ target_id(Burst.addr) = target_id(rg_addr)
  BY DEF Burst, target_id
<1>5. Beats(Burst) = RestOfLine(0)
  <2> DEFINE n == Cardinality(Off)
             l == rg_addr[1]
  <2>1. n \in Nat /\ \A k \in 1 .. n : k - 1 = 0 + k - 1
    BY OffFacts
  <2>2. CASE target_id(rg_addr) = 0
    <3>1. Beats(Burst) = [k \in 1 .. n |-> <<l, k - 1>>]
      BY <1>4, <2>2 DEF Beats, Burst
    <3>2. RestOfLine(0) = [k \in 1 .. n - 0 |-> <<l, 0 + k - 1>>]
      BY <2>2 DEF RestOfLine
    <3> HIDE DEF n, l
    <3>3. n - 0 = n
      BY <2>1
    <3> QED
      BY <2>1, <3>1, <3>2, <3>3
  <2>3. CASE target_id(rg_addr) # 0
    BY <1>4, <2>3 DEF Beats, RestOfLine, Burst
  <2> QED
    BY <2>2, <2>3
<1>6. WaitsFor(<< >>)
  BY <1>1 DEF CacheInv
<1>7. ASSUME NEW t \in Targets
      PROVE  owed'[1][t] = IF t = target_id(rg_addr) THEN RestOfLine(0) ELSE << >>
  <2>1. owed[1][t] = << >>
    BY <1>6 DEF WaitsFor
  <2>2. owed' = [owed EXCEPT ![1][target_id(rg_addr)] = Cat(@, Beats(Burst))]
    BY <1>4 DEF Owes, Cat
  <2>3. owed \in [Initiators -> [Targets -> Seq(Addr)]] /\ target_id(rg_addr) \in Targets
    BY TargetType DEF BufferInv
  <2>4. CASE t = target_id(rg_addr)
    <3>1. owed'[1][t] = Cat(<< >>, Beats(Burst))
      BY <1>3, <2>1, <2>2, <2>3, <2>4
    <3>2. Beats(Burst) \in Seq(Addr)
      BY <1>3, NewBurst, Doms, BeatsFacts
    <3> QED
      BY <1>5, <2>4, <3>1, <3>2, CatEmpty
  <2>5. CASE t # target_id(rg_addr)
    BY <1>3, <2>1, <2>2, <2>3, <2>5
  <2> QED
    BY <2>4, <2>5
<1>8. WaitsFor(RestOfLine(0))'
  BY <1>1, <1>7 DEF WaitsFor, RestOfLine
<1>9. \A s \in CSet, l \in MemLines : ctag'[s] = {l} => Refilled(s, l, Cardinality(Off))'
  BY <1>1 DEF CacheInv, Refilled
<1>10. rg_addr' \in Fetches /\ ~exc'
  BY <1>1 DEF CacheInv, exc
<1> QED
  BY <1>1, <1>2, <1>8, <1>9, <1>10 DEF CacheInv

LEMMA CacheAfterStart ==
  ASSUME CacheTypes, CacheInv, rl_start_refill, UNCHANGED owed
  PROVE  CacheTypes' /\ CacheInv'
<1>1. /\ rg_state = "START_REFILL" /\ rg_state' = "REFILL_LOOP"
      /\ ctag' = [ctag EXCEPT ![set] = {rg_addr[1]}]
      /\ rg_wordset_in_cache' = 0 /\ UNCHANGED <<rg_addr, rg_exc_code, words>>
  BY DEF rl_start_refill, FirstWord
<1>2. rg_addr \in Addr /\ set \in CSet /\ rg_addr[1] \in Lines /\ set' = set
  BY <1>1, SetFacts DEF CacheTypes, set
<1>3. /\ ctag \in [CSet -> {NoTag} \cup {{l} : l \in Lines}]
      /\ ctag'[set] = {rg_addr[1]} /\ \A s \in CSet : s # set => ctag'[s] = ctag[s]
  BY <1>1, <1>2 DEF CacheTypes
<1>4. CacheTypes'
  <2>1. {rg_addr[1]} \in {{l} : l \in Lines}
    BY <1>2
  <2>2. ctag' \in [CSet -> {NoTag} \cup {{l} : l \in Lines}]
    BY <1>1, <1>3, <2>1
  <2> QED
    BY <1>1, <2>2, OffFacts DEF CacheTypes
<1>5. WaitsFor(RestOfLine(rg_wordset_in_cache))'
  <2>1. WaitsFor(RestOfLine(0))
    BY <1>1 DEF CacheInv
  <2> QED
    BY <1>1, <2>1 DEF WaitsFor, RestOfLine
<1>6. Refilled(set, rg_addr[1], rg_wordset_in_cache)'
  <2>1. \A w \in Off : ~(w < 0)
    BY OffFacts
  <2> QED
    BY <1>1, <2>1 DEF Refilled
<1>7. \A s \in CSet, l \in MemLines :
         ctag'[s] = {l} => s = set' \/ Refilled(s, l, Cardinality(Off))'
  BY <1>1, <1>2, <1>3 DEF CacheInv, Refilled
<1>8. rg_addr' \in Fetches /\ ~exc'
  BY <1>1 DEF CacheInv, exc
<1> QED
  BY <1>1, <1>2, <1>3, <1>4, <1>5, <1>6, <1>7, <1>8 DEF CacheInv

LEMMA CacheAfterRereq ==
  ASSUME CacheTypes, CacheInv, rl_rereq, UNCHANGED owed
  PROVE  CacheTypes' /\ CacheInv'
<1>1. /\ rg_state = "REREQ" /\ rg_state' = "PROCESS"
      /\ UNCHANGED <<rg_addr, rg_exc_code, rg_wordset_in_cache, ctag, words>>
  BY DEF rl_rereq
<1>2. CacheTypes'
  BY <1>1 DEF CacheTypes
<1>3. WaitsFor(<< >>)'
  BY <1>1 DEF CacheInv, WaitsFor
<1>4. \A s \in CSet, l \in MemLines : ctag'[s] = {l} => Refilled(s, l, Cardinality(Off))'
  BY <1>1 DEF CacheInv, Refilled
<1>5. rg_addr' \in Fetches /\ ~exc'
  BY <1>1 DEF CacheInv, exc
<1> QED
  BY <1>1, <1>2, <1>3, <1>4, <1>5 DEF CacheInv

LEMMA OwedTail ==
  ASSUME owed \in [Initiators -> [Targets -> Seq(Addr)]], NEW i \in Initiators,
         NEW u \in Targets, owed' = [owed EXCEPT ![i][u] = Tail(@)]
  PROVE  owed'[i][u] = Tail(owed[i][u])
OBVIOUS

LEMMA NextOff ==
  ASSUME NEW c \in Nat, NEW n \in 0 .. c - 1
  PROVE  /\ n # c - 1 => n + 1 \in 0 .. c - 1
         /\ \A w \in 0 .. c - 1 : w < n + 1 => w < n \/ w = n
OBVIOUS

LEMMA CacheAfterRefill ==
  ASSUME BufferInv, ControllerInv, InOrder, AnswersRight, CacheTypes, CacheInv,
         rl_refill_loop, owed' = Gets(1)
  PROVE  CacheTypes' /\ CacheInv'
<1> SUFFICES ASSUME NEW y, y = Head(i_rsps[1]), NEW n, n = rg_wordset_in_cache,
                    NEW l, l = rg_addr[1], NEW z, z = set, NEW u, u = target_id(rg_addr),
                    NEW c, c = Cardinality(Off)
             PROVE  CacheTypes' /\ CacheInv'
  OBVIOUS
<1>1. /\ rg_state = "REFILL_LOOP" /\ i_rsps[1] # << >> /\ i_rsps' = Taken(i_rsps, 1)
      /\ UNCHANGED <<rg_addr, ctag, i_reqs, t_reqs, t_rsps, mc_state, rg_rsp>>
  BY DEF rl_refill_loop, controllerVars
<1>2. /\ y.err => /\ rg_state' = "EXCEPTION" /\ rg_exc_code' = FAULT
                  /\ UNCHANGED <<words, rg_wordset_in_cache>>
      /\ ~y.err => /\ words' = [words EXCEPT ![z][n] = y.word]
                   /\ rg_state' = IF n = c - 1 THEN "REREQ" ELSE rg_state
                   /\ rg_wordset_in_cache' = IF n = c - 1 THEN n ELSE n + 1
                   /\ UNCHANGED rg_exc_code
  BY DEF rl_refill_loop, LastOfLine
<1>3. /\ y \in Rsps /\ y.initiator = 1
      /\ owed[1][target_id(y.at)] # << >> /\ Head(owed[1][target_id(y.at)]) = y.at
  <2>1. 1 \in Initiators
    BY TargetType
  <2> QED
    BY <1>1, <2>1, OrderAfterArrival
<1>4. RspRight(y)
  <2>1. 1 \in Initiators
    BY TargetType
  <2> QED
    BY <1>1, <2>1, RightAfterArrival
<1>5. /\ rg_addr \in Addr /\ z \in CSet /\ l \in Lines /\ n \in Off /\ set' = z
      /\ u \in Targets /\ (u = 0 <=> l \in MemLines) /\ 1 \in Initiators
  BY <1>1, SetFacts, TargetType DEF CacheTypes, set
<1>6. /\ WaitsFor(RestOfLine(n)) /\ ctag[z] = {l} /\ Refilled(z, l, n) /\ rg_addr \in Fetches
  BY <1>1 DEF CacheInv
<1>7. target_id(y.at) = u /\ owed[1][u] = RestOfLine(n)
  <2>1. target_id(y.at) \in Targets
    BY TargetType
  <2> QED
    BY <1>3, <1>5, <1>6, <2>1 DEF WaitsFor
<1>8. ASSUME NEW t \in Targets
      PROVE  owed'[1][t] = IF t = u THEN Tail(RestOfLine(n)) ELSE << >>
  <2>1. owed' = [owed EXCEPT ![1][u] = Tail(@)]
    BY <1>7 DEF Gets
  <2>2. owed \in [Initiators -> [Targets -> Seq(Addr)]]
    BY DEF BufferInv
  <2>3. t # u => owed[1][t] = << >>
    BY <1>6 DEF WaitsFor
  <2>4. CASE t = u
    <3>1. 1 \in Initiators /\ u \in Targets
      BY <1>5
    <3>2. owed'[1][u] = Tail(owed[1][u])
      BY <2>1, <2>2, <3>1, OwedTail
    <3> QED
      BY <1>7, <2>4, <3>2
  <2>5. CASE t # u
    BY <1>5, <2>1, <2>2, <2>3, <2>5
  <2> QED
    BY <2>4, <2>5
<1>9. /\ RestOfLine(n) # << >>
      /\ u # 0 => Tail(RestOfLine(n)) = << >>
      /\ u = 0 => /\ Head(RestOfLine(n)) = <<l, n>>
                  /\ n = c - 1 => Tail(RestOfLine(n)) = << >>
                  /\ n # c - 1 => Tail(RestOfLine(n)) = RestOfLine(n + 1)
  BY <1>5, RestFacts
<1>10. \A s \in CSet, k \in MemLines : s # z /\ ctag[s] = {k} => Refilled(s, k, c)
  BY <1>1 DEF CacheInv
<1>11. rg_addr' \in Fetches
  BY <1>1, <1>6
<1>12. CASE y.err
  <2>1. u # 0
    BY <1>3, <1>4, <1>7, <1>12 DEF RspRight
  <2>2. CacheTypes'
    BY <1>1, <1>2, <1>12 DEF CacheTypes
  <2>3. WaitsFor(<< >>)'
    BY <1>1, <1>8, <1>9, <2>1 DEF WaitsFor
  <2>4. \A s \in CSet, k \in MemLines : ctag'[s] = {k} => Refilled(s, k, Cardinality(Off))'
    <3>1. \A k \in MemLines : ctag[z] # {k}
      BY <1>5, <1>6, <2>1
    <3> QED
      BY <1>1, <1>2, <1>10, <1>12, <3>1 DEF Refilled
  <2>5. target_id(rg_addr') # 0
    BY <1>1, <2>1
  <2> QED
    BY <1>2, <1>11, <1>12, <2>2, <2>3, <2>4, <2>5 DEF CacheInv
<1>13. CASE ~y.err
  <2>1. u = 0 /\ y.op = "LD"
    BY <1>3, <1>4, <1>7, <1>13 DEF RspRight
  <2>2. y.at = <<l, n>>
    BY <1>3, <1>7, <1>9, <2>1
  <2>3. <<l, n>> \in Code => y.word = Contents[l][n]
    <3>1. y.at[1] = l /\ y.at[2] = n
      BY <2>2
    <3> QED
      BY <1>4, <1>13, <2>1, <2>2, <3>1 DEF RspRight
  <2>4. /\ words \in [CSet -> [Off -> Data]] /\ y.word \in Data
        /\ words' = [words EXCEPT ![z][n] = y.word]
    BY <1>2, <1>3, <1>13 DEF CacheTypes, Rsps
  <2>5. /\ words' \in [CSet -> [Off -> Data]] /\ words'[z][n] = y.word
        /\ \A w \in Off : w # n => words'[z][w] = words[z][w]
        /\ \A s \in CSet : s # z => words'[s] = words[s]
    BY <1>5, <2>4
  <2>6. c \in Nat /\ Off = 0 .. c - 1
    BY OffFacts
  <2>7. CacheTypes'
    <3>1. n # c - 1 => n + 1 \in Off
      <4>1. n \in 0 .. c - 1
        BY <1>5, <2>6
      <4> QED
        BY <2>6, <4>1, NextOff
    <3>2. rg_wordset_in_cache' \in Off
      BY <1>2, <1>5, <1>13, <3>1
    <3> QED
      BY <1>1, <2>5, <3>2 DEF CacheTypes
  <2>8. \A w \in Off : w < n + 1 /\ <<l, w>> \in Code => words'[z][w] = Contents[l][w]
    <3>1. \A w \in Off : w < n + 1 => w < n \/ w = n
      <4>1. \A w \in Off : w \in Nat
        BY <2>6
      <4>2. n \in Off
        BY <1>5
      <4> QED
        BY <4>1, <4>2
    <3> QED
      BY <1>6, <2>3, <2>5, <3>1 DEF Refilled
  <2>9. \A s \in CSet, k \in MemLines : s # z /\ ctag'[s] = {k} => Refilled(s, k, c)'
    BY <1>1, <1>10, <2>5 DEF Refilled
  <2>10. ~exc'
    BY <1>1, <1>2, <1>13 DEF exc
  <2>11. CASE n = c - 1
    <3>1. rg_state' = "REREQ"
      BY <1>2, <1>13, <2>11
    <3>2. WaitsFor(<< >>)'
      BY <1>1, <1>8, <1>9, <2>1, <2>11 DEF WaitsFor
    <3>3. Refilled(z, l, c)'
      <4>1. n + 1 = c
        BY <1>5, <2>6, <2>11
      <4> QED
        BY <2>8, <4>1 DEF Refilled
    <3>4. \A s \in CSet, k \in MemLines : ctag'[s] = {k} => Refilled(s, k, c)'
      <4>1. \A k \in MemLines : ctag'[z] = {k} => k = l
        BY <1>1, <1>6
      <4> QED
        BY <2>9, <3>3, <4>1
    <3> QED
      BY <1>11, <2>7, <2>10, <3>1, <3>2, <3>4 DEF CacheInv
  <2>12. CASE n # c - 1
    <3>1. rg_state' = "REFILL_LOOP" /\ rg_wordset_in_cache' = n + 1
      BY <1>1, <1>2, <1>13, <2>12
    <3>2. WaitsFor(RestOfLine(rg_wordset_in_cache))'
      BY <1>1, <1>8, <1>9, <2>1, <2>12, <3>1 DEF WaitsFor, RestOfLine
    <3>3. ctag'[set'] = {rg_addr'[1]}
      BY <1>1, <1>5, <1>6
    <3>4. Refilled(set, rg_addr[1], rg_wordset_in_cache)'
      BY <1>1, <1>5, <2>8, <3>1 DEF Refilled
    <3>5. \A s \in CSet, k \in MemLines :
             ctag'[s] = {k} => s = set' \/ Refilled(s, k, Cardinality(Off))'
      BY <1>5, <2>9
    <3> QED
      BY <1>11, <2>7, <2>10, <3>1, <3>2, <3>3, <3>4, <3>5 DEF CacheInv
  <2> QED
    BY <2>11, <2>12
<1> QED
  BY <1>12, <1>13

LEMMA CacheAfterQuiet ==
  ASSUME CacheTypes, CacheInv, Quiet, rg_state' \in {"RESET", "READY"}, ctag' \in {ctag, [s \in CSet |-> NoTag]},
         UNCHANGED <<rg_addr, rg_exc_code, rg_wordset_in_cache, words, owed>>
  PROVE  CacheTypes' /\ CacheInv'
<1>1. 1 \in Initiators
  BY TargetType
<1>2. rg_state # "REFILL_LOOP"
  <2>1. ASSUME rg_state = "REFILL_LOOP" PROVE FALSE
    <3>1. WaitsFor(RestOfLine(rg_wordset_in_cache))
      BY <2>1 DEF CacheInv
    <3>2. target_id(rg_addr) \in Targets /\ owed[1][target_id(rg_addr)] = << >>
      BY <1>1, TargetType DEF Quiet
    <3>3. RestOfLine(rg_wordset_in_cache) # << >>
      BY RestFacts DEF CacheTypes
    <3> QED
      BY <3>1, <3>2, <3>3 DEF WaitsFor
  <2> QED
    BY <2>1
<1>3. CacheTypes'
  BY DEF CacheTypes
<1>4. WaitsFor(<< >>)'
  BY <1>1 DEF WaitsFor, Quiet
<1>5. \A s \in CSet, l \in MemLines : ctag'[s] = {l} => ctag[s] = {l}
  BY DEF NoTag
<1>6. \A s \in CSet, l \in MemLines : ctag'[s] = {l} => Refilled(s, l, Cardinality(Off))'
  BY <1>2, <1>5 DEF CacheInv, Refilled
<1>7. ~exc'
  BY DEF exc
<1> QED
  BY <1>3, <1>4, <1>6, <1>7 DEF CacheInv

-----------------------------------------------------------------------------
(* A fetch gets the instruction at its address.                            *)
LEMMA FetchInit ==
  ASSUME CodeElsewhere, Init
  PROVE  FetchInv
<1>1. OrderInv
  BY OrderInit
<1>2. /\ mc_state = "READY" /\ rg_cached_addr = 0 /\ f_raw_mem_reqs = << >> /\ rf = Contents
      /\ i_rsps = [i \in Initiators |-> << >>] /\ t_rsps = [t \in Targets |-> << >>]
      /\ owed = [i \in Initiators |-> [t \in Targets |-> << >>]]
      /\ rg_state = "READY" /\ rg_wordset_in_cache = 0
      /\ ctag = [s \in CSet |-> NoTag]
      /\ words = [s \in CSet |-> [w \in Off |-> [k \in Lane |-> Unset]]]
  BY DEF Init, FabricInit, ControllerInit, ICacheInit
<1>3. CacheTypes
  <2>1. words \in [CSet -> [Off -> Data]]
    BY <1>2 DEF Data, ByteWord
  <2> QED
    BY <1>1, <1>2, <2>1, OffFacts DEF CacheTypes, OrderInv
<1>4. MemoryRight
  <2>1. CodeIn(rg_cached_addr, rg_cached_burst)
    BY <1>2, CodeElsewhereFacts
  <2>2. \A l \in MemLines : CodeIn(l, rf[l])
    BY <1>2 DEF CodeIn
  <2>3. DOMAIN f_raw_mem_reqs = {}
    BY <1>2
  <2> QED
    BY <2>1, <2>2, <2>3 DEF MemoryRight
<1>5. AnswersRight
  BY <1>2 DEF AnswersRight, AllRight
<1>6. CacheInv
  <2>1. WaitsFor(<< >>)
    BY <1>2, TargetType DEF WaitsFor
  <2>2. \A s \in CSet, l \in MemLines : ctag[s] # {l}
    BY <1>2 DEF NoTag
  <2>3. ~exc
    BY <1>2 DEF exc
  <2> QED
    BY <1>2, <2>1, <2>2, <2>3 DEF CacheInv
<1> QED
  BY <1>3, <1>4, <1>5, <1>6 DEF FetchInv

LEMMA FetchAfterClient ==
  ASSUME OrderInv, FetchInv, NEW i \in {0, 2}, Client(i)
  PROVE  FetchInv'
<1> PICK r \in DOMAIN ClientRequests :
         /\ owed' = Owes(i, [r EXCEPT !.initiator = i])
         /\ UNCHANGED <<t_rsps, i_rsps, icacheVars, controllerVars, rawVars>>
  BY DEF Client
<1>1. \A t \in Targets : owed'[1][t] = owed[1][t]
  <2>1. owed \in [Initiators -> [Targets -> Seq(Addr)]] /\ 1 \in Initiators
    BY TargetType DEF OrderInv, BufferInv
  <2> QED
    BY <2>1 DEF Owes
<1>2. CacheTypes' /\ CacheInv'
  BY <1>1, CacheKept DEF FetchInv
<1>3. MemoryRight'
  BY MemoryRightKept DEF FetchInv
<1> QED
  BY <1>2, <1>3 DEF FetchInv, AnswersRight

LEMMA FetchAfterArrives ==
  ASSUME OrderInv, FetchInv, NEW i \in {0, 2}, Arrives(i)
  PROVE  FetchInv'
<1>1. /\ i_rsps[i] # << >> /\ i_rsps' = Taken(i_rsps, i) /\ owed' = Gets(i)
      /\ UNCHANGED <<t_rsps, icacheVars, controllerVars, rawVars>>
  BY DEF Arrives
<1>2. \A t \in Targets : owed'[1][t] = owed[1][t]
  <2>1. owed \in [Initiators -> [Targets -> Seq(Addr)]] /\ 1 \in Initiators
    BY TargetType DEF OrderInv, BufferInv
  <2> QED
    BY <1>1, <2>1 DEF Gets
<1>3. CacheTypes' /\ CacheInv'
  BY <1>1, <1>2, CacheKept DEF FetchInv
<1>4. MemoryRight'
  BY <1>1, MemoryRightKept DEF FetchInv
<1>5. AnswersRight'
  <2>1. i \in Initiators
    BY TargetType
  <2> QED
    BY <1>1, <2>1, RightAfterArrival DEF FetchInv, OrderInv
<1> QED
  BY <1>3, <1>4, <1>5 DEF FetchInv

LEMMA FetchAfterCache ==
  ASSUME OrderInv, FetchInv, Cache
  PROVE  FetchInv'
<1>1. BufferInv /\ ControllerInv /\ InOrder /\ CacheTypes /\ CacheInv /\ MemoryRight /\ AnswersRight
  BY DEF OrderInv, FetchInv
<1>2. CASE rl_process_RAM_outs /\ owed' = Owes(1, Burst)
  <2>1. UNCHANGED <<t_rsps, i_rsps, controllerVars, rawVars>>
    BY <1>2 DEF rl_process_RAM_outs
  <2> QED
    BY <1>1, <1>2, <2>1, CacheAfterMiss, MemoryRightKept DEF FetchInv, AnswersRight
<1>3. CASE rl_refill_loop /\ owed' = Gets(1)
  <2>1. /\ UNCHANGED <<t_rsps, controllerVars, rawVars>> /\ 1 \in Initiators
        /\ i_rsps[1] # << >> /\ i_rsps' = Taken(i_rsps, 1)
    BY <1>3, TargetType DEF rl_refill_loop
  <2> QED
    BY <1>1, <1>3, <2>1, CacheAfterRefill, MemoryRightKept, RightAfterArrival DEF FetchInv
<1>4. CASE (rl_start_refill \/ rl_rereq) /\ UNCHANGED owed
  <2>1. UNCHANGED <<fabricVars, controllerVars, rawVars>>
    BY <1>4 DEF rl_start_refill, rl_rereq
  <2>2. UNCHANGED <<t_rsps, i_rsps>>
    BY <2>1 DEF fabricVars
  <2> QED
    BY <1>1, <1>4, <2>1, <2>2, CacheAfterStart, CacheAfterRereq, MemoryRightKept
       DEF FetchInv, AnswersRight
<1> QED
  BY <1>2, <1>3, <1>4 DEF Cache

LEMMA FetchAfterFabrics ==
  ASSUME OrderInv, FetchInv, Fabrics
  PROVE  FetchInv'
<1>1. BufferInv /\ CacheTypes /\ CacheInv /\ MemoryRight /\ AnswersRight
  BY DEF OrderInv, FetchInv
<1>2. Routing /\ UNCHANGED <<owed, icacheVars, controllerVars, rawVars>>
  BY DEF Fabrics
<1>3. CacheTypes' /\ CacheInv' /\ MemoryRight'
  BY <1>1, <1>2, CacheKept, MemoryRightKept
<1>4. ASSUME NEW j \in Initiators, rl_initiators_to_targets(j) PROVE AnswersRight'
  BY <1>1, <1>4 DEF rl_initiators_to_targets, AnswersRight
<1>5. ASSUME NEW u \in Targets, rl_targets_to_initiators(u) PROVE AnswersRight'
  BY <1>1, <1>5, RightAfterReturn
<1>6. CASE rl_process_config_reqs
  <2>1. /\ t_reqs[3] # << >> /\ UNCHANGED i_rsps
        /\ t_rsps' = Put(t_rsps, 3, Response(Head(t_reqs[3]), TRUE, Head(t_reqs[3]).addr,
                                             Head(t_reqs[3]).addr))
    BY <1>6 DEF rl_process_config_reqs
  <2> SUFFICES ASSUME NEW e, e = TRUE PROVE FetchInv'
    OBVIOUS
  <2>2. t_rsps' = Put(t_rsps, 3, Response(Head(t_reqs[3]), e, Head(t_reqs[3]).addr,
                                          Head(t_reqs[3]).addr))
    BY <2>1
  <2>3. RefusesBurst(Head(t_reqs[3]), e) /\ e \in BOOLEAN /\ 3 \in {2, 3}
    BY DEF RefusesBurst
  <2>4. AnswersRight'
    BY <1>1, <2>1, <2>2, <2>3, RightAfterDevice
  <2> QED
    BY <1>3, <2>4 DEF FetchInv
<1> QED
  BY <1>2, <1>3, <1>4, <1>5, <1>6 DEF Routing, FetchInv

LEMMA FetchAfterConsole ==
  ASSUME OrderInv, FetchInv, Console
  PROVE  FetchInv'
<1>1. BufferInv /\ CacheTypes /\ CacheInv /\ MemoryRight /\ AnswersRight
  BY DEF OrderInv, FetchInv
<1>2. UNCHANGED <<owed, icacheVars, controllerVars, rawVars>>
  BY DEF Console
<1>3. CacheTypes' /\ CacheInv' /\ MemoryRight'
  BY <1>1, <1>2, CacheKept, MemoryRightKept
<1>4. CASE uart_process_req
  <2>1. t_reqs[2] # << >> /\ UNCHANGED i_rsps /\ 2 \in {2, 3}
    BY <1>4 DEF uart_process_req
  <2> SUFFICES ASSUME NEW e, e = Unknown(Head(t_reqs[2])) PROVE FetchInv'
    OBVIOUS
  <2>2. /\ e \in BOOLEAN /\ RefusesBurst(Head(t_reqs[2]), e)
        /\ t_rsps' = Put(t_rsps, 2, Answer(Head(t_reqs[2]), e))
    BY <1>4, UARTAnswers
  <2>3. AnswersRight'
    BY <1>1, <2>1, <2>2, RightAfterDevice DEF Answer
  <2> QED
    BY <1>3, <2>3 DEF FetchInv
<1>5. CASE to_console_cnx
  <2>1. UNCHANGED <<t_rsps, i_rsps>>
    BY <1>5 DEF to_console_cnx, fabricVars
  <2>2. AnswersRight'
    BY <1>1, <2>1 DEF AnswersRight
  <2> QED
    BY <1>3, <2>2 DEF FetchInv
<1> QED
  BY <1>4, <1>5 DEF Console

LEMMA FetchAfterController ==
  ASSUME OrderInv, FetchInv, Controller
  PROVE  FetchInv'
<1>1. BufferInv /\ ControllerInv /\ CacheTypes /\ CacheInv /\ MemoryRight /\ AnswersRight
  BY DEF OrderInv, FetchInv
<1>2. Serving /\ UNCHANGED <<owed, icacheVars>>
  BY DEF Controller
<1>3. CacheTypes' /\ CacheInv'
  BY <1>1, <1>2, CacheKept
<1>4. MemoryRight'
  BY <1>1, <1>2, MemoryRightAfterServing
<1>5. AnswersRight'
  <2>1. CASE rl_send_rsp
    BY <1>1, <2>1, RightAfterSend
  <2>2. CASE ~rl_send_rsp
    <3>1. UNCHANGED fabricVars
      BY <1>2, <2>2 DEF Serving, rl_writeback_dirty, rl_miss_clean_req, rl_reload,
                        rl_process_req, rl_process_reqs
    <3>2. UNCHANGED <<t_rsps, i_rsps>>
      BY <3>1 DEF fabricVars
    <3> QED
      BY <1>1, <3>2 DEF AnswersRight
  <2> QED
    BY <2>1, <2>2
<1> QED
  BY <1>3, <1>4, <1>5 DEF FetchInv

LEMMA FetchAfterResetting ==
  ASSUME CodeElsewhere, OrderInv, FetchInv, Resetting
  PROVE  FetchInv'
<1>1. /\ BufferInv /\ ControllerInv /\ ResetInv
      /\ CacheTypes /\ CacheInv /\ MemoryRight /\ AnswersRight
  BY DEF OrderInv, FetchInv
<1>2. CASE ResetFabric
  <2>1. ClearFabric /\ UNCHANGED <<owed, icacheVars, controllerVars, rawVars>>
    BY <1>2 DEF ResetFabric
  <2>2. AnswersRight'
    <3>1. /\ i_rsps' = [i \in Initiators |-> << >>] /\ t_rsps' = [t \in Targets |-> << >>]
      BY <2>1 DEF ClearFabric
    <3> QED
      BY <3>1 DEF AnswersRight, AllRight
  <2> QED
    BY <1>1, <2>1, <2>2, CacheKept, MemoryRightKept DEF FetchInv
<1>3. CASE ResetController
  <2>1. rl_reset /\ UNCHANGED <<owed, icacheVars>>
    BY <1>3 DEF ResetController
  <2>2. AnswersRight'
    <3>1. t_rsps' = [t_rsps EXCEPT ![0] = << >>] /\ UNCHANGED i_rsps /\ DOMAIN t_rsps = Targets
      BY <1>1, <2>1, Doms DEF rl_reset, BufferInv, Holds
    <3>2. \A t \in Targets : t_rsps'[t] = << >> \/ t_rsps'[t] = t_rsps[t]
      BY <3>1
    <3>3. AllRight(<< >>)
      BY DEF AllRight
    <3> QED
      BY <1>1, <3>1, <3>2, <3>3 DEF AnswersRight
  <2> QED
    BY <1>1, <2>1, <2>2, CacheKept, MemoryRightAfterReset DEF FetchInv
<1>4. CASE ResetICache
  <2>1. /\ Answers("icache") /\ rg_state' = "READY" /\ ctag' = [s \in CSet |-> NoTag]
        /\ UNCHANGED <<rg_addr, rg_exc_code, rg_wordset_in_cache, words,
                       owed, controllerVars, rawVars, fabricVars>>
    BY <1>4 DEF ResetICache, rl_reset_sets
  <2>2. Quiet
    BY <1>1, <2>1 DEF Answers, ResetInv
  <2>3. CacheTypes' /\ CacheInv'
    BY <1>1, <2>1, <2>2, CacheAfterQuiet
  <2>4. UNCHANGED <<t_rsps, i_rsps>>
    BY <2>1 DEF fabricVars
  <2> QED
    BY <1>1, <2>1, <2>3, <2>4, MemoryRightKept DEF FetchInv, AnswersRight
<1>5. CASE rl_reset_complete
  <2>1. UNCHANGED <<owed, icacheVars, controllerVars, rawVars, fabricVars>>
    BY <1>5 DEF rl_reset_complete
  <2>2. UNCHANGED <<t_rsps, i_rsps>>
    BY <2>1 DEF fabricVars
  <2> QED
    BY <1>1, <2>1, <2>2, CacheKept, MemoryRightKept DEF FetchInv, AnswersRight
<1> QED
  BY <1>2, <1>3, <1>4, <1>5 DEF Resetting

LEMMA FetchStep ==
  ASSUME NoRedirects, CodeElsewhere, OrderInv, FetchInv, [Next]_vars
  PROVE  FetchInv'
<1>1. CacheTypes /\ CacheInv /\ MemoryRight /\ AnswersRight
  BY DEF FetchInv
<1>2. CASE Fetch
  <2>1. UNCHANGED <<controllerVars, rawVars, fabricVars>>
    BY <1>2 DEF Fetch, req
  <2>2. UNCHANGED <<t_rsps, i_rsps>>
    BY <2>1 DEF fabricVars
  <2> QED
    BY <1>1, <1>2, <2>1, <2>2, CacheAfterFetch, MemoryRightKept DEF FetchInv, AnswersRight
<1>3. CASE rl_reset_start
  <2>1. /\ Quiet /\ rg_state' = "RESET"
        /\ UNCHANGED <<rg_addr, rg_exc_code, rg_wordset_in_cache, ctag, words, owed,
                       controllerVars, rawVars, fabricVars>>
    BY <1>3 DEF rl_reset_start, rl_start_reset
  <2>2. UNCHANGED <<t_rsps, i_rsps>>
    BY <2>1 DEF fabricVars
  <2> QED
    BY <1>1, <2>1, <2>2, CacheAfterQuiet, MemoryRightKept DEF FetchInv, AnswersRight
<1>4. CASE UNCHANGED vars
  <2>1. UNCHANGED <<owed, icacheVars, controllerVars, rawVars, fabricVars>>
    BY <1>4 DEF vars
  <2>2. UNCHANGED <<t_rsps, i_rsps>>
    BY <2>1 DEF fabricVars
  <2> QED
    BY <1>1, <2>1, <2>2, CacheKept, MemoryRightKept DEF FetchInv, AnswersRight
<1> QED
  BY <1>2, <1>3, <1>4, FetchAfterClient, FetchAfterArrives, FetchAfterCache, FetchAfterFabrics,
     FetchAfterController, FetchAfterConsole, FetchAfterResetting DEF Next

LEMMA FetchMeans == CacheTypes /\ CacheInv => FetchRight
<1> SUFFICES ASSUME CacheTypes, CacheInv, valid
             PROVE  /\ exc /\ rg_exc_code = FAULT => target_id(rg_addr) # 0
                    /\ ~exc /\ target_id(rg_addr) = 0 => instr = Contents[rg_addr[1]][rg_addr[2]]
  BY DEF FetchRight
<1>1. exc /\ rg_exc_code = FAULT => target_id(rg_addr) # 0
  BY DEF CacheInv
<1>2. ASSUME ~exc, target_id(rg_addr) = 0 PROVE instr = Contents[rg_addr[1]][rg_addr[2]]
  <2>1. rg_state = "PROCESS" /\ ctag[set] = {rg_addr[1]}
    BY <1>2 DEF valid, Hit
  <2>2. /\ set \in CSet /\ rg_addr[1] \in MemLines /\ rg_addr[2] \in Off
        /\ rg_addr = <<rg_addr[1], rg_addr[2]>>
    BY <1>2, SetFacts, TargetType DEF CacheTypes
  <2>3. rg_addr \in Code
    BY <1>2, <2>1 DEF CacheInv, Code
  <2>4. Refilled(set, rg_addr[1], Cardinality(Off))
    BY <2>1, <2>2 DEF CacheInv
  <2>5. rg_addr[2] < Cardinality(Off)
    <3>1. Cardinality(Off) \in Nat /\ rg_addr[2] \in 0 .. Cardinality(Off) - 1
      BY <2>2, OffFacts
    <3> QED
      BY <3>1
  <2> QED
    BY <2>2, <2>3, <2>4, <2>5 DEF Refilled, instr
<1> QED
  BY <1>1, <1>2

(* The processor gets the instruction at the address it asked for, or an   *)
(* exception for the reason there is.  The processor does not replace a    *)
(* fetch during a refill (CPU.tla), and no code is in the line at address  *)
(* 0, which mem_controller declares cached after a reset.                  *)
THEOREM FetchesRight ==
  ASSUME NoRedirects, CodeElsewhere
  PROVE  Spec => []FetchRight
<1> DEFINE Inv == OrderInv /\ FetchInv
<1>1. Init => Inv
  BY OrderInit, FetchInit
<1>2. Inv /\ [Next]_vars => Inv'
  BY OrderStep, FetchStep
<1>3. Inv => FetchRight
  BY FetchMeans DEF FetchInv
<1> QED
  BY <1>1, <1>2, <1>3, PTL DEF Spec
=============================================================================
