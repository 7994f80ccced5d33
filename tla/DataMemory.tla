----------------------------- MODULE DataMemory -----------------------------
(***************************************************************************)
(* What the data cache promises the processor: a memory without a cache.   *)
(* One request is open at a time; a store changes the memory once, between *)
(* its request and its answer; a load is answered with what the memory     *)
(* holds at the answer.  A word is a function from byte lanes to values,   *)
(* and a request concerns some of the lanes.                               *)
(***************************************************************************)
CONSTANTS Addr, Lane, Value,
          Backed,           \* the addresses with memory or a device
          PreciseFaults     \* does every load outside Backed fault, and every
                            \* fault tell its cause?

VARIABLES M,       \* the memory
          open,    \* the request being served, or NoRequest
          stored,  \* the open store has changed the memory
          answer   \* the last answer

memVars == <<M, open, stored, answer>>

Requests == [op : {"LD", "ST"}, addr : Addr, lanes : (SUBSET Lane) \ {{}},
             word : [Lane -> Value], misaligned : BOOLEAN]
NoRequest == [op |-> "none"]

Fault(code) == [exc |-> TRUE, code |-> code, word |-> << >>]
Word(w) == [exc |-> FALSE, code |-> 0, word |-> w]

LOAD_MISALIGNED == 4
LOAD_FAULT == 5
STORE_MISALIGNED == 6

Overlay(old, lanes, new) == [l \in Lane |-> IF l \in lanes THEN new[l] ELSE old[l]]

Init == M \in [Backed -> [Lane -> Value]] /\ open = NoRequest /\ ~stored

Ask(r) ==
    /\ open = NoRequest /\ open' = r
    /\ UNCHANGED <<M, stored, answer>>

(* A store outside Backed is lost without a trace.                         *)
Store ==
    /\ open.op = "ST" /\ ~open.misaligned /\ ~stored
    /\ stored' = TRUE
    /\ M' = IF open.addr \in Backed
            THEN [M EXCEPT ![open.addr] = Overlay(@, open.lanes, open.word)] ELSE M
    /\ UNCHANGED <<open, answer>>

AnswerStore ==
    /\ open.op = "ST" /\ stored
    /\ answer' = Word(<< >>)

AnswerLoad ==
    /\ open.op = "LD" /\ ~open.misaligned
    /\ \/ open.addr \in Backed /\ answer' = Word([l \in open.lanes |-> M[open.addr][l]])
       \/ open.addr \notin Backed /\ answer' = Fault(LOAD_FAULT)
       \/ /\ open.addr \notin Backed /\ ~PreciseFaults
          /\ answer' \in {Word(w) : w \in [open.lanes -> Value]}

AnswerMisaligned ==
    /\ open # NoRequest /\ open.misaligned
    /\ \/ answer' = Fault(IF open.op = "LD" THEN LOAD_MISALIGNED ELSE STORE_MISALIGNED)
       \/ ~PreciseFaults /\ answer' \in {Fault(LOAD_MISALIGNED), Fault(STORE_MISALIGNED)}

Answer == /\ AnswerStore \/ AnswerLoad \/ AnswerMisaligned
          /\ open' = NoRequest /\ stored' = FALSE
          /\ UNCHANGED M

Next == (\E r \in Requests : Ask(r)) \/ Store \/ Answer

Spec == Init /\ [][Next]_memVars
=============================================================================
