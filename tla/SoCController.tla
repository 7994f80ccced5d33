--------------------------- MODULE SoCController ----------------------------
(***************************************************************************)
(* mkSoC_Controller.v: a state machine that turns a command of the host    *)
(* into requests on the fabric and sends back one response.  Two FIFOs at  *)
(* its side, two at the host's, and mkTop_Sim_Standalone.v moves what is   *)
(* in one to the other at each edge of the clock.                          *)
(***************************************************************************)
EXTENDS Integers, Sequences

CONSTANT Slots      \* slots of a FIFO (2)

ASSUME SlotsAssumption == Slots \in Nat \ {0}

VARIABLES
    fControlReq, fControlRsp,           \* at the host
    f_control_reqs, f_control_rsps,     \* at the controller
    f_fabric_reqs, f_fabric_rsps,
    step,                               \* how far the command at the head has come
    rg_word, rg_word_h,
    f_reset                             \* f_reset_reqs and f_reset_rsps

controlVars == <<f_control_reqs, f_control_rsps, f_fabric_reqs, f_fabric_rsps, step, rg_word,
                 rg_word_h, f_reset>>

-----------------------------------------------------------------------------
(* The steps of each command.  A register is named by the end of its       *)
(* address: C0900xxx is the processor, C00002xx the controller of the      *)
(* memory, C00001xx the fabric, C00000xx the UART.                         *)
Read(at) == << [do |-> "request", op |-> "read", at |-> at], [do |-> "word"] >>
Write(at) == << [do |-> "request", op |-> "write", at |-> at], [do |-> "acknowledged"] >>
Reply == << [do |-> "reply"] >>
Done == << [do |-> "done"] >>

(* Mutants: the low word is the cycle counter's; no response is sent.      *)
MutCounter(high, low) ==
    Read(high) \o << [do |-> "high"] >> \o Read("CPU.A2") \o << [do |-> "reply2"] >>
MutCounterNoReply(high, low) == Read(high) \o << [do |-> "high"] >> \o Read(low)

(* Two words, high first.                                                  *)
Counter(high, low) == Read(high) \o << [do |-> "high"] >> \o Read(low) \o << [do |-> "reply2"] >>

Steps == [
    reset     |-> << [do |-> "ask_reset"], [do |-> "await_reset"] >> \o Done,
    cycle     |-> Counter("CPU.A3", "CPU.A2") \o Done,
    time      |-> Counter("CPU.A5", "CPU.A2") \o Done,
    instret   |-> Counter("CPU.A7", "CPU.A6") \o Done,
    read      |-> Read("memory") \o Reply \o Done,
    write     |-> Write("memory") \o Done,
    read_gpr  |-> Read("CPU.80") \o Reply \o Done,
    write_gpr |-> Write("CPU.80") \o Done,
    read_pc   |-> Read("CPU.A0") \o Reply \o Done,
    write_pc  |-> Write("CPU.A0") \o Done,
    run       |-> Write("CPU.A1") \o Read("CPU.A1") \o Reply \o << [do |-> "note"] >> \o Done,
    logdelay  |-> << [do |-> "note"] >> \o Done,
    verbosity |-> << [do |-> "note"] >> \o Write("memory.201") \o Write("CPU.01")
                  \o Write("fabric.101") \o Write("UART.7F") \o Done,
    other     |-> << [do |-> "note"] >> \o Done ]

-----------------------------------------------------------------------------
(* What moves between the two sides at the next edge, and what stays.      *)
MovingReq == IF fControlReq # << >> /\ Len(f_control_reqs) < Slots
             THEN <<Head(fControlReq)>> ELSE << >>
MovingRsp == IF f_control_rsps # << >> /\ Len(fControlRsp) < Slots
             THEN <<Head(f_control_rsps)>> ELSE << >>

Without(fifo, moving) == SubSeq(fifo, Len(moving) + 1, Len(fifo))

(* One edge of the controller: the step of the command at the head.  It    *)
(* powers up in a state in which it throws that command away.              *)
PowerUp == 42
Command == Head(f_control_reqs)
Now(do) == /\ f_control_reqs # << >>
           /\ do = IF step = PowerUp THEN "done" ELSE Steps[Command.op][step].do

Advance == step' = step + 1 /\ f_control_reqs' = f_control_reqs \o MovingReq
Silent == f_control_rsps' = Without(f_control_rsps, MovingRsp)

Request == [op |-> Steps[Command.op][step].op, at |-> Steps[Command.op][step].at,
            addr |-> Command.addr, word |-> Command.word]

fabric_request ==
    /\ Now("request") /\ Len(f_fabric_reqs) < Slots
    /\ f_fabric_reqs' = Append(f_fabric_reqs, Request)
    /\ Advance /\ Silent /\ UNCHANGED <<f_fabric_rsps, rg_word, rg_word_h, f_reset>>

(* The word of a read is kept, the answer to a write only awaited.  (An    *)
(* answer that is an error ends the simulation; this host causes none.)    *)
fabric_response ==
    /\ Now("word") \/ Now("acknowledged")
    /\ f_fabric_rsps # << >> /\ f_fabric_rsps' = Tail(f_fabric_rsps)
    /\ rg_word' = IF Now("word") THEN Head(f_fabric_rsps) ELSE rg_word
    /\ Advance /\ Silent /\ UNCHANGED <<f_fabric_reqs, rg_word_h, f_reset>>

keep_high ==
    /\ Now("high") /\ rg_word_h' = rg_word
    /\ Advance /\ Silent /\ UNCHANGED <<f_fabric_reqs, f_fabric_rsps, rg_word, f_reset>>

(* Values are two digits to the base 2; a response names its command.      *)
reply ==
    /\ Now("reply") \/ Now("reply2")
    /\ Len(f_control_rsps) < Slots
    /\ LET n == IF Now("reply") THEN rg_word ELSE 2 * rg_word_h + rg_word IN
       f_control_rsps' = Without(f_control_rsps, MovingRsp) \o << [op |-> Command.op, n |-> n] >>
    /\ Advance /\ UNCHANGED <<f_fabric_reqs, f_fabric_rsps, rg_word, rg_word_h, f_reset>>

(* The SoC is reset; both FIFOs have room, there is one reset at a time.   *)
ask_reset ==
    /\ Now("ask_reset") /\ f_reset = "none" /\ f_reset' = "asked"
    /\ Advance /\ Silent /\ UNCHANGED <<f_fabric_reqs, f_fabric_rsps, rg_word, rg_word_h>>

await_reset ==
    /\ Now("await_reset") /\ f_reset = "answered" /\ f_reset' = "none"
    /\ Advance /\ Silent /\ UNCHANGED <<f_fabric_reqs, f_fabric_rsps, rg_word, rg_word_h>>

(* A register that only says what is displayed.                            *)
note == /\ Now("note")
        /\ Advance /\ Silent
        /\ UNCHANGED <<f_fabric_reqs, f_fabric_rsps, rg_word, rg_word_h, f_reset>>

done == /\ Now("done") /\ step' = 1
        /\ f_control_reqs' = Tail(f_control_reqs) \o MovingReq
        /\ Silent /\ UNCHANGED <<f_fabric_reqs, f_fabric_rsps, rg_word, rg_word_h, f_reset>>

Fires == fabric_request \/ fabric_response \/ keep_high \/ reply \/ ask_reset \/ await_reset
         \/ note \/ done

(* No rule can fire: nothing to do, no answer yet, or no room.             *)
Blocked ==
    \/ f_control_reqs = << >>
    \/ Now("request") /\ Len(f_fabric_reqs) = Slots
    \/ (Now("word") \/ Now("acknowledged")) /\ f_fabric_rsps = << >>
    \/ (Now("reply") \/ Now("reply2")) /\ Len(f_control_rsps) = Slots
    \/ Now("ask_reset") /\ f_reset # "none"
    \/ Now("await_reset") /\ f_reset # "answered"

ControllerEdge ==
    \/ Fires
    \/ /\ Blocked /\ f_control_reqs' = f_control_reqs \o MovingReq /\ Silent
       /\ UNCHANGED <<f_fabric_reqs, f_fabric_rsps, step, rg_word, rg_word_h, f_reset>>

(* An edge with reset, and power-up.                                       *)
ControllerReset ==
    /\ f_control_reqs' = << >> /\ f_control_rsps' = << >>
    /\ f_fabric_reqs' = << >> /\ f_fabric_rsps' = << >> /\ f_reset' = "none"
    /\ step' = 1 /\ UNCHANGED <<rg_word, rg_word_h>>

ControllerInit ==
    /\ fControlReq = << >> /\ fControlRsp = << >>
    /\ f_control_reqs = << >> /\ f_control_rsps = << >>
    /\ f_fabric_reqs = << >> /\ f_fabric_rsps = << >> /\ f_reset = "none"
    /\ step = PowerUp /\ rg_word = 0 /\ rg_word_h = 0
=============================================================================
