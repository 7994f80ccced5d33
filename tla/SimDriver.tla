----------------------------- MODULE SimDriver ------------------------------
(***************************************************************************)
(* A simulation: sim_main.cpp makes the clock and the reset; the driver    *)
(* (mkSim_Driver.v) loads an ELF file with the functions of MemModel.tla,  *)
(* writes it to the memory of the SoC word by word, starts the processor,  *)
(* waits until it stops and ends the simulation.  The controller of the    *)
(* SoC (SoCController.tla) carries the requests out; the UART (mkUART.v)   *)
(* has the other ends of the console.                                      *)
(***************************************************************************)
EXTENDS MemModel, HostIO, SoCController

CONSTANTS Envs,       \* environments: variables, files, what is typed
          MemSize     \* bytes of the host's memory (2 MB)

(* What is typed and what a program writes are bytes.                      *)
ASSUME SimDriverAssumption ==
    /\ MemSize \in Nat /\ MemSize % 8 = 0
    /\ \A e \in Envs : e.stdin \in Seq(0 .. 255) /\ e.output \in Seq(0 .. 255)

VARIABLES
    env,
    main_time, CLK, RST_N, gotFinish,   \* sim_main.cpp
    exited,                             \* a C function has called exit(1)
    state, running, start_reg,          \* state_mkFSMstate and its start
    p_state,                            \* rg_p_state: the Mem_Model
    rg,                                 \* the driver's other registers
    f_from_console, f_to_console,
    stdin, stdout,
    uart,                               \* its two FIFOs, and bit 7 of rg_lcr
    soc                                 \* the rest of the SoC, see below

clockVars == <<env, main_time, CLK, RST_N, gotFinish>>
fsmVars == <<state, running, start_reg, p_state, rg, exited>>
consoleVars == <<f_from_console, f_to_console, stdin, stdout>>
driverVars == <<clockVars, fsmVars, fControlReq, fControlRsp, consoleVars>>
vars == <<driverVars, controlVars, uart, soc>>

-----------------------------------------------------------------------------
(* The driver's state machine, one rule per edge.                          *)
EBREAK == [i \in 1 .. 4 |-> <<0, i>>]
Req(op) == [op |-> op, addr |-> 0, word |-> << >>]
ReqWrite(a, w) == [op |-> "write", addr |-> a, word |-> w]

HasSlot == Len(fControlReq) < Slots
NoRequest == fControlReq' = Without(fControlReq, MovingReq)
NoAnswer == fControlRsp' = fControlRsp \o MovingRsp
Send(r) == HasSlot /\ fControlReq' = Append(Without(fControlReq, MovingReq), r) /\ NoAnswer
Quiet == NoRequest /\ NoAnswer
Goto(t) == state' = t

rl_auto_start ==
    /\ state = 0 /\ ~start_reg /\ ~running
    /\ running' = TRUE /\ start_reg' = TRUE
    /\ Quiet /\ UNCHANGED <<state, p_state, rg, exited>>

action_l172c10 ==
    /\ state = 0 /\ start_reg
    /\ start_reg' = FALSE /\ Send(Req("reset")) /\ Goto(1)
    /\ UNCHANGED <<running, p_state, rg, exited>>

action_l178c10 ==
    /\ state = 1 /\ HasSlot /\ Goto(2)
    /\ IF c_getenv_u64(env.SIM_LOGDELAY) # 0 THEN Send(Req("logdelay")) ELSE Quiet
    /\ UNCHANGED <<running, start_reg, p_state, rg, exited>>

action_l201c10 ==
    /\ state = 2 /\ Goto(3)
    /\ p_state' = c_mem_init(0, MemSize)
    /\ Quiet /\ UNCHANGED <<running, start_reg, rg, exited>>

action_l207c10 ==
    /\ state = 3
    /\ \E r \in {c_mem_load_elf2(p_state, 32, env)} :
       IF r.model = EXIT THEN exited' = TRUE /\ UNCHANGED <<state, p_state, rg>>
       ELSE /\ p_state' = r.model /\ rg' = [rg EXCEPT !.elf_file_loaded = r.loaded # 0]
            /\ Goto(4) /\ UNCHANGED exited
    /\ Quiet /\ UNCHANGED <<running, start_reg>>

action_l216c13 ==
    /\ state = 4 /\ rg.elf_file_loaded /\ Goto(5)
    /\ rg' = [rg EXCEPT !.min_addr = c_mem_get_min_addr(p_state),
                        !.max_addr = c_mem_get_max_addr(p_state),
                        !.exit_pc = c_mem_get_exit_pc(p_state)]
    /\ Quiet /\ UNCHANGED <<running, start_reg, p_state, exited>>

action_l227c32 == state = 5 /\ Goto(6)
                    /\ Quiet /\ UNCHANGED <<running, start_reg, p_state, rg, exited>>

action_f_init_l232c13 ==
    /\ state = 6 /\ Goto(7)
    /\ rg' = [rg EXCEPT !.addr = rg.min_addr]
    /\ Quiet /\ UNCHANGED <<running, start_reg, p_state, exited>>

InLoop == state \in {7, 9}
MoreWords == rg.addr < rg.max_addr

(* One word, or a breakpoint in the place of the exit symbol.              *)
action_l232c89 ==
    /\ InLoop /\ MoreWords /\ HasSlot
    /\ LET w == c_mem_read32(p_state, rg.addr) IN
       IF w = EXIT THEN exited' = TRUE /\ Quiet /\ UNCHANGED state
       ELSE /\ Send(ReqWrite(rg.addr, IF rg.addr = rg.exit_pc THEN EBREAK ELSE w))
            /\ Goto(8) /\ UNCHANGED exited
    /\ UNCHANGED <<running, start_reg, p_state, rg>>

action_f_update_l232c13 ==
    /\ state = 8 /\ Goto(9)
    /\ rg' = [rg EXCEPT !.addr = (@ + 4) % AddrMod]
    /\ Quiet /\ UNCHANGED <<running, start_reg, p_state, exited>>

action_l244c16 ==
    /\ InLoop /\ ~MoreWords /\ Goto(10)
    /\ Quiet /\ UNCHANGED <<running, start_reg, p_state, rg, exited>>

Verbosity == (state = 4 /\ ~rg.elf_file_loaded) \/ state = 10

action_l248c10 ==
    /\ Verbosity /\ Send(Req("verbosity")) /\ Goto(11)
    /\ UNCHANGED <<running, start_reg, p_state, rg, exited>>

(* Five requests, each followed by a wait for its response: l104 to l155.  *)
Asked == [s \in {11, 13, 15, 17, 19} |->
            IF s = 15 THEN "run" ELSE IF s \in {13, 17} THEN "cycle" ELSE "instret"]

ask == /\ state \in DOMAIN Asked
       /\ Send(Req(Asked[state])) /\ Goto(state + 1)
       /\ UNCHANGED <<running, start_reg, p_state, rg, exited>>

(* Mutant: the driver does not wait for the processor to stop.             *)
MutAwaitNoStop ==
    /\ state - 1 \in DOMAIN Asked /\ (fControlRsp # << >> \/ state = 16) /\ Goto(state + 1)
    /\ fControlRsp' = (IF state = 16 THEN fControlRsp ELSE Tail(fControlRsp)) \o MovingRsp
    /\ NoRequest /\ UNCHANGED <<running, start_reg, p_state, rg, exited>>

await == /\ state - 1 \in DOMAIN Asked /\ fControlRsp # << >> /\ Goto(state + 1)
         /\ fControlRsp' = Tail(fControlRsp) \o MovingRsp
         /\ rg' = CASE state = 12 -> [rg EXCEPT !.start_instret = Head(fControlRsp).n]
                    [] state = 20 -> [rg EXCEPT !.end_instret = Head(fControlRsp).n]
                    [] OTHER -> rg
         /\ NoRequest /\ UNCHANGED <<running, start_reg, p_state, exited>>

(* The CPI is printed unless it would be a division by zero.               *)
NoneRetired == rg.end_instret = rg.start_instret

action_l160c53 ==
    /\ state = 21 /\ ~NoneRetired /\ Goto(22)
    /\ Quiet /\ UNCHANGED <<running, start_reg, p_state, rg, exited>>

ShutDown == (state = 21 /\ NoneRetired) \/ state = 22

action_l261c10 ==
    /\ ShutDown /\ Send(Req("shutdown")) /\ Goto(23)
    /\ UNCHANGED <<running, start_reg, p_state, rg, exited>>

(* No rule can fire: a FIFO is full or empty, or the end is reached.       *)
NeedsSlot == \/ state \in {1} \cup DOMAIN Asked \/ Verbosity \/ ShutDown
             \/ InLoop /\ MoreWords
Stalled == \/ NeedsSlot /\ ~HasSlot
           \/ state - 1 \in DOMAIN Asked /\ fControlRsp = << >>
           \/ state = 23

FSM == \/ rl_auto_start \/ action_l172c10 \/ action_l178c10 \/ action_l201c10
       \/ action_l207c10 \/ action_l216c13 \/ action_l227c32 \/ action_f_init_l232c13
       \/ action_l232c89 \/ action_f_update_l232c13 \/ action_l244c16 \/ action_l248c10
       \/ ask \/ await \/ action_l160c53 \/ action_l261c10
       \/ Stalled /\ Quiet /\ UNCHANGED fsmVars

(* The console, in every edge: a character from the UART to the driver and *)
(* on to the terminal, and one the other way, where it stays: nothing ever *)
(* takes a character out of the UART's FIFO.                               *)
MovingOut == IF uart.tx # << >> /\ Len(f_to_console) < Slots THEN <<Head(uart.tx)>> ELSE << >>
MovingIn == IF f_from_console # << >> /\ Len(uart.rx) < Slots
            THEN <<Head(f_from_console)>> ELSE << >>

rl_to_console ==
    IF f_to_console = << >> THEN f_to_console' = MovingOut /\ UNCHANGED stdout
    ELSE /\ stdout' = stdout \o c_putchar(Head(f_to_console))
         /\ f_to_console' = Tail(f_to_console) \o MovingOut

(* A NUL says that there was nothing to read.                              *)
Received(c) == IF c = 0 THEN << >> ELSE <<c>>
Typing(c) == f_from_console' = Without(f_from_console, MovingIn) \o Received(c)

(* Mutant: the console is read when there is no room.                      *)
MutRlFromConsole ==
    \E r \in c_trygetchar(stdin, env.stdin_ends) :
        stdin' = r[2] /\ Typing(IF Len(f_from_console) < Slots THEN r[1] ELSE 0)

rl_from_console ==
    IF Len(f_from_console) = Slots THEN Typing(0) /\ UNCHANGED stdin
    ELSE \E r \in c_trygetchar(stdin, env.stdin_ends) : stdin' = r[2] /\ Typing(r[1])

console_cnx == uart' = [uart EXCEPT !.tx = Without(@, MovingOut), !.rx = @ \o MovingIn]

ConsoleEdge == rl_to_console /\ rl_from_console /\ console_cnx

(* An edge with reset: the state machine and the FIFOs start anew.         *)
ResetEdge ==
    /\ state' = 0 /\ running' = FALSE /\ start_reg' = FALSE /\ p_state' = NULL
    /\ fControlReq' = << >> /\ fControlRsp' = << >>
    /\ f_from_console' = << >> /\ f_to_console' = << >>
    /\ uart' = [uart EXCEPT !.rx = << >>, !.tx = << >>]
    /\ ControllerReset
    /\ UNCHANGED <<rg, exited, stdin, stdout>>

-----------------------------------------------------------------------------
(* sim_main.cpp: the loop of main.  Its iterations at other times change   *)
(* neither clock nor reset and are left out; the time is kept below        *)
(* LastTime, preserving its last digit and whether it is above 10.         *)
Times == {0, 1, 6, 11, 16}
LastTime == 16
Later == IF main_time = LastTime THEN 11
         ELSE CHOOSE t \in Times : t > main_time /\ \A u \in Times : u > main_time => t <= u

(* Mutant: the reset ends before the first edge of the clock.              *)
MutDeassertedEarly == RST_N' = IF main_time > 0 THEN 1 ELSE RST_N

Deasserted == RST_N' = IF main_time > 10 THEN 1 ELSE RST_N

(* $finish is called between two edges, by the rule that fires in state 23.*)
auto_finish == CLK = 1 /\ RST_N = 1 /\ state = 23 /\ running

main == /\ ~gotFinish /\ ~exited
        /\ Deasserted
        /\ CLK' = CASE main_time % 10 = 1 -> 1 [] main_time % 10 = 6 -> 0 [] OTHER -> CLK
        /\ main_time' = Later
        /\ gotFinish' = (CLK' = 0 /\ auto_finish)
        /\ IF CLK = 0 /\ CLK' = 1
           THEN IF RST_N' = 0 THEN ResetEdge ELSE FSM /\ ConsoleEdge /\ ControllerEdge
           ELSE UNCHANGED <<fsmVars, fControlReq, fControlRsp, consoleVars, controlVars, uart>>
        /\ UNCHANGED <<env, soc>>

-----------------------------------------------------------------------------
(* The rest of the SoC takes its time: the targets of the controller's     *)
(* requests on the fabric, and the processor with its program.             *)
Simulating == RST_N = 1 /\ ~gotFinish /\ ~exited

SoCResets ==
    /\ Simulating /\ f_reset = "asked" /\ f_reset' = "answered"
    /\ soc' = [soc EXCEPT !.up = TRUE]
    /\ UNCHANGED <<driverVars, f_control_reqs, f_control_rsps, f_fabric_reqs, f_fabric_rsps,
                   step, rg_word, rg_word_h, uart>>

(* A target answers: the memory; the registers of the processor, of which  *)
(* the one that says why it has stopped is not to be had before it has;    *)
(* registers for what is displayed.  Of the cycle counter only the CPI     *)
(* printed at the end depends, and its value is left out.                  *)
Value(at) == CASE at = "CPU.A7" -> soc.instret \div 2
               [] at = "CPU.A6" -> soc.instret % 2
               [] OTHER -> 0

TargetAnswers ==
    /\ Simulating /\ f_fabric_reqs # << >> /\ Len(f_fabric_rsps) < Slots
    /\ LET r == Head(f_fabric_reqs) IN
       /\ ~(r.op = "read" /\ r.at = "CPU.A1" /\ soc.runs)
       /\ f_fabric_rsps' = Append(f_fabric_rsps, Value(r.at))
       /\ soc' = [soc EXCEPT !.runs = @ \/ (r.op = "write" /\ r.at = "CPU.A1"),
                             !.mem = IF r.op = "write" /\ r.at = "memory"
                                     THEN Overwritten(@, r.addr, r.word) ELSE @]
    /\ f_fabric_reqs' = Tail(f_fabric_reqs)
    /\ UNCHANGED <<driverVars, f_control_reqs, f_control_rsps, step, rg_word, rg_word_h, f_reset,
                   uart>>

(* The program has run into the breakpoint.                                *)
ProgramStops ==
    /\ Simulating /\ soc.runs
    /\ \E n \in 0 .. 3 : soc' = [soc EXCEPT !.runs = FALSE, !.instret = n]
    /\ UNCHANGED <<driverVars, controlVars, uart>>

(* The program writes a register of the UART: first rg_lcr, whose bit 7 is *)
(* set at power-up, then characters, each as soon as there is room.        *)
ns16550_init ==
    /\ Simulating /\ soc.runs /\ uart.dlab /\ uart' = [uart EXCEPT !.dlab = FALSE]
    /\ UNCHANGED <<driverVars, controlVars, soc>>

ns16550_txchar ==
    /\ Simulating /\ soc.runs /\ ~uart.dlab /\ soc.sent < Len(env.output)
    /\ Len(uart.tx) < Slots
    /\ uart' = [uart EXCEPT !.tx = Append(@, env.output[soc.sent + 1])]
    /\ soc' = [soc EXCEPT !.sent = @ + 1]
    /\ UNCHANGED <<driverVars, controlVars>>

-----------------------------------------------------------------------------
(* Power-up leaves the state machine in state 10, past the loading.        *)
Init ==
    /\ env \in Envs
    /\ main_time = 0 /\ CLK = 0 /\ RST_N = 0 /\ gotFinish = FALSE /\ exited = FALSE
    /\ state = 10 /\ running = FALSE /\ start_reg = FALSE
    /\ p_state = NULL
    /\ rg = [elf_file_loaded |-> FALSE, min_addr |-> 0, max_addr |-> 0, exit_pc |-> 0,
             addr |-> 0, start_instret |-> 0, end_instret |-> 0]
    /\ ControllerInit
    /\ f_from_console = << >> /\ f_to_console = << >>
    /\ uart = [rx |-> << >>, tx |-> << >>, dlab |-> TRUE]
    /\ stdin = env.stdin /\ stdout = << >>
    /\ soc = [up |-> FALSE, runs |-> FALSE, mem |-> [a \in 0 .. MemSize - 1 |-> Unspecified],
              instret |-> 0, sent |-> 0]

Next == main \/ SoCResets \/ TargetAnswers \/ ProgramStops \/ ns16550_init \/ ns16550_txchar

Spec == Init /\ [][Next]_vars

(* The loop of main goes on while its condition holds: time passes.  (Only *)
(* main changes main_time, so this is weak fairness of main, in a form     *)
(* whose ENABLED is cheap.)                                                *)
TimePasses == ~gotFinish /\ ~exited /\ main_time' \in Times \ {main_time}

(* The host keeps calling eval, the SoC answers and the program stops.     *)
FairSpec == Spec /\ WF_main_time(TimePasses)
                 /\ WF_vars(SoCResets) /\ WF_vars(TargetAnswers) /\ WF_vars(ProgramStops)

-----------------------------------------------------------------------------
(* What the loader and the driver take for granted of a file: addresses    *)
(* and sizes far from the end of the address space; sections beyond the    *)
(* window after one that begins no higher within it, or first of all; and, *)
(* as instructions of 32 bits ask for, words at the lowest address and at  *)
(* the exit symbol.                                                        *)
Sections(elf) == {k \in DOMAIN elf.sections : Loadable(elf.sections[k])}
At(elf, k) == sh_addr(elf.sections[k])
Size(elf, k) == Len(elf.sections[k].bytes)
ExitName(e) == IF e.SIM_ELF_EXIT_SYM = Unset THEN "exit" ELSE e.SIM_ELF_EXIT_SYM

SectionsFit(elf) ==
    \A k \in Sections(elf) :
        /\ elf.sections[k].addr \in Nat /\ elf.sections[k].addr < NoAddr
        /\ elf.sections[k].bytes \in Seq(Range(elf.sections[k].bytes))
        /\ At(elf, k) + Size(elf, k) + 4 < AddrMod

LowestFound(elf) ==
    \A k \in Sections(elf) :
        elf.sections[k].addr >= Window =>
          \/ \A j \in Sections(elf) : k <= j
          \/ \E j \in Sections(elf) : j < k /\ At(elf, j) <= At(elf, k)

WordAligned(elf) ==
    \A k \in Sections(elf) : (\A j \in Sections(elf) : At(elf, k) <= At(elf, j)) => At(elf, k) % 4 = 0

SymbolsAligned(elf, exit_symbol) ==
    \A k \in DOMAIN elf.sections :
        elf.sections[k].type = "SYMTAB" =>
          /\ elf.sections[k].syms \in Seq(Range(elf.sections[k].syms))
          /\ \A i \in DOMAIN elf.sections[k].syms :
                elf.sections[k].syms[i].name = exit_symbol =>
                  elf.sections[k].syms[i].value \in Nat /\ elf.sections[k].syms[i].value % 4 = 0

FileFits(e) ==
    LET elf == e.SIM_ELF_FILENAME IN
    /\ elf.sections \in Seq(Range(elf.sections))
    /\ SectionsFit(elf) /\ LowestFound(elf) /\ WordAligned(elf) /\ SymbolsAligned(elf, ExitName(e))

FilesFit ==
    /\ MemSize + 8 <= AddrMod
    /\ \A e \in Envs : e.SIM_ELF_FILENAME # NULL => FileFits(e)

-----------------------------------------------------------------------------
(* When the processor is started the memory of the SoC holds the file:     *)
(* every byte of every loadable section where its address says, and the    *)
(* breakpoint at the exit symbol (below 2^30).                             *)
ExitPc == IF p_state = NULL THEN NoAddr ELSE p_state.pc_exit

ImageInMemory ==
    soc.runs /\ rg.elf_file_loaded =>
      \A a \in DOMAIN soc.mem : Covering(env.SIM_ELF_FILENAME, a) # {} =>
         soc.mem[a] = IF a \in ExitPc .. ExitPc + 3 THEN EBREAK[a - ExitPc + 1]
                      ELSE ImageByte(env.SIM_ELF_FILENAME, a)

(* Nothing goes out on the fabric before the SoC has been reset: neither   *)
(* state machine acts in the state it powers up in.                        *)
ResetFirst == f_fabric_reqs # << >> \/ soc.runs => soc.up

(* A response on its way, on either side, is the one the driver waits for, *)
(* so it is never taken for the answer to another question; and the count  *)
(* of instructions it reports is the processor's, both words of it.        *)
AnswersWanted ==
    LET answers == fControlRsp \o f_control_rsps IN
    answers # << >> =>
      /\ state - 1 \in DOMAIN Asked /\ Asked[state - 1] = answers[1].op
      /\ Len(answers) = 1 /\ fControlReq = << >>
      /\ answers[1].op = "instret" => answers[1].n = soc.instret

(* Characters arrive in order, none lost or doubled, in both directions;   *)
(* only NULs are skipped, the end of the file is seen after all else, and  *)
(* when the simulation ends everything the program wrote has been printed. *)
Typed == FlattenSeq([i \in 1 .. Len(env.stdin) - Len(stdin) |-> Received(env.stdin[i])])
Arrived == uart.rx \o f_from_console

ConsoleInOrder ==
    /\ IsPrefix(Typed, Arrived)
    /\ \A i \in Len(Typed) + 1 .. Len(Arrived) : stdin = << >> /\ Arrived[i] = EOF
    /\ stdout \o Printed(f_to_console \o uart.tx) = Printed(SubSeq(env.output, 1, soc.sent))
    /\ gotFinish => f_to_console \o uart.tx = << >>

(* Every simulation ends: the driver never waits for an answer that does   *)
(* not come, or for room in a FIFO that nobody empties.                    *)
Ends == <>(gotFinish \/ exited)
=============================================================================
