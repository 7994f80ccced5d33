-------------------------------- MODULE CPU --------------------------------
(***************************************************************************)
(* mkCPU.v: the three-stage pipeline, one action per way a clock edge can  *)
(* go.  Stage 1 fetches and executes, stage 2 waits for a load, a store or *)
(* a multiplication, stage 3 writes back; a value not yet written back is  *)
(* bypassed to stage 1.  The two caches and the multiplier answer whenever *)
(* they like (ICacheReady, DCacheValid, MBoxValid); a debugger reads and    *)
(* writes registers while the pipeline is stopped.                         *)
(***************************************************************************)
EXTENDS Exec

CONSTANTS DMem,        \* the data addresses that have memory
          Programs,    \* the programs that may be in memory
          DebugReqs,   \* the requests the debugger may make
          Resets       \* whether the SoC resets the processor after power-up

(* A program: an instruction at each of some addresses.                    *)
Program(p) == DOMAIN p \subseteq Word /\ \A a \in DOMAIN p : p[a] \in Instr

ASSUME CPUAssumption ==
    /\ DMem \subseteq {a \in Word : Aligned(a)}
    /\ \A p \in Programs : Program(p)
    /\ \A r \in DebugReqs : r.reg \in Reg /\ r.word \in Word
    /\ Resets \in BOOLEAN

VARIABLES
    prog,              \* instruction memory: a function from addresses
    mem,               \* data memory
    rg_state,          \* what the controller of the pipeline does
    rg_resume_pc,
    f_fabric_rsps,     \* the one response slot of the control port
    s2,                \* rg_s2_*: stage 2
    s3,                \* rg_s3_*: stage 3
    regfile, csr,      \* the register files
    ic, dc, mb,        \* the last request to each cache and to the multiplier
    h_pc               \* history: the PC of the instruction in stage 2

coreVars == <<s2, s3, regfile, csr, h_pc>>
unitVars == <<ic, dc, mb>>
vars == <<prog, mem, rg_state, rg_resume_pc, f_fabric_rsps, coreVars, unitVars>>

CPU_STATES == {"RESET", "IDLE", "PRE_RUN", "RUNNING", "POST_RUN"}
S2_STATES == {"EMPTY", "ALU", "MBOX", "LOAD", "STORE"}

Rsp(kind, reg, word) == [kind |-> kind, reg |-> reg, word |-> word]
NoRsp == Rsp("none", 0, 0)

NoCSR == [valid |-> FALSE, value |-> UNSPECIFIED]

-----------------------------------------------------------------------------
(* The units.  "idle": nothing asked; "busy": asked; "valid": the answer   *)
(* is on the wires, and stays there.                                       *)
UNIT_STATES == {"idle", "busy", "valid"}

IdleI == [st |-> "idle", pc |-> 0]
IdleD == [st |-> "idle", op |-> "LOAD", addr |-> 0, st_value |-> 0,
          word |-> 0, exc |-> FALSE, exc_code |-> 0]
IdleM == [st |-> "idle", v1 |-> 0, v2 |-> 0, word |-> 0]

IReq(pc) == [st |-> "busy", pc |-> pc]
DReq(x) == [IdleD EXCEPT !.st = "busy", !.op = x.tag, !.addr = x.value1,
                         !.st_value = x.value2]
MReq(x) == [IdleM EXCEPT !.st = "busy", !.v1 = x.value1, !.v2 = x.value2]

(* The instruction cache has the word, or the exception.                   *)
ICacheReady ==
    /\ ic.st = "busy"
    /\ ic' = [ic EXCEPT !.st = "valid"]
    /\ UNCHANGED <<prog, mem, rg_state, rg_resume_pc, f_fabric_rsps, coreVars, dc, mb>>

(* The data cache is done.  With an exception its word is unspecified.  A  *)
(* misaligned access may report the other kind of access, a load outside   *)
(* memory only once for each line (DCache.tla); a store is written         *)
(* through, and one outside memory is lost.                                *)
DAnswer(exc, code, word) ==
    [dc EXCEPT !.st = "valid", !.exc = exc, !.exc_code = code, !.word = word]

DAnswers ==
    CASE ~Aligned(dc.addr) -> {DAnswer(TRUE, LOAD_MISALIGNED, UNSPECIFIED),
                               DAnswer(TRUE, STORE_MISALIGNED, UNSPECIFIED)}
      [] Aligned(dc.addr) /\ dc.op = "STORE" -> {DAnswer(FALSE, 0, dc.addr)}
      [] Aligned(dc.addr) /\ dc.op = "LOAD"  ->
            IF dc.addr \in DMem THEN {DAnswer(FALSE, 0, mem[dc.addr])}
            ELSE {DAnswer(TRUE, LOAD_FAULT, UNSPECIFIED), DAnswer(FALSE, 0, UNSPECIFIED)}

DCacheValid ==
    /\ dc.st = "busy"
    /\ dc' \in DAnswers
    /\ mem' = IF dc.op = "STORE" /\ dc.addr \in DMem
              THEN [mem EXCEPT ![dc.addr] = dc.st_value] ELSE mem
    /\ UNCHANGED <<prog, rg_state, rg_resume_pc, f_fabric_rsps, coreVars, ic, mb>>

MBoxValid ==
    /\ mb.st = "busy"
    /\ mb' = [mb EXCEPT !.st = "valid", !.word = Wrap(mb.v1 * mb.v2)]
    /\ UNCHANGED <<prog, mem, rg_state, rg_resume_pc, f_fabric_rsps, coreVars, ic, dc>>

-----------------------------------------------------------------------------
(* Stage 2 and the wires it drives.                                        *)
DValid == dc.st = "valid"
MValid == mb.st = "valid"

(* Mutants: stage 2 lets a load pass before it is done, or waits for the   *)
(* wrong unit.                                                             *)
MutS2DoneNoWait == \/ s2.state \in {"EMPTY", "ALU", "LOAD"}
                   \/ s2.state = "STORE" /\ DValid
                   \/ s2.state = "MBOX" /\ MValid
MutS2DoneWrongUnit == s2.state \in {"EMPTY", "ALU"} \/ DValid

S2Done == \/ s2.state \in {"EMPTY", "ALU"}
          \/ s2.state \in {"LOAD", "STORE"} /\ DValid
          \/ s2.state = "MBOX" /\ MValid

S2Trap == s2.state \in {"LOAD", "STORE"} /\ DValid /\ dc.exc

(* Mutant: a load that faulted still has a result.                         *)
MutS2ResultOfFault == \/ s2.state = "ALU"
                      \/ s2.state = "LOAD" /\ DValid
                      \/ s2.state = "MBOX" /\ MValid

(* The instruction in stage 2 has its result in this cycle.                *)
S2Result == \/ s2.state = "ALU"
            \/ s2.state = "LOAD" /\ DValid /\ ~dc.exc
            \/ s2.state = "MBOX" /\ MValid

S2RegValue == CASE s2.state = "ALU"                         -> s2.rdval
                [] s2.state \in {"LOAD", "STORE"} /\ DValid -> dc.word
                [] OTHER                                    -> mb.word

S3RdVal == CASE s2.state = "LOAD" /\ DValid -> dc.word
             [] s2.state = "MBOX" /\ MValid -> mb.word
             [] OTHER                       -> s2.rdval

Bypassed(r) == IF S2Result /\ s2.rd # 0 /\ s2.rd = r THEN S2RegValue
               ELSE IF s3.state /\ s3.rd # 0 /\ s3.rd = r THEN s3.rdval
               ELSE regfile[r]

(* A CSR is bypassed as the word written to it, not as what it would keep. *)
BypassedCSR(addr) ==
    IF addr \notin CSR_NAMES THEN NoCSR
    ELSE [valid |-> TRUE,
          value |-> IF s2.state = "ALU" /\ s2.csr.valid /\ s2.csr_addr = addr
                    THEN s2.csr.value
                    ELSE IF s3.state /\ s3.csr.valid /\ s3.csr_addr = addr
                    THEN s3.csr.value
                    ELSE csr[addr]]

-----------------------------------------------------------------------------
(* Stage 3: write back, then take over what stage 2 hands on.              *)
WrittenBack == IF s3.state /\ s3.rd # 0
               THEN [regfile EXCEPT ![s3.rd] = s3.rdval] ELSE regfile

CSRWrittenBack == IF s3.state /\ s3.csr.valid
                  THEN ma_write(csr, s3.csr_addr, s3.csr.value) ELSE csr

Stage3 ==
    /\ regfile' = WrittenBack
    /\ s3' = [state |-> S2Result, rd |-> s2.rd, rdval |-> S3RdVal,
              csr_addr |-> s2.csr_addr,
              csr |-> [valid |-> s2.state = "ALU" /\ s2.csr.valid,
                       value |-> s2.csr.value]]

-----------------------------------------------------------------------------
(* Stage 1.                                                                *)
IValid == ic.st = "valid"
IExc == ~Aligned(ic.pc) \/ ic.pc \notin DOMAIN prog
IExcCode == IF Aligned(ic.pc) THEN FETCH_FAULT ELSE FETCH_MISALIGNED
instr == prog[ic.pc]

(* Stage 1 has an instruction, and stage 2 is free to take it.             *)
S1Acts == IValid /\ S2Done /\ ~S2Trap

executed == do_riscv(instr, ic.pc, Bypassed(instr.rs1), Bypassed(instr.rs2),
                     BypassedCSR(instr.csr))

S1Executes == ~IExc /\ instr.op \notin PRIV_OPS

S1TrapCause ==
    IF IExc THEN {IExcCode}
    ELSE CASE instr.op = "ECALL"  -> {ECALL_FROM_U + prv(csr.mstatus)}
           [] instr.op = "EBREAK" -> {BREAKPOINT}
           [] OTHER -> IF S1Executes /\ executed.tag = "ILLEGAL"
                       THEN {ILLEGAL_INSTRUCTION} ELSE {}

(* Mutant: the data cache still holds its answer.                          *)
MutS2FreedKeepsAnswer ==
    /\ s2' = [s2 EXCEPT !.state = "EMPTY"]
    /\ mb' = IF s2.state = "MBOX" THEN IdleM ELSE mb
    /\ UNCHANGED <<dc, h_pc>>

(* Nothing of stage 2 and no request to a unit is left from this edge on.  *)
S2Freed == /\ s2' = [s2 EXCEPT !.state = "EMPTY"]
           /\ dc' = IF DValid THEN IdleD ELSE dc
           /\ mb' = IF s2.state = "MBOX" THEN IdleM ELSE mb
           /\ UNCHANGED h_pc

Running == /\ rg_state = "RUNNING"
           /\ UNCHANGED <<prog, mem, rg_resume_pc, f_fabric_rsps>>

(* A load or store that faulted: the trap's PC is taken from the CSR field *)
(* of stage 2, its address from the cache's word.                          *)
RunS2Trap ==
    /\ Running
    /\ S2Trap
    /\ Stage3
    /\ csr' = TrapCSRs(csr, CSRWrittenBack, s2.csr.value, dc.exc_code, S2RegValue)
    /\ ic' = IReq(TrapVector(csr.mstatus))
    /\ S2Freed
    /\ UNCHANGED rg_state

(* A trap of the instruction in stage 1.  A breakpoint in machine mode     *)
(* also stops the pipeline.                                                *)
RunS1Trap ==
    /\ Running
    /\ S1Acts
    /\ \E cause \in S1TrapCause :
          /\ csr' = TrapCSRs(csr, CSRWrittenBack, ic.pc, cause, ic.pc)
          /\ rg_state' = IF cause = BREAKPOINT /\ prv(csr.mstatus) = 3
                         THEN "POST_RUN" ELSE rg_state
    /\ Stage3
    /\ ic' = IReq(TrapVector(csr.mstatus))
    /\ S2Freed

(* ERET takes mepc from the register file, without a bypass.               *)
RunEret ==
    /\ Running
    /\ S1Acts /\ ~IExc /\ instr.op = "ERET"
    /\ Stage3
    /\ csr' = EretCSRs(csr, CSRWrittenBack)
    /\ ic' = IReq(csr.mepc)
    /\ S2Freed
    /\ UNCHANGED rg_state

(* The instruction moves to stage 2, and the next one is asked for.        *)
RunIssue ==
    /\ Running
    /\ S1Acts /\ S1Executes /\ executed.tag # "ILLEGAL"
    /\ Stage3
    /\ csr' = CSRWrittenBack
    /\ s2' = [state |-> IF executed.tag = "BRANCH" THEN "EMPTY" ELSE executed.tag,
              rd |-> executed.rd, rdval |-> executed.value1,
              csr_addr |-> instr.csr, csr |-> executed.csr]
    /\ dc' = IF executed.tag \in {"LOAD", "STORE"} THEN DReq(executed)
             ELSE IF DValid THEN IdleD ELSE dc
    /\ mb' = IF executed.tag = "MBOX" THEN MReq(executed)
             ELSE IF s2.state = "MBOX" THEN IdleM ELSE mb
    /\ ic' = IReq(executed.next_pc)
    /\ h_pc' = ic.pc
    /\ UNCHANGED rg_state

(* No instruction in stage 1 acts: none has arrived, stage 2 is not done,  *)
(* or it is WFI, which asks for no successor and so waits for ever.        *)
RunWait ==
    /\ Running
    /\ ~S2Trap
    /\ \/ ~S1Acts
       \/ S1Acts /\ ~IExc /\ instr.op = "WFI"
    /\ Stage3
    /\ csr' = CSRWrittenBack
    /\ IF S2Done THEN S2Freed ELSE UNCHANGED <<s2, dc, mb, h_pc>>
    /\ UNCHANGED <<ic, rg_state>>

RlRun == RunS2Trap \/ RunS1Trap \/ RunEret \/ RunIssue \/ RunWait

-----------------------------------------------------------------------------
(* The controller.                                                         *)
(* Mutant: the first fetch is not asked for.                               *)
MutRlPreRunNoFetch ==
    /\ rg_state = "PRE_RUN" /\ rg_state' = "RUNNING"
    /\ UNCHANGED <<prog, mem, rg_resume_pc, f_fabric_rsps, coreVars, unitVars>>

RlPreRun ==
    /\ rg_state = "PRE_RUN" /\ rg_state' = "RUNNING"
    /\ ic' = IReq(rg_resume_pc)
    /\ UNCHANGED <<prog, mem, rg_resume_pc, f_fabric_rsps, coreVars, dc, mb>>

RlPostRun ==
    /\ rg_state = "POST_RUN" /\ rg_state' = "IDLE"
    /\ UNCHANGED <<prog, mem, rg_resume_pc, f_fabric_rsps, coreVars, unitVars>>

(* The SoC restarts the processor and its caches, not the multiplier.      *)
ResetStart ==
    /\ Resets
    /\ rg_state # "RESET" /\ rg_state' = "RESET"
    /\ ic' = IdleI /\ dc' = IdleD
    /\ UNCHANGED <<prog, mem, rg_resume_pc, f_fabric_rsps, coreVars, mb>>

(* Mutant: stage 3 is not emptied.                                         *)
MutRlResetKeepsS3 ==
    /\ rg_state = "RESET" /\ rg_state' = "IDLE"
    /\ rg_resume_pc' = RESET_PC
    /\ f_fabric_rsps' = NoRsp
    /\ s2' = [s2 EXCEPT !.state = "EMPTY"]
    /\ regfile' = [regfile EXCEPT ![0] = 0]
    /\ csr' = [csr EXCEPT !.mstatus = MSTATUS_RESET]
    /\ UNCHANGED <<prog, mem, s3, unitVars, h_pc>>

RlReset ==
    /\ rg_state = "RESET" /\ rg_state' = "IDLE"
    /\ rg_resume_pc' = RESET_PC
    /\ f_fabric_rsps' = NoRsp
    /\ s2' = [s2 EXCEPT !.state = "EMPTY"]
    /\ s3' = [s3 EXCEPT !.state = FALSE]
    /\ regfile' = [regfile EXCEPT ![0] = 0]
    /\ csr' = [csr EXCEPT !.mstatus = MSTATUS_RESET]
    /\ UNCHANGED <<prog, mem, unitVars, h_pc>>

(* Mutant: a request is taken while the last response waits.               *)
MutControlRequestNoWait(req) ==
    /\ rg_state = "IDLE"
    /\ f_fabric_rsps' = IF req.op = "read_gpr" THEN Rsp("gpr", req.reg, regfile[req.reg])
                        ELSE Rsp("write", 0, 0)
    /\ UNCHANGED <<prog, mem, rg_state, rg_resume_pc, coreVars, unitVars>>

(* A request of the debugger, answered in the same edge.                   *)
ControlRequest(req) ==
    /\ rg_state = "IDLE" /\ f_fabric_rsps = NoRsp
    /\ f_fabric_rsps' = CASE req.op = "read_gpr" -> Rsp("gpr", req.reg, regfile[req.reg])
                          [] req.op = "read_pc"  -> Rsp("resume_pc", 0, rg_resume_pc)
                          [] req.op = "refused"  -> Rsp("refused", 0, 0)
                          [] OTHER               -> Rsp("write", 0, 0)
    /\ regfile' = IF req.op = "write_gpr"
                  THEN [regfile EXCEPT ![req.reg] = req.word] ELSE regfile
    /\ rg_resume_pc' = IF req.op = "write_pc" THEN req.word ELSE rg_resume_pc
    /\ rg_state' = IF req.op = "continue" THEN "PRE_RUN" ELSE rg_state
    /\ UNCHANGED <<prog, mem, s2, s3, csr, h_pc, unitVars>>

ControlResponse ==
    /\ f_fabric_rsps # NoRsp /\ f_fabric_rsps' = NoRsp
    /\ UNCHANGED <<prog, mem, rg_state, rg_resume_pc, coreVars, unitVars>>

-----------------------------------------------------------------------------
(* After power-up the SoC's first act is a reset; no register that it does *)
(* not set has a meaning yet.                                              *)
Init ==
    /\ prog \in Programs
    /\ mem = [a \in DMem |-> 0]
    /\ rg_state = "RESET"
    /\ rg_resume_pc = UNSPECIFIED
    /\ f_fabric_rsps = NoRsp
    /\ s2 = [state |-> "ALU", rd |-> 0, rdval |-> UNSPECIFIED, csr_addr |-> "none",
             csr |-> NoCSR]
    /\ s3 = [state |-> FALSE, rd |-> 0, rdval |-> UNSPECIFIED, csr_addr |-> "none",
             csr |-> NoCSR]
    /\ regfile = [r \in Reg |-> UNSPECIFIED]
    /\ csr = [mstatus |-> MSTATUS_RESET, mepc |-> UNSPECIFIED, mcause |-> 0,
              mbadaddr |-> UNSPECIFIED, mscratch |-> UNSPECIFIED]
    /\ ic = IdleI /\ dc = IdleD /\ mb = IdleM
    /\ h_pc = RESET_PC

Units == ICacheReady \/ DCacheValid \/ MBoxValid

Control == RlPreRun \/ RlPostRun \/ RlReset \/ ControlResponse
             \/ \E req \in DebugReqs : ControlRequest(req)

Next == Units \/ RlRun \/ Control \/ ResetStart

Spec == Init /\ [][Next]_vars

(* A clock edge always comes: every rule that can fire does.  The memory   *)
(* behind the caches answers, and somebody collects the debugger's         *)
(* responses.  Nothing makes the debugger or the reset button act.         *)
FairSpec == /\ Spec
            /\ WF_vars(ICacheReady) /\ WF_vars(DCacheValid) /\ WF_vars(MBoxValid)
            /\ WF_vars(RlRun) /\ WF_vars(RlPreRun) /\ WF_vars(RlPostRun)
            /\ WF_vars(RlReset) /\ WF_vars(ControlResponse)

-----------------------------------------------------------------------------
(* Every register holds a value of its width, and the history variable a   *)
(* PC.                                                                     *)
CSRField == [valid : BOOLEAN, value : Word]
CSRAddr == CSR_NAMES \cup {"none"}

TypeOK ==
    /\ Program(prog)
    /\ mem \in [DMem -> Word]
    /\ rg_state \in CPU_STATES
    /\ rg_resume_pc \in Word
    /\ f_fabric_rsps \in [kind : {"none", "gpr", "resume_pc", "write", "refused"},
                          reg : Reg, word : Word]
    /\ s2 \in [state : S2_STATES, rd : Reg, rdval : Word, csr_addr : CSRAddr,
               csr : CSRField]
    /\ s3 \in [state : BOOLEAN, rd : Reg, rdval : Word, csr_addr : CSRAddr,
               csr : CSRField]
    /\ regfile \in [Reg -> Word]
    /\ csr \in CSRs
    /\ ic \in [st : UNIT_STATES, pc : Word]
    /\ dc \in [st : UNIT_STATES, op : {"LOAD", "STORE"}, addr : Word, st_value : Word,
               word : Word, exc : BOOLEAN, exc_code : 0 .. 15]
    /\ mb \in [st : UNIT_STATES, v1 : Word, v2 : Word, word : Word]
    /\ h_pc \in Word

(* Stage 2 waits for a unit exactly while that unit has its request: a     *)
(* load, store or multiplication that trapped, was reset away or was left  *)
(* by a breakpoint never leaves an answer behind that a later instruction  *)
(* could take for its own.  Only the multiplier outlives a reset.          *)
UnitsServeStage2 ==
    rg_state # "RESET" =>
       /\ s2.state \in {"LOAD", "STORE"} <=> dc.st # "idle"
       /\ s2.state \in {"LOAD", "STORE"} => dc.op = s2.state
       /\ s2.state = "MBOX" => mb.st # "idle"
       /\ rg_state # "RUNNING" => s2.state = "EMPTY"

(* While the pipeline runs it has asked for an instruction: it never waits *)
(* for a fetch nobody made.                                                *)
FetchOutstanding == rg_state = "RUNNING" => ic.st # "idle"

(* Nothing the pipeline does asks the data cache or the multiplier for a   *)
(* second thing before the first is answered.                              *)
OneRequestAtATime ==
    [][/\ dc.st = "busy" /\ dc'.st = "busy" => dc' = dc
       /\ (mb.st = "busy" /\ mb'.st = "busy" /\ s2.state = "MBOX") => mb' = mb]_vars

AtWFI == ~IExc /\ instr.op = "WFI"

(* An instruction that has arrived is acted upon: no load, store, multi-   *)
(* plication, trap or stop in the stages ahead of it can block it for ever.*)
InstructionActs ==
    (rg_state = "RUNNING" /\ IValid /\ ~AtWFI) ~> (~IValid \/ rg_state # "RUNNING")
=============================================================================
