-------------------------------- MODULE ISA --------------------------------
(***************************************************************************)
(* The machine a program and a debugger are promised: one instruction at a *)
(* time, each with all its effects, or a trap with none of them.  Nothing  *)
(* here is taken from the pipeline.  One point is a parameter, because the *)
(* pipeline is known to miss it and its other promises are checked without *)
(* it: PreciseDataFaults says that every load and store that must fault    *)
(* does, and reports its own PC, its address and its cause.                *)
(***************************************************************************)
EXTENDS RV32

CONSTANTS DMem,                \* the data addresses that have memory
          PreciseDataFaults

VARIABLES prog,     \* the program: a function from some addresses to instructions
          mode,     \* "running", "halted" (the debugger has control) or "reset"
          pc,       \* next instruction, NoPC unless running
          resume,   \* where the debugger's next CONTINUE starts
          gpr, csr, mem,
          dbg       \* the debugger's response slot

isaVars == <<prog, mode, pc, resume, gpr, csr, mem, dbg>>

NoPC == -1

(* A response: to what kind of request, about which register, the word.    *)
Rsp(kind, reg, word) == [kind |-> kind, reg |-> reg, word |-> word]
NoRsp == Rsp("none", 0, 0)
Done == Rsp("write", 0, 0)
Refused == Rsp("refused", 0, 0)

i == prog[pc]
v1 == gpr[i.rs1]
v2 == gpr[i.rs2]
addr == Wrap(v1 + i.imm)

(* A write to register 0 is discarded. *)
SetReg(rd, value) == gpr' = IF rd = 0 THEN gpr ELSE [gpr EXCEPT ![rd] = value]

Goto(target) == pc' = target /\ UNCHANGED <<prog, mode, resume, dbg>>

Trap(cause, badaddr) ==
    /\ csr' = TrapCSRs(csr, csr, pc, cause, badaddr)
    /\ UNCHANGED <<gpr, mem>>

Vectored == Goto(TrapVector(csr.mstatus))

-----------------------------------------------------------------------------
Running == mode = "running"
Fetched == Running /\ pc \in DOMAIN prog /\ Aligned(pc)

FetchFault ==
    /\ Running /\ ~Fetched
    /\ Trap(IF Aligned(pc) THEN FETCH_FAULT ELSE FETCH_MISALIGNED, pc)
    /\ Vectored

Compute ==
    /\ Fetched /\ i.op \in ALU_OPS \cup {"MUL"}
    /\ SetReg(i.rd, CASE i.op = "ADDI" -> Wrap(v1 + i.imm)
                      [] i.op = "ADD"  -> Wrap(v1 + v2)
                      [] i.op = "SUB"  -> Wrap(v1 - v2)
                      [] i.op = "MUL"  -> Wrap(v1 * v2))
    /\ Goto(Wrap(pc + 4))
    /\ UNCHANGED <<csr, mem>>

Jump ==
    /\ Fetched /\ i.op \in JUMP_OPS
    /\ SetReg(i.rd, Wrap(pc + 4))
    /\ Goto(IF i.op = "JAL" THEN Wrap(pc + i.imm) ELSE addr)
    /\ UNCHANGED <<csr, mem>>

Branch ==
    /\ Fetched /\ i.op = "BEQ"
    /\ Goto(IF v1 = v2 THEN Wrap(pc + i.imm) ELSE Wrap(pc + 4))
    /\ UNCHANGED <<gpr, csr, mem>>

Load ==
    /\ Fetched /\ i.op = "LW" /\ Aligned(addr)
    /\ \/ addr \in DMem /\ SetReg(i.rd, mem[addr])
       \/ addr \notin DMem /\ ~PreciseDataFaults /\ (i.rd = 0 \/ gpr'[i.rd] \in Word)
            /\ SetReg(i.rd, gpr'[i.rd])
    /\ Goto(Wrap(pc + 4))
    /\ UNCHANGED <<csr, mem>>

(* A store outside memory has no effect. *)
Store ==
    /\ Fetched /\ i.op = "SW" /\ Aligned(addr)
    /\ mem' = IF addr \in DMem THEN [mem EXCEPT ![addr] = v2] ELSE mem
    /\ Goto(Wrap(pc + 4))
    /\ UNCHANGED <<gpr, csr>>

DataFaultCause ==
    IF i.op = "LW" THEN IF Aligned(addr) THEN LOAD_FAULT ELSE LOAD_MISALIGNED
    ELSE STORE_MISALIGNED

DataFault ==
    /\ Fetched
    /\ \/ i.op = "LW" /\ ~(Aligned(addr) /\ addr \in DMem)
       \/ i.op = "SW" /\ ~Aligned(addr)
    /\ csr' \in CSRs
    /\ IF PreciseDataFaults
       THEN csr' = TrapCSRs(csr, csr, pc, DataFaultCause, addr)
       ELSE /\ csr' = TrapCSRs(csr, csr, csr'.mepc, csr'.mcause, csr'.mbadaddr)
            /\ csr'.mcause \in {LOAD_FAULT, LOAD_MISALIGNED, STORE_MISALIGNED}
    /\ UNCHANGED <<gpr, mem>>
    /\ Vectored

CSRAccess ==
    /\ Fetched /\ i.op \in CSR_OPS /\ i.csr \in CSR_NAMES
    /\ SetReg(i.rd, csr[i.csr])
    /\ csr' = IF i.op = "CSRRW" THEN ma_write(csr, i.csr, v1) ELSE csr
    /\ Goto(Wrap(pc + 4))
    /\ UNCHANGED mem

Illegal ==
    /\ Fetched
    /\ i.op = "ILLEGAL" \/ (i.op \in CSR_OPS /\ i.csr \notin CSR_NAMES)
    /\ Trap(ILLEGAL_INSTRUCTION, pc)
    /\ Vectored

ECall ==
    /\ Fetched /\ i.op = "ECALL"
    /\ Trap(ECALL_FROM_U + prv(csr.mstatus), pc)
    /\ Vectored

(* A breakpoint traps; in machine mode it also hands over to the debugger. *)
EBreak ==
    /\ Fetched /\ i.op = "EBREAK"
    /\ Trap(BREAKPOINT, pc)
    /\ IF prv(csr.mstatus) = 3
       THEN mode' = "halted" /\ pc' = NoPC /\ UNCHANGED <<prog, resume, dbg>>
       ELSE Vectored

ERet ==
    /\ Fetched /\ i.op = "ERET"
    /\ csr' = EretCSRs(csr, csr)
    /\ Goto(csr.mepc)
    /\ UNCHANGED <<gpr, mem>>

(* WFI may wait for as long as there is no interrupt; there is none. *)

Execute == \/ FetchFault \/ Compute \/ Jump \/ Branch \/ Load \/ Store
           \/ DataFault \/ CSRAccess \/ Illegal \/ ECall \/ EBreak \/ ERet

-----------------------------------------------------------------------------
(* The debugger.  A response waits in dbg until it is collected; a request *)
(* is accepted only when the machine is halted and none waits.             *)
Accept(rsp) == mode = "halted" /\ dbg = NoRsp /\ dbg' = rsp /\ UNCHANGED <<prog, mem, csr>>

DebugRead ==
    /\ \/ \E r \in Reg : Accept(Rsp("gpr", r, gpr[r]))
       \/ Accept(Rsp("resume_pc", 0, resume))
    /\ UNCHANGED <<mode, pc, resume, gpr>>

DebugWrite ==
    /\ Accept(Done)
    /\ \E r \in Reg, w \in Word :
          gpr' = IF r = 0 THEN gpr ELSE [gpr EXCEPT ![r] = w]
    /\ UNCHANGED <<mode, pc, resume>>

DebugSetPC ==
    /\ Accept(Done)
    /\ resume' \in Word
    /\ UNCHANGED <<mode, pc, gpr>>

Continue ==
    /\ Accept(Done)
    /\ mode' = "running" /\ pc' = resume
    /\ UNCHANGED <<resume, gpr>>

(* A request the machine does not understand changes nothing.              *)
Refuse == Accept(Refused) /\ UNCHANGED <<mode, pc, resume, gpr>>

Collect ==
    /\ dbg # NoRsp /\ dbg' = NoRsp
    /\ UNCHANGED <<prog, mode, pc, resume, gpr, csr, mem>>

Debug == \/ DebugRead \/ DebugWrite \/ DebugSetPC \/ Continue \/ Refuse \/ Collect

-----------------------------------------------------------------------------
(* Reset may come at any time.  It keeps the program, the memory and the   *)
(* response slot until it is done; a register may lose its last value.     *)
Reset ==
    /\ mode' = "reset" /\ pc' = NoPC
    /\ gpr' \in [Reg -> Word]
    /\ csr' \in CSRs
    /\ UNCHANGED <<prog, resume, mem, dbg>>

ResetDone ==
    /\ mode = "reset" /\ mode' = "halted"
    /\ gpr' = [gpr EXCEPT ![0] = 0]
    /\ csr' = [csr EXCEPT !.mstatus = MSTATUS_RESET]
    /\ resume' = RESET_PC
    /\ dbg' = NoRsp
    /\ UNCHANGED <<prog, pc, mem>>

Init ==
    /\ mode = "reset" /\ pc = NoPC
    /\ resume \in Word /\ gpr \in [Reg -> Word] /\ csr \in CSRs
    /\ dbg = NoRsp

Next == Execute \/ Debug \/ Reset \/ ResetDone

Spec == Init /\ [][Next]_isaVars
=============================================================================
