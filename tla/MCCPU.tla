------------------------------- MODULE MCCPU -------------------------------
(***************************************************************************)
(* Small programs for TLC.  Three instructions at the reset PC are enough  *)
(* for a producer, a consumer and one instruction between them, the        *)
(* distance over which stages 2 and 3 bypass; a fetch past the last one    *)
(* traps to the vector, whose handler jumps back or returns.               *)
(***************************************************************************)
EXTENDS CPURefinement

I(op, rd, rs1, rs2, imm, addr) ==
    [op |-> op, rd |-> rd, rs1 |-> rs1, rs2 |-> rs2, imm |-> imm, csr |-> addr]
R(op, rd, rs1, rs2) == I(op, rd, rs1, rs2, 0, "none")
Imm(op, rd, rs1, imm) == I(op, rd, rs1, 0, imm, "none")
Priv(op) == I(op, 0, 0, 0, 0, "none")
CSR(op, rd, rs1, addr) == I(op, rd, rs1, 0, 0, addr)

Main == {512, 516, 520}
MVector == 448
UVector == 256

WithHandler(mains, handlers) ==
    {[a \in Main \cup {MVector, UVector} |-> IF a \in Main THEN m[a] ELSE h[a]] :
        m \in [Main -> mains], h \in [{MVector, UVector} -> handlers]}

(* A handler that stops, and one that starts the program again.            *)
Stop == Priv("WFI")
Again == Imm("JAL", 0, 0, 64)

DataOps == {Imm("ADDI", 1, 0, 4), R("ADD", 1, 1, 2), R("SUB", 2, 1, 2),
            R("MUL", 2, 1, 1), Imm("LW", 2, 0, 4), Imm("LW", 1, 0, 0),
            R("SW", 0, 0, 1), I("BEQ", 0, 1, 2, 8, "none"),
            Imm("LW", 0, 0, 0), Imm("JAL", 1, 0, 8)}

DataPrograms == WithHandler(DataOps, {Stop})

(* Every way to trap, to return and to be stopped.                         *)
TrapOps == {Imm("ADDI", 1, 0, 4), R("MUL", 2, 1, 1), Imm("LW", 1, 0, 0),
            Priv("ECALL"), Priv("EBREAK"), Priv("ERET"), Priv("ILLEGAL"),
            Imm("JALR", 1, 1, 1)}

TrapPrograms == WithHandler(TrapOps, {Priv("ERET"), Again})

(* Faults of loads and stores, next to instructions that must not happen.  *)
FaultOps == {Imm("ADDI", 1, 0, 4), R("MUL", 2, 1, 1), Imm("LW", 1, 0, 6),
             Imm("LW", 2, 1, 16), R("SW", 0, 1, 1), I("SW", 0, 1, 1, 1, "none"),
             Priv("ECALL"), Priv("EBREAK")}

FaultPrograms == WithHandler(FaultOps, {Priv("ERET"), Again})

(* Control registers.  Only mscratch, which no trap sets, is accessed next *)
(* to a trap; the other registers two instructions away from one, and none *)
(* whose bits are masked is read back at once: next to a trap the bypassed *)
(* value of a register and the one the trap has set differ.                *)
ScratchOps == {CSR("CSRRW", 1, 2, "mscratch"), CSR("CSRRW", 2, 1, "mscratch"),
               CSR("CSRR", 1, 0, "mscratch"), CSR("CSRR", 1, 0, "none"),
               Imm("ADDI", 1, 0, 4), Priv("ECALL")}

FarOps == {CSR("CSRRW", 1, 2, "mepc"), CSR("CSRRW", 1, 0, "mstatus"),
           CSR("CSRRW", 2, 1, "mcause"), CSR("CSRR", 1, 0, "mbadaddr"),
           CSR("CSRR", 2, 0, "mstatus"), CSR("CSRR", 1, 0, "mepc")}

QuietOps == {Imm("ADDI", 2, 1, 4), Imm("LW", 2, 0, 0), R("MUL", 1, 1, 2)}

(* first at the reset PC, only others after it.                            *)
AtStart(first, others, handlers) ==
    {p \in WithHandler(first \cup others, handlers) :
        p[512] \in first /\ p[516] \in others /\ p[520] \in others}

CSRPrograms == WithHandler(ScratchOps, {Again})
                 \cup AtStart(FarOps, QuietOps, {Again, Priv("ERET")})

(* Programs for the debugger: the result of an instruction is in the       *)
(* register file two instructions before the breakpoint.                   *)
DebugMains == {<<Imm("ADDI", 1, 1, 4), I("BEQ", 0, 0, 1, 4, "none"), Priv("EBREAK")>>,
               <<R("SUB", 2, 1, 1), I("BEQ", 0, 0, 1, 4, "none"), Priv("EBREAK")>>}

InMain(mains, handler) ==
    {[a \in Main \cup {MVector, UVector} |->
         IF a \in Main THEN m[((a - 512) \div 4) + 1] ELSE handler] : m \in mains}

DebugPrograms == InMain(DebugMains, Stop)

AllPrograms == DataPrograms \cup TrapPrograms \cup FaultPrograms \cup CSRPrograms
               \cup DebugPrograms

(* Programs without an accumulating instruction, so that the values stay   *)
(* few over any number of resets, and without WFI.                         *)
ResetOps == {Imm("ADDI", 1, 0, 4), R("MUL", 2, 0, 1), Imm("LW", 2, 0, 4),
             Imm("LW", 1, 0, 6), R("SW", 0, 0, 1), Priv("EBREAK"), CSR("CSRR", 2, 0, "mscratch")}

ResetPrograms == WithHandler(ResetOps, {Again})

-----------------------------------------------------------------------------
(* Requests of the debugger.                                               *)
Request(op, reg, word) == [op |-> op, reg |-> reg, word |-> word]
Continue == Request("continue", 0, 0)

JustContinue == {Continue}

DebugRequests ==
    {Continue, Request("refused", 0, 0), Request("read_pc", 0, 0),
     Request("read_gpr", 0, 0), Request("read_gpr", 1, 0), Request("read_gpr", 2, 0),
     Request("write_gpr", 1, 8), Request("write_gpr", 2, 1020),
     Request("write_pc", 0, 512), Request("write_pc", 0, 516)}

(* The debugger does more than continue with the programs meant for it.    *)
DebuggedNext ==
    \/ Units \/ RlRun \/ ResetStart
    \/ RlPreRun \/ RlPostRun \/ RlReset \/ ControlResponse
    \/ \E req \in DebugReqs :
          /\ req = Continue \/ prog \in DebugPrograms
          /\ ControlRequest(req)

DebuggedSpec == Init /\ [][DebuggedNext]_vars
=============================================================================
