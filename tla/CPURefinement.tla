--------------------------- MODULE CPURefinement ---------------------------
(***************************************************************************)
(* The pipeline of CPU.tla implements the machine of ISA.tla.  What the    *)
(* program and the debugger may see of the pipeline is its register files  *)
(* overlaid with the results on their way to them.                         *)
(***************************************************************************)
EXTENDS CPU

CONSTANT PreciseDataFaults

mode == CASE rg_state = "RESET" -> "reset"
          [] rg_state \in {"IDLE", "POST_RUN"} -> "halted"
          [] OTHER -> "running"

(* The load, store or multiplication in stage 2 has not happened yet.      *)
S2Pending == s2.state \in {"LOAD", "STORE", "MBOX"} /\ (~S2Done \/ S2Trap)

pc == CASE mode # "running"      -> -1
        [] rg_state = "PRE_RUN" -> rg_resume_pc
        [] OTHER                -> IF S2Pending THEN h_pc ELSE ic.pc

gprView == IF mode = "reset" THEN regfile ELSE [r \in Reg |-> Bypassed(r)]

csrView == IF mode = "reset" THEN csr
           ELSE IF s2.state = "ALU" /\ s2.csr.valid
           THEN ma_write(CSRWrittenBack, s2.csr_addr, s2.csr.value)
           ELSE CSRWrittenBack

Arch == INSTANCE ISA WITH gpr <- gprView, csr <- csrView, resume <- rg_resume_pc,
                          dbg <- f_fabric_rsps

(* Every edge executes at most one instruction of the program, whole and   *)
(* in order, with the operands the program order gives it; traps are       *)
(* precise and a reset or a breakpoint leaves nothing half done.           *)
ImplementsISA == Arch!Spec

-----------------------------------------------------------------------------
(* Where the code is known to keep another promise than that one.  An edge *)
(* that meets none of these cases keeps it (CPU_proofs).                   *)
S2Writes(a) == s2.state = "ALU" /\ s2.csr.valid /\ s2.csr_addr = a
S3Writes(a) == s3.state /\ s3.csr.valid /\ s3.csr_addr = a

(* The handler is promised what a faulting load or store reports of itself.*)
FaultReported ==
    /\ PreciseDataFaults
    /\ dc.st # "idle"
    /\ ~Aligned(dc.addr) \/ (dc.op = "LOAD" /\ dc.addr \notin DMem)

(* A trap or a return uses a register that a CSR instruction ahead of it   *)
(* has not written yet, or has it overwrite what the trap writes.          *)
TrapBehindCSRWrite ==
    /\ RunS1Trap \/ RunS2Trap
    /\ S3Writes("mstatus") \/ \E a \in {"mstatus", "mepc", "mcause", "mbadaddr"} : S2Writes(a)

EretBehindCSRWrite ==
    /\ RunEret
    /\ \E a \in {"mstatus", "mepc"} : S2Writes(a) \/ S3Writes(a)

(* A CSR is read while a word is on the way to it which it will not keep.  *)
MaskedBypass ==
    /\ RunIssue /\ instr.op \in CSR_OPS
    /\ LET word == BypassedCSR(instr.csr).value IN Kept(instr.csr, word) # word

(* The debugger reads or writes a register whose last value stage 3 still  *)
(* holds, or writes register 0.                                            *)
StaleDebug ==
    \E req \in DebugReqs :
       /\ ControlRequest(req)
       /\ \/ req.op \in {"read_gpr", "write_gpr"} /\ s3.state /\ s3.rd # 0 /\ s3.rd = req.reg
          \/ req.op = "write_gpr" /\ req.reg = 0

Divergence == \/ FaultReported \/ TrapBehindCSRWrite \/ EretBehindCSRWrite
              \/ MaskedBypass \/ StaleDebug
=============================================================================
