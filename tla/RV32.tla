-------------------------------- MODULE RV32 --------------------------------
(***************************************************************************)
(* The values the processor works on: words, instructions and the machine- *)
(* mode control registers, shared by the instruction-set specification     *)
(* (ISA.tla) and the pipeline (CPU.tla).  The hardware has WordMod = 2^32; *)
(* 1024 is the least power of two at which the reset PC (512), the trap    *)
(* vectors (256 and 448) and a six-bit mstatus are the source's numbers.   *)
(***************************************************************************)
EXTENDS Integers

CONSTANTS WordMod,    \* number of values of a word
          Reg         \* the general registers modelled, 0 among them

ASSUME RVAssumption == /\ WordMod \in Nat /\ WordMod >= 1024 /\ WordMod % 2 = 0
                       /\ Reg \subseteq Nat /\ 0 \in Reg

Word == 0 .. WordMod - 1

Wrap(n) == n % WordMod

SignBit == WordMod \div 2

Aligned(addr) == addr % 4 = 0

(* The low bits of 32'hAAAAAAAA, the value of an unwritten word. *)
UNSPECIFIED == 682

RESET_PC == 512

-----------------------------------------------------------------------------
(* Instructions, by the classes the pipeline tells apart.  imm is a word   *)
(* (a negative offset is its two's complement).                            *)
ALU_OPS == {"ADDI", "ADD", "SUB"}
JUMP_OPS == {"JAL", "JALR"}
PRIV_OPS == {"ECALL", "EBREAK", "ERET", "WFI"}
CSR_OPS == {"CSRRW", "CSRR"}
OPS == ALU_OPS \cup JUMP_OPS \cup PRIV_OPS \cup CSR_OPS
         \cup {"BEQ", "MUL", "LW", "SW", "ILLEGAL"}

CSR_NAMES == {"mstatus", "mepc", "mcause", "mbadaddr", "mscratch"}

Instr == [op : OPS, rd : Reg, rs1 : Reg, rs2 : Reg, imm : Word,
          csr : CSR_NAMES \cup {"none"}]

-----------------------------------------------------------------------------
(* The machine-mode registers.  mstatus is two (privilege, interrupt-      *)
(* enable) entries of three bits, the current one in the low bits.         *)
CSRs == [mstatus : 0 .. 63, mepc : Word, mcause : Word, mbadaddr : Word,
         mscratch : Word]

MSTATUS_RESET == 62

prv(mstatus) == (mstatus % 8) \div 2

PushMstatus(mstatus) == ((mstatus % 8) * 8) + 6

PopMstatus(mstatus) == 8 + (mstatus \div 8)

(* Each mode has its own vector, 64 bytes apart. *)
TrapVector(mstatus) == Wrap(256 + (64 * prv(mstatus)))

(* What a register keeps of the word written to it: six bits of mstatus,   *)
(* the top bit and the four low bits of mcause.                            *)
Kept(addr, value) ==
    CASE addr = "mstatus" -> value % 64
      [] addr = "mcause"  -> ((value \div SignBit) * SignBit) + (value % 16)
      [] OTHER            -> value

ma_write(csr, addr, value) == [csr EXCEPT ![addr] = Kept(addr, value)]

(* The registers after a trap taken in the state csr: it wins over a       *)
(* software write of the same cycle, which is already in written.          *)
TrapCSRs(csr, written, epc, cause, badaddr) ==
    [written EXCEPT !.mstatus = PushMstatus(csr.mstatus), !.mepc = epc,
                    !.mcause = cause, !.mbadaddr = badaddr]

EretCSRs(csr, written) == [written EXCEPT !.mstatus = PopMstatus(csr.mstatus)]

(* Exception codes. *)
FETCH_MISALIGNED == 0
FETCH_FAULT == 1
ILLEGAL_INSTRUCTION == 2
BREAKPOINT == 3
LOAD_MISALIGNED == 4
LOAD_FAULT == 5
STORE_MISALIGNED == 6
ECALL_FROM_U == 8
=============================================================================
