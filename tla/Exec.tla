-------------------------------- MODULE Exec --------------------------------
(***************************************************************************)
(* mkRISCV_Exec.v: the combinational execution unit.  From the instruction,*)
(* its PC, the bypassed operands and the CSR (a record with a valid bit) it*)
(* makes the one record stage 1 acts on.  The tag says which way the       *)
(* instruction leaves stage 1: "ILLEGAL" traps, "BRANCH" leaves stage 2    *)
(* empty, the others name what stage 2 waits for.                          *)
(***************************************************************************)
EXTENDS RV32

Tag(i, v_csr) ==
    CASE i.op = "BEQ"                      -> "BRANCH"
      [] i.op \in ALU_OPS \cup JUMP_OPS    -> "ALU"
      [] i.op = "MUL"                      -> "MBOX"
      [] i.op = "LW"                       -> "LOAD"
      [] i.op = "SW"                       -> "STORE"
      [] i.op \in CSR_OPS /\ v_csr.valid   -> "ALU"
      [] OTHER                             -> "ILLEGAL"

NextPC(i, pc, v1, v2) ==
    CASE i.op = "BEQ" /\ v1 = v2 -> Wrap(pc + i.imm)
      [] i.op = "JALR"           -> Wrap(v1 + i.imm)
      [] i.op = "JAL"            -> Wrap(pc + i.imm)
      [] OTHER                   -> Wrap(pc + 4)

(* Mutant: the adder has a carry out.                                      *)
MutValue1Carry(i, pc, v1, v2, v_csr) ==
    CASE i.op \in {"ADDI", "LW", "SW"} -> v1 + i.imm
      [] i.op = "ADD"                  -> v1 + v2
      [] i.op = "SUB"                  -> v1 - v2
      [] i.op \in JUMP_OPS \cup {"BEQ"} -> pc + 4
      [] i.op = "MUL"                  -> v1
      [] OTHER                         -> v_csr.value

(* The result of an ALU operation, the link of a jump, the address of a    *)
(* load or store, the first operand of a multiplication, the old CSR.      *)
Value1(i, pc, v1, v2, v_csr) ==
    CASE i.op \in {"ADDI", "LW", "SW"} -> Wrap(v1 + i.imm)
      [] i.op = "ADD"                  -> Wrap(v1 + v2)
      [] i.op = "SUB"                  -> Wrap(v1 - v2)
      [] i.op \in JUMP_OPS \cup {"BEQ"} -> Wrap(pc + 4)
      [] i.op = "MUL"                  -> v1
      [] OTHER                         -> v_csr.value

(* CSRRW writes v1; CSRR (CSRRS with x0) writes the CSR back.  Every other *)
(* instruction leaves the field unspecified.                               *)
CSRResult(i, v1, v_csr) ==
    IF i.op \in CSR_OPS
    THEN [valid |-> TRUE, value |-> IF i.op = "CSRRW" THEN v1 ELSE v_csr.value]
    ELSE [valid |-> FALSE, value |-> UNSPECIFIED]

do_riscv(i, pc, v1, v2, v_csr) ==
    [tag |-> Tag(i, v_csr), next_pc |-> NextPC(i, pc, v1, v2), rd |-> i.rd,
     value1 |-> Value1(i, pc, v1, v2, v_csr), value2 |-> v2,
     csr |-> CSRResult(i, v1, v_csr)]
=============================================================================
