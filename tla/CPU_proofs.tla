----------------------------- MODULE CPU_proofs -----------------------------
(***************************************************************************)
(* What holds of the pipeline for every width of a word, every program,    *)
(* every set of registers and every debugger.                              *)
(***************************************************************************)
EXTENDS CPURefinement, TLAPS

-----------------------------------------------------------------------------
(* Words.                                                                  *)
LEMMA WrapType == \A n \in Int : Wrap(n) \in Word
  BY RVAssumption DEF Wrap, Word

LEMMA WordFacts ==
  /\ Word \subseteq Int
  /\ 0 \in Word /\ UNSPECIFIED \in Word /\ RESET_PC \in Word
  /\ 0 .. 63 \subseteq Word /\ MSTATUS_RESET \in 0 .. 63
  BY RVAssumption DEF Word, UNSPECIFIED, RESET_PC, MSTATUS_RESET

(* mcause keeps its top bit and four low bits: still a word.               *)
LEMMA CauseKept ==
  ASSUME NEW v \in Word
  PROVE  ((v \div SignBit) * SignBit) + (v % 16) \in Word
<1>1. SignBit \in Nat /\ SignBit >= 512 /\ WordMod = 2 * SignBit
  BY RVAssumption DEF SignBit
<1>2. v \in Nat /\ v < 2 * SignBit
  BY <1>1, RVAssumption DEF Word
<1>3. v \div SignBit \in {0, 1}
  BY <1>1, <1>2
<1>4. v % 16 \in 0 .. 15
  BY <1>2
<1>5. CASE v \div SignBit = 0
  BY <1>1, <1>4, <1>5 DEF Word
<1>6. CASE v \div SignBit = 1
  BY <1>1, <1>4, <1>6 DEF Word
<1> QED
  BY <1>3, <1>5, <1>6

-----------------------------------------------------------------------------
(* The control registers.                                                  *)
LEMMA MstatusFacts ==
  ASSUME NEW m \in 0 .. 63
  PROVE  /\ PushMstatus(m) \in 0 .. 63
         /\ PopMstatus(m) \in 0 .. 63
         /\ prv(m) \in 0 .. 3
         /\ TrapVector(m) \in Word
<1>1. PushMstatus(m) \in 0 .. 63 /\ PopMstatus(m) \in 0 .. 63 /\ prv(m) \in 0 .. 3
  BY DEF PushMstatus, PopMstatus, prv
<1>2. TrapVector(m) \in Word
  BY <1>1, WrapType DEF TrapVector
<1> QED
  BY <1>1, <1>2

LEMMA KeptType ==
  ASSUME NEW addr, NEW v \in Word
  PROVE  /\ Kept(addr, v) \in Word
         /\ addr = "mstatus" => Kept(addr, v) \in 0 .. 63
<1>1. v \in Int /\ v % 64 \in 0 .. 63
  BY WordFacts
<1>2. CASE addr = "mstatus"
  BY <1>1, <1>2, WordFacts DEF Kept
<1>3. CASE addr = "mcause"
  BY <1>3, CauseKept DEF Kept
<1>4. CASE addr # "mstatus" /\ addr # "mcause"
  BY <1>4 DEF Kept
<1> QED
  BY <1>2, <1>3, <1>4

LEMMA ma_writeType ==
  ASSUME NEW c \in CSRs, NEW addr \in CSRAddr, NEW v \in Word
  PROVE  ma_write(c, addr, v) \in CSRs
<1>1. CASE addr = "mstatus"
  BY <1>1, KeptType DEF ma_write, CSRs
<1>2. CASE addr = "mepc"
  BY <1>2, KeptType DEF ma_write, CSRs
<1>3. CASE addr = "mcause"
  BY <1>3, KeptType DEF ma_write, CSRs
<1>4. CASE addr = "mbadaddr"
  BY <1>4, KeptType DEF ma_write, CSRs
<1>5. CASE addr = "mscratch"
  BY <1>5, KeptType DEF ma_write, CSRs
<1>6. CASE addr = "none"
  BY <1>6 DEF ma_write, CSRs
<1> QED
  BY <1>1, <1>2, <1>3, <1>4, <1>5, <1>6 DEF CSRAddr, CSR_NAMES

LEMMA TrapCSRsType ==
  ASSUME NEW c \in CSRs, NEW w \in CSRs, NEW epc \in Word, NEW cause \in 0 .. 15,
         NEW badaddr \in Word
  PROVE  TrapCSRs(c, w, epc, cause, badaddr) \in CSRs
<1>1. cause \in Word
  BY WordFacts
<1>2. PushMstatus(c.mstatus) \in 0 .. 63
  BY MstatusFacts DEF CSRs
<1> QED
  BY <1>1, <1>2 DEF TrapCSRs, CSRs

LEMMA EretCSRsType ==
  ASSUME NEW c \in CSRs, NEW w \in CSRs
  PROVE  EretCSRs(c, w) \in CSRs
<1>1. PopMstatus(c.mstatus) \in 0 .. 63
  BY MstatusFacts DEF CSRs
<1> QED
  BY <1>1 DEF EretCSRs, CSRs

-----------------------------------------------------------------------------
(* The execution unit.                                                     *)
TAGS == {"BRANCH", "ALU", "MBOX", "LOAD", "STORE", "ILLEGAL"}

LEMMA do_riscvType ==
  ASSUME NEW i \in Instr, NEW p \in Word, NEW v1 \in Word, NEW v2 \in Word,
         NEW c \in CSRField
  PROVE  /\ do_riscv(i, p, v1, v2, c).tag \in TAGS
         /\ do_riscv(i, p, v1, v2, c).next_pc \in Word
         /\ do_riscv(i, p, v1, v2, c).rd \in Reg
         /\ do_riscv(i, p, v1, v2, c).value1 \in Word
         /\ do_riscv(i, p, v1, v2, c).value2 \in Word
         /\ do_riscv(i, p, v1, v2, c).csr \in CSRField
<1>1. i.imm \in Int /\ p \in Int /\ v1 \in Int /\ v2 \in Int
  BY WordFacts DEF Instr
<1>2. Tag(i, c) \in TAGS
  BY DEF Tag, TAGS
<1>3. NextPC(i, p, v1, v2) \in Word
  BY <1>1, WrapType DEF NextPC
<1>4. Value1(i, p, v1, v2, c) \in Word
  BY <1>1, WrapType DEF Value1, CSRField
<1>5. CSRResult(i, v1, c) \in CSRField
  BY WordFacts DEF CSRResult, CSRField
<1>6. i.rd \in Reg
  BY DEF Instr
<1> QED
  BY <1>2, <1>3, <1>4, <1>5, <1>6 DEF do_riscv

-----------------------------------------------------------------------------
(* The wires of stages 2 and 3.                                            *)
LEMMA WiresType ==
  ASSUME TypeOK
  PROVE  /\ S2Done \in BOOLEAN /\ S2Trap \in BOOLEAN /\ S2Result \in BOOLEAN
         /\ S2RegValue \in Word
         /\ S3RdVal \in Word
         /\ \A r \in Reg : Bypassed(r) \in Word
         /\ \A a \in CSRAddr : BypassedCSR(a) \in CSRField
<1>1. s2.rdval \in Word /\ s2.csr \in CSRField /\ s3.rdval \in Word /\ s3.csr \in CSRField
  BY DEF TypeOK
<1>2. dc.word \in Word /\ mb.word \in Word /\ dc.exc \in BOOLEAN
  BY DEF TypeOK
<1>3. S2Done \in BOOLEAN /\ S2Trap \in BOOLEAN /\ S2Result \in BOOLEAN
  BY DEF S2Done, S2Trap, S2Result, DValid, MValid
<1>4. S2RegValue \in Word /\ S3RdVal \in Word
  BY <1>1, <1>2 DEF S2RegValue, S3RdVal
<1>5. \A r \in Reg : regfile[r] \in Word
  BY DEF TypeOK
<1>6. \A r \in Reg : Bypassed(r) \in Word
  BY <1>1, <1>4, <1>5 DEF Bypassed
<1>7. \A a \in CSR_NAMES : csr[a] \in Word
  <2>1. /\ csr.mepc \in Word /\ csr.mcause \in Word /\ csr.mbadaddr \in Word
        /\ csr.mscratch \in Word /\ csr.mstatus \in 0 .. 63
    BY DEF TypeOK, CSRs
  <2>2. csr.mstatus \in Word
    BY <2>1, WordFacts
  <2> QED
    BY <2>1, <2>2 DEF CSR_NAMES
<1>8. \A a \in CSRAddr : BypassedCSR(a) \in CSRField
  <2> SUFFICES ASSUME NEW a \in CSRAddr
               PROVE  BypassedCSR(a) \in CSRField
    OBVIOUS
  <2>1. CASE a \notin CSR_NAMES
    BY <2>1, WordFacts DEF BypassedCSR, NoCSR, CSRField
  <2>2. CASE a \in CSR_NAMES
    <3>1. s2.csr.value \in Word /\ s3.csr.value \in Word /\ csr[a] \in Word
      BY <1>1, <1>7, <2>2 DEF CSRField
    <3> QED
      BY <2>2, <3>1 DEF BypassedCSR, CSRField
  <2> QED
    BY <2>1, <2>2
<1> QED
  BY <1>3, <1>4, <1>6, <1>8

LEMMA Stage3Type ==
  ASSUME TypeOK
  PROVE  /\ CSRWrittenBack \in CSRs
         /\ Stage3 => /\ regfile' \in [Reg -> Word]
                      /\ s3' \in [state : BOOLEAN, rd : Reg, rdval : Word,
                                  csr_addr : CSRAddr, csr : CSRField]
<1>1. CSRWrittenBack \in CSRs
  <2>1. csr \in CSRs /\ s3.csr_addr \in CSRAddr /\ s3.csr.value \in Word
    BY DEF TypeOK, CSRField
  <2> QED
    BY <2>1, ma_writeType DEF CSRWrittenBack
<1>2. ASSUME Stage3
      PROVE  regfile' \in [Reg -> Word]
  BY <1>2 DEF TypeOK, Stage3, WrittenBack
<1>3. ASSUME Stage3
      PROVE  s3' \in [state : BOOLEAN, rd : Reg, rdval : Word,
                      csr_addr : CSRAddr, csr : CSRField]
  <2>1. s2.rd \in Reg /\ s2.csr_addr \in CSRAddr /\ s2.csr.value \in Word
        /\ s2.csr.valid \in BOOLEAN
    BY DEF TypeOK, CSRField
  <2>2. S2Result \in BOOLEAN /\ S3RdVal \in Word
    BY WiresType
  <2>3. (s2.state = "ALU" /\ s2.csr.valid) \in BOOLEAN
    OBVIOUS
  <2>4. [valid |-> s2.state = "ALU" /\ s2.csr.valid, value |-> s2.csr.value] \in CSRField
    BY <2>1, <2>3 DEF CSRField
  <2> QED
    BY <1>3, <2>1, <2>2, <2>4 DEF Stage3
<1> QED
  BY <1>1, <1>2, <1>3

-----------------------------------------------------------------------------
(* Stage 1.                                                                *)
LEMMA ExecutedType ==
  ASSUME TypeOK, ~IExc
  PROVE  /\ instr \in Instr
         /\ executed.tag \in TAGS
         /\ executed.next_pc \in Word
         /\ executed.rd \in Reg
         /\ executed.value1 \in Word
         /\ executed.value2 \in Word
         /\ executed.csr \in CSRField
<1>1. instr \in Instr
  BY DEF TypeOK, Program, IExc, instr
<1>2. instr.rs1 \in Reg /\ instr.rs2 \in Reg /\ instr.csr \in CSRAddr
  BY <1>1 DEF Instr, CSRAddr
<1>3. Bypassed(instr.rs1) \in Word /\ Bypassed(instr.rs2) \in Word
      /\ BypassedCSR(instr.csr) \in CSRField
  BY <1>2, WiresType
<1>4. ic.pc \in Word
  BY DEF TypeOK
<1> QED
  BY <1>1, <1>3, <1>4, do_riscvType DEF executed

LEMMA CauseType ==
  ASSUME TypeOK, NEW cause \in S1TrapCause
  PROVE  cause \in 0 .. 15
<1>1. prv(csr.mstatus) \in 0 .. 3
  BY MstatusFacts DEF TypeOK, CSRs
<1> QED
  BY <1>1 DEF S1TrapCause, IExcCode, FETCH_FAULT, FETCH_MISALIGNED, ECALL_FROM_U,
              BREAKPOINT, ILLEGAL_INSTRUCTION

(* The requests and the freed units.                                       *)
LEMMA RequestTypes ==
  /\ \A a \in Word : IReq(a) \in [st : UNIT_STATES, pc : Word]
  /\ IdleI \in [st : UNIT_STATES, pc : Word]
  /\ IdleD \in [st : UNIT_STATES, op : {"LOAD", "STORE"}, addr : Word, st_value : Word,
                word : Word, exc : BOOLEAN, exc_code : 0 .. 15]
  /\ IdleM \in [st : UNIT_STATES, v1 : Word, v2 : Word, word : Word]
  BY WordFacts DEF IReq, IdleI, IdleD, IdleM, UNIT_STATES

LEMMA FreedType ==
  ASSUME TypeOK, S2Freed
  PROVE  /\ s2' \in [state : S2_STATES, rd : Reg, rdval : Word, csr_addr : CSRAddr,
                     csr : CSRField]
         /\ dc' \in [st : UNIT_STATES, op : {"LOAD", "STORE"}, addr : Word,
                     st_value : Word, word : Word, exc : BOOLEAN, exc_code : 0 .. 15]
         /\ mb' \in [st : UNIT_STATES, v1 : Word, v2 : Word, word : Word]
         /\ h_pc' \in Word
  BY RequestTypes DEF TypeOK, S2Freed, S2_STATES

-----------------------------------------------------------------------------
(* One step per action.                                                    *)
LEMMA InitType == Init => TypeOK
<1> SUFFICES ASSUME Init
             PROVE  TypeOK
  OBVIOUS
<1>1. 0 \in Reg /\ 0 \in Word /\ UNSPECIFIED \in Word /\ RESET_PC \in Word
      /\ MSTATUS_RESET \in 0 .. 63
  BY WordFacts, RVAssumption
<1>2. NoRsp \in [kind : {"none", "gpr", "resume_pc", "write", "refused"},
                 reg : Reg, word : Word]
  BY <1>1 DEF NoRsp, Rsp
<1>3. NoCSR \in CSRField /\ "none" \in CSRAddr
  BY <1>1 DEF NoCSR, CSRField, CSRAddr
<1>4. csr \in CSRs
  BY <1>1 DEF Init, CSRs
<1>5. Program(prog)
  BY CPUAssumption DEF Init
<1> QED
  BY <1>1, <1>2, <1>3, <1>4, <1>5, RequestTypes DEF Init, TypeOK, CPU_STATES, S2_STATES

LEMMA UnitsType ==
  ASSUME TypeOK, Units
  PROVE  TypeOK'
<1>1. CASE ICacheReady
  BY <1>1 DEF TypeOK, ICacheReady, UNIT_STATES, coreVars
<1>2. CASE DCacheValid
  <2> DEFINE D == [st : UNIT_STATES, op : {"LOAD", "STORE"}, addr : Word,
                   st_value : Word, word : Word, exc : BOOLEAN, exc_code : 0 .. 15]
  <2>1. dc' \in D
    <3>1. ASSUME NEW exc \in BOOLEAN, NEW code \in 0 .. 15, NEW word \in Word
          PROVE  DAnswer(exc, code, word) \in D
      BY DEF DAnswer, TypeOK, UNIT_STATES
    <3>2. dc.addr \in Word /\ UNSPECIFIED \in Word
          /\ (dc.addr \in DMem => mem[dc.addr] \in Word)
      BY WordFacts DEF TypeOK
    <3>3. /\ LOAD_MISALIGNED \in 0 .. 15 /\ STORE_MISALIGNED \in 0 .. 15
          /\ LOAD_FAULT \in 0 .. 15 /\ 0 \in 0 .. 15
      BY DEF LOAD_MISALIGNED, STORE_MISALIGNED, LOAD_FAULT
    <3>4. /\ DAnswer(TRUE, LOAD_MISALIGNED, UNSPECIFIED) \in D
          /\ DAnswer(TRUE, STORE_MISALIGNED, UNSPECIFIED) \in D
          /\ DAnswer(TRUE, LOAD_FAULT, UNSPECIFIED) \in D
          /\ DAnswer(FALSE, 0, UNSPECIFIED) \in D
          /\ DAnswer(FALSE, 0, dc.addr) \in D
          /\ dc.addr \in DMem => DAnswer(FALSE, 0, mem[dc.addr]) \in D
      BY <3>1, <3>2, <3>3
    <3> HIDE DEF D
    <3>5. DAnswers \subseteq D
      <4>1. CASE ~Aligned(dc.addr)
        <5>1. DAnswers = {DAnswer(TRUE, LOAD_MISALIGNED, UNSPECIFIED),
                          DAnswer(TRUE, STORE_MISALIGNED, UNSPECIFIED)}
          BY <4>1 DEF DAnswers
        <5> QED
          BY <3>4, <5>1
      <4>2. CASE Aligned(dc.addr) /\ dc.op = "STORE"
        <5>1. DAnswers = {DAnswer(FALSE, 0, dc.addr)}
          BY <4>2 DEF DAnswers
        <5> QED
          BY <3>4, <5>1
      <4>3. CASE Aligned(dc.addr) /\ dc.op = "LOAD"
        <5>1. DAnswers = IF dc.addr \in DMem THEN {DAnswer(FALSE, 0, mem[dc.addr])}
                         ELSE {DAnswer(TRUE, LOAD_FAULT, UNSPECIFIED),
                               DAnswer(FALSE, 0, UNSPECIFIED)}
          BY <4>3 DEF DAnswers
        <5> QED
          BY <3>4, <5>1
      <4>4. dc.op \in {"LOAD", "STORE"}
        BY DEF TypeOK
      <4> QED
        BY <4>1, <4>2, <4>3, <4>4
    <3> QED
      BY <1>2, <3>5 DEF DCacheValid
  <2>2. mem' \in [DMem -> Word]
    BY <1>2 DEF DCacheValid, TypeOK
  <2> QED
    BY <1>2, <2>1, <2>2 DEF TypeOK, DCacheValid, coreVars
<1>3. CASE MBoxValid
  <2>1. mb.v1 \in Int /\ mb.v2 \in Int
    BY WordFacts DEF TypeOK
  <2>2. Wrap(mb.v1 * mb.v2) \in Word
    <3>1. \A x, y \in Int : x * y \in Int
      OBVIOUS
    <3> QED
      BY <2>1, <3>1, WrapType
  <2> QED
    BY <1>3, <2>2 DEF TypeOK, MBoxValid, UNIT_STATES, coreVars
<1> QED
  BY <1>1, <1>2, <1>3 DEF Units

LEMMA RunS2TrapType ==
  ASSUME TypeOK, RunS2Trap
  PROVE  TypeOK'
<1>1. csr' \in CSRs
  <2>1. csr \in CSRs /\ s2.csr.value \in Word /\ dc.exc_code \in 0 .. 15
    BY DEF TypeOK, CSRField
  <2> QED
    BY <2>1, WiresType, Stage3Type, TrapCSRsType DEF RunS2Trap
<1>2. ic' \in [st : UNIT_STATES, pc : Word]
  BY RequestTypes, MstatusFacts DEF RunS2Trap, TypeOK, CSRs
<1> QED
  BY <1>1, <1>2, Stage3Type, FreedType DEF RunS2Trap, Running, TypeOK

LEMMA RunS1TrapType ==
  ASSUME TypeOK, RunS1Trap
  PROVE  TypeOK'
<1>1. PICK cause \in S1TrapCause :
         /\ csr' = TrapCSRs(csr, CSRWrittenBack, ic.pc, cause, ic.pc)
         /\ rg_state' = IF cause = BREAKPOINT /\ prv(csr.mstatus) = 3
                        THEN "POST_RUN" ELSE rg_state
  BY DEF RunS1Trap
<1>2. csr' \in CSRs
  <2>1. csr \in CSRs /\ ic.pc \in Word
    BY DEF TypeOK
  <2> QED
    BY <1>1, <2>1, CauseType, Stage3Type, TrapCSRsType
<1>3. rg_state' \in CPU_STATES
  BY <1>1 DEF TypeOK, CPU_STATES
<1>4. ic' \in [st : UNIT_STATES, pc : Word]
  BY RequestTypes, MstatusFacts DEF RunS1Trap, TypeOK, CSRs
<1> QED
  BY <1>2, <1>3, <1>4, Stage3Type, FreedType DEF RunS1Trap, Running, TypeOK

LEMMA RunEretType ==
  ASSUME TypeOK, RunEret
  PROVE  TypeOK'
<1>1. csr' \in CSRs
  BY Stage3Type, EretCSRsType DEF RunEret, TypeOK
<1>2. ic' \in [st : UNIT_STATES, pc : Word]
  BY RequestTypes DEF RunEret, TypeOK, CSRs
<1> QED
  BY <1>1, <1>2, Stage3Type, FreedType DEF RunEret, Running, TypeOK

LEMMA RunIssueType ==
  ASSUME TypeOK, RunIssue
  PROVE  TypeOK'
<1>1. ~IExc /\ executed.tag # "ILLEGAL"
  BY DEF RunIssue, S1Executes
<1>2. s2' \in [state : S2_STATES, rd : Reg, rdval : Word, csr_addr : CSRAddr,
               csr : CSRField]
  BY <1>1, ExecutedType DEF RunIssue, Instr, CSRAddr, TAGS, S2_STATES
<1>3. dc' \in [st : UNIT_STATES, op : {"LOAD", "STORE"}, addr : Word,
               st_value : Word, word : Word, exc : BOOLEAN, exc_code : 0 .. 15]
  <2>1. CASE executed.tag \in {"LOAD", "STORE"}
    BY <1>1, <2>1, ExecutedType, RequestTypes DEF RunIssue, DReq, IdleD, UNIT_STATES
  <2>2. CASE executed.tag \notin {"LOAD", "STORE"}
    BY <2>2, RequestTypes DEF RunIssue, TypeOK
  <2> QED
    BY <2>1, <2>2
<1>4. mb' \in [st : UNIT_STATES, v1 : Word, v2 : Word, word : Word]
  <2>1. CASE executed.tag = "MBOX"
    BY <1>1, <2>1, ExecutedType, RequestTypes DEF RunIssue, MReq, IdleM, UNIT_STATES
  <2>2. CASE executed.tag # "MBOX"
    BY <2>2, RequestTypes DEF RunIssue, TypeOK
  <2> QED
    BY <2>1, <2>2
<1>5. ic' \in [st : UNIT_STATES, pc : Word] /\ h_pc' \in Word
  BY <1>1, ExecutedType, RequestTypes DEF RunIssue, TypeOK
<1>6. csr' \in CSRs
  BY Stage3Type DEF RunIssue
<1> QED
  BY <1>2, <1>3, <1>4, <1>5, <1>6, Stage3Type DEF RunIssue, Running, TypeOK

LEMMA RunWaitType ==
  ASSUME TypeOK, RunWait
  PROVE  TypeOK'
<1>1. csr' \in CSRs
  BY Stage3Type DEF RunWait
<1>2. /\ s2' \in [state : S2_STATES, rd : Reg, rdval : Word, csr_addr : CSRAddr,
                  csr : CSRField]
      /\ dc' \in [st : UNIT_STATES, op : {"LOAD", "STORE"}, addr : Word,
                  st_value : Word, word : Word, exc : BOOLEAN, exc_code : 0 .. 15]
      /\ mb' \in [st : UNIT_STATES, v1 : Word, v2 : Word, word : Word]
      /\ h_pc' \in Word
  <2>1. CASE S2Freed
    BY <2>1, FreedType
  <2>2. CASE UNCHANGED <<s2, dc, mb, h_pc>>
    BY <2>2 DEF TypeOK
  <2> QED
    BY <2>1, <2>2 DEF RunWait
<1> QED
  BY <1>1, <1>2, Stage3Type DEF RunWait, Running, TypeOK

LEMMA RlRunType ==
  ASSUME TypeOK, RlRun
  PROVE  TypeOK'
  BY RunS2TrapType, RunS1TrapType, RunEretType, RunIssueType, RunWaitType DEF RlRun

LEMMA ResetType ==
  ASSUME TypeOK, RlReset \/ ResetStart
  PROVE  TypeOK'
<1>1. CASE RlReset
  <2>1. NoRsp' = NoRsp /\ NoRsp \in [kind : {"none", "gpr", "resume_pc", "write", "refused"},
                                     reg : Reg, word : Word]
    BY RVAssumption, WordFacts DEF NoRsp, Rsp
  <2>2. csr' \in CSRs
    BY <1>1, WordFacts DEF RlReset, TypeOK, CSRs
  <2>3. regfile' \in [Reg -> Word]
    BY <1>1, WordFacts DEF RlReset, TypeOK
  <2>4. s2' \in [state : S2_STATES, rd : Reg, rdval : Word, csr_addr : CSRAddr,
                 csr : CSRField]
    BY <1>1 DEF RlReset, TypeOK, S2_STATES
  <2>5. s3' \in [state : BOOLEAN, rd : Reg, rdval : Word, csr_addr : CSRAddr,
                 csr : CSRField]
    BY <1>1 DEF RlReset, TypeOK
  <2> QED
    BY <1>1, <2>1, <2>2, <2>3, <2>4, <2>5, WordFacts
       DEF RlReset, TypeOK, CPU_STATES, unitVars
<1>2. CASE ResetStart
  BY <1>2, RequestTypes DEF ResetStart, TypeOK, CPU_STATES, coreVars
<1> QED
  BY <1>1, <1>2

LEMMA ControlType ==
  ASSUME TypeOK, Control
  PROVE  TypeOK'
<1> DEFINE Responses == [kind : {"none", "gpr", "resume_pc", "write", "refused"},
                         reg : Reg, word : Word]
<1>1. /\ \A k \in {"none", "gpr", "resume_pc", "write", "refused"}, r \in Reg, w \in Word :
            Rsp(k, r, w) \in Responses
      /\ NoRsp \in Responses /\ 0 \in Reg /\ 0 \in Word
  BY RVAssumption, WordFacts DEF Rsp, NoRsp
<1>2. CASE RlPreRun
  BY <1>2, RequestTypes DEF RlPreRun, TypeOK, CPU_STATES, coreVars
<1>3. CASE RlPostRun
  BY <1>3 DEF RlPostRun, TypeOK, CPU_STATES, coreVars, unitVars
<1>4. CASE RlReset
  BY <1>4, ResetType
<1>5. CASE ControlResponse
  BY <1>1, <1>5 DEF ControlResponse, TypeOK, coreVars, unitVars
<1>6. ASSUME NEW req \in DebugReqs, ControlRequest(req)
      PROVE  TypeOK'
  <2>1. req.reg \in Reg /\ req.word \in Word /\ regfile[req.reg] \in Word
        /\ rg_resume_pc \in Word
    BY CPUAssumption DEF TypeOK
  <2>2. f_fabric_rsps' \in Responses
    BY <1>1, <1>6, <2>1 DEF ControlRequest
  <2>3. regfile' \in [Reg -> Word] /\ rg_resume_pc' \in Word /\ rg_state' \in CPU_STATES
    BY <1>6, <2>1 DEF ControlRequest, TypeOK, CPU_STATES
  <2> QED
    BY <1>6, <2>2, <2>3 DEF ControlRequest, TypeOK, unitVars
<1> QED
  BY <1>2, <1>3, <1>4, <1>5, <1>6 DEF Control

(* Every value stays in its width and every state in its set, whatever the *)
(* units answer, the debugger asks and the SoC resets.                     *)
THEOREM TypeCorrect == Spec => []TypeOK
<1>1. ASSUME TypeOK, [Next]_vars
      PROVE  TypeOK'
  <2>1. CASE UNCHANGED vars
    BY <1>1, <2>1 DEF vars, coreVars, unitVars, TypeOK
  <2> QED
    BY <1>1, <2>1, UnitsType, RlRunType, ControlType, ResetType DEF Next
<1> QED
  BY <1>1, InitType, PTL DEF Spec

-----------------------------------------------------------------------------
(* Stage 2 and the units it waits for.  UnitsServeStage2 is not inductive: *)
(* after a reset it holds only because the reset has cleared the data      *)
(* cache before the controller empties stage 2.                            *)
UnitsInv ==
    /\ TypeOK
    /\ UnitsServeStage2
    /\ FetchOutstanding
    /\ rg_state = "RESET" => dc.st = "idle"

LEMMA UnitStates ==
  /\ IdleI.st = "idle" /\ IdleD.st = "idle" /\ IdleM.st = "idle"
  /\ \A a : IReq(a).st = "busy"
  /\ \A x : DReq(x).st = "busy" /\ DReq(x).op = x.tag
  /\ \A x : MReq(x).st = "busy"
  BY DEF IdleI, IdleD, IdleM, IReq, DReq, MReq

LEMMA InitUnits == Init => UnitsInv
  BY InitType, UnitStates DEF Init, UnitsInv, UnitsServeStage2, FetchOutstanding

(* In a running pipeline, a stage 2 that is done leaves no request behind. *)
LEMMA FreedUnits ==
  ASSUME UnitsInv, rg_state = "RUNNING", S2Done
  PROVE  /\ DValid \/ dc.st = "idle"
         /\ S2Freed => s2'.state = "EMPTY" /\ dc'.st = "idle"
<1>1. DValid \/ dc.st = "idle"
  BY DEF UnitsInv, UnitsServeStage2, S2Done, DValid
<1>2. ASSUME S2Freed
      PROVE  s2'.state = "EMPTY" /\ dc'.st = "idle"
  <2>1. s2'.state = "EMPTY"
    BY <1>2 DEF S2Freed, UnitsInv, TypeOK
  <2>2. dc'.st = "idle"
    BY <1>1, <1>2, UnitStates DEF S2Freed
  <2> QED
    BY <2>1, <2>2
<1> QED
  BY <1>1, <1>2

LEMMA S2TrapDone ==
  ASSUME S2Trap
  PROVE  S2Done
  BY DEF S2Trap, S2Done

LEMMA UnitsStep ==
  ASSUME UnitsInv, Units, TypeOK'
  PROVE  UnitsInv'
<1>1. CASE ICacheReady
  <2>1. ic'.st = "valid"
    BY <1>1 DEF ICacheReady, UnitsInv, TypeOK
  <2> QED
    BY <1>1, <2>1 DEF UnitsInv, UnitsServeStage2, FetchOutstanding, ICacheReady, coreVars
<1>2. CASE DCacheValid
  <2>1. dc'.st = "valid" /\ dc'.op = dc.op
    <3>1. \E exc, code, word : dc' = DAnswer(exc, code, word)
      <4>1. dc' \in DAnswers /\ dc.op \in {"LOAD", "STORE"}
        BY <1>2 DEF DCacheValid, UnitsInv, TypeOK
      <4>2. CASE ~Aligned(dc.addr)
        <5>1. DAnswers = {DAnswer(TRUE, LOAD_MISALIGNED, UNSPECIFIED),
                          DAnswer(TRUE, STORE_MISALIGNED, UNSPECIFIED)}
          BY <4>2 DEF DAnswers
        <5> QED
          BY <4>1, <5>1
      <4>3. CASE Aligned(dc.addr) /\ dc.op = "STORE"
        <5>1. DAnswers = {DAnswer(FALSE, 0, dc.addr)}
          BY <4>3 DEF DAnswers
        <5> QED
          BY <4>1, <5>1
      <4>4. CASE Aligned(dc.addr) /\ dc.op = "LOAD"
        <5>1. DAnswers \subseteq {DAnswer(FALSE, 0, mem[dc.addr]),
                                  DAnswer(TRUE, LOAD_FAULT, UNSPECIFIED),
                                  DAnswer(FALSE, 0, UNSPECIFIED)}
          BY <4>4 DEF DAnswers
        <5> QED
          BY <4>1, <5>1
      <4> QED
        BY <4>1, <4>2, <4>3, <4>4
    <3>2. dc \in [st : UNIT_STATES, op : {"LOAD", "STORE"}, addr : Word,
                  st_value : Word, word : Word, exc : BOOLEAN, exc_code : 0 .. 15]
      BY DEF UnitsInv, TypeOK
    <3>3. \A exc, code, word : DAnswer(exc, code, word).st = "valid"
                               /\ DAnswer(exc, code, word).op = dc.op
      BY <3>2 DEF DAnswer
    <3> QED
      BY <3>1, <3>3
  <2>2. dc.st = "busy" /\ UNCHANGED <<rg_state, s2, ic, mb>>
    BY <1>2 DEF DCacheValid, coreVars
  <2> QED
    BY <2>1, <2>2 DEF UnitsInv, UnitsServeStage2, FetchOutstanding
<1>3. CASE MBoxValid
  <2>1. mb'.st = "valid"
    BY <1>3 DEF MBoxValid, UnitsInv, TypeOK
  <2> QED
    BY <1>3, <2>1 DEF UnitsInv, UnitsServeStage2, FetchOutstanding, MBoxValid, coreVars
<1> QED
  BY <1>1, <1>2, <1>3 DEF Units

(* Whatever stage 1 does, it frees stage 2 with its unit, issues the next  *)
(* request to a unit that is free, or waits.                               *)
LEMMA RlRunStep ==
  ASSUME UnitsInv, RlRun, TypeOK'
  PROVE  UnitsInv'
<1>1. rg_state = "RUNNING" /\ TypeOK
  BY DEF UnitsInv, RlRun, RunS2Trap, RunS1Trap, RunEret, RunIssue, RunWait, Running
<1>2. CASE RunS2Trap
  <2>1. S2Freed /\ rg_state' = "RUNNING" /\ ic'.st = "busy"
    BY <1>1, <1>2, UnitStates DEF RunS2Trap
  <2>2. s2'.state = "EMPTY" /\ dc'.st = "idle"
    BY <1>1, <1>2, <2>1, FreedUnits, S2TrapDone DEF RunS2Trap
  <2> QED
    BY <2>1, <2>2 DEF UnitsInv, UnitsServeStage2, FetchOutstanding
<1>3. CASE RunS1Trap
  <2>1. S2Freed /\ rg_state' \in {"RUNNING", "POST_RUN"} /\ ic'.st = "busy"
    BY <1>1, <1>3, UnitStates DEF RunS1Trap
  <2>2. s2'.state = "EMPTY" /\ dc'.st = "idle"
    BY <1>1, <1>3, <2>1, FreedUnits DEF RunS1Trap, S1Acts
  <2> QED
    BY <2>1, <2>2 DEF UnitsInv, UnitsServeStage2, FetchOutstanding
<1>4. CASE RunEret
  <2>1. S2Freed /\ rg_state' = "RUNNING" /\ ic'.st = "busy"
    BY <1>1, <1>4, UnitStates DEF RunEret
  <2>2. s2'.state = "EMPTY" /\ dc'.st = "idle"
    BY <1>1, <1>4, <2>1, FreedUnits DEF RunEret, S1Acts
  <2> QED
    BY <2>1, <2>2 DEF UnitsInv, UnitsServeStage2, FetchOutstanding
<1>5. CASE RunIssue
  <2>1. S2Done /\ rg_state' = "RUNNING" /\ ic'.st = "busy"
    BY <1>1, <1>5, UnitStates DEF RunIssue, S1Acts
  <2>2. s2'.state = IF executed.tag = "BRANCH" THEN "EMPTY" ELSE executed.tag
    BY <1>5 DEF RunIssue
  <2>3. CASE executed.tag \in {"LOAD", "STORE"}
    <3>1. dc' = DReq(executed) /\ s2'.state = executed.tag
      BY <1>5, <2>2, <2>3 DEF RunIssue
    <3>2. dc'.st = "busy" /\ dc'.op = executed.tag
      BY <3>1, UnitStates
    <3> QED
      BY <2>1, <2>3, <3>1, <3>2 DEF UnitsInv, UnitsServeStage2, FetchOutstanding
  <2>4. CASE executed.tag \notin {"LOAD", "STORE"}
    <3>1. dc'.st = "idle"
      BY <1>1, <1>5, <2>1, <2>4, FreedUnits, UnitStates DEF RunIssue
    <3>2. s2'.state = "MBOX" => mb'.st = "busy"
      BY <1>5, <2>2, UnitStates DEF RunIssue
    <3>3. s2'.state \notin {"LOAD", "STORE"}
      BY <2>2, <2>4
    <3> QED
      BY <2>1, <3>1, <3>2, <3>3 DEF UnitsInv, UnitsServeStage2, FetchOutstanding
  <2> QED
    BY <2>3, <2>4
<1>6. CASE RunWait
  <2>1. rg_state' = "RUNNING" /\ ic' = ic
    BY <1>1, <1>6 DEF RunWait
  <2>2. CASE S2Done
    <3>1. s2'.state = "EMPTY" /\ dc'.st = "idle"
      BY <1>1, <1>6, <2>2, FreedUnits DEF RunWait
    <3> QED
      BY <1>1, <2>1, <3>1 DEF UnitsInv, UnitsServeStage2, FetchOutstanding
  <2>3. CASE ~S2Done
    <3>1. UNCHANGED <<s2, dc, mb>>
      BY <1>6, <2>3 DEF RunWait
    <3> QED
      BY <1>1, <2>1, <3>1 DEF UnitsInv, UnitsServeStage2, FetchOutstanding
  <2> QED
    BY <2>2, <2>3
<1> QED
  BY <1>2, <1>3, <1>4, <1>5, <1>6 DEF RlRun

LEMMA ControlStep ==
  ASSUME UnitsInv, Control \/ ResetStart, TypeOK'
  PROVE  UnitsInv'
<1>1. CASE RlPreRun
  BY <1>1, UnitStates
     DEF RlPreRun, coreVars, UnitsInv, UnitsServeStage2, FetchOutstanding
<1>2. CASE RlPostRun
  BY <1>2 DEF RlPostRun, coreVars, unitVars, UnitsInv, UnitsServeStage2, FetchOutstanding
<1>3. CASE RlReset
  <2>1. s2'.state = "EMPTY" /\ rg_state' = "IDLE" /\ dc' = dc /\ dc.st = "idle"
    BY <1>3 DEF RlReset, unitVars, UnitsInv, TypeOK
  <2> QED
    BY <2>1 DEF UnitsInv, UnitsServeStage2, FetchOutstanding
<1>4. CASE ControlResponse
  BY <1>4 DEF ControlResponse, coreVars, unitVars, UnitsInv, UnitsServeStage2,
              FetchOutstanding
<1>5. ASSUME NEW req \in DebugReqs, ControlRequest(req)
      PROVE  UnitsInv'
  <2>1. UNCHANGED <<s2, ic, dc, mb>> /\ rg_state = "IDLE" /\ rg_state' \in {"IDLE", "PRE_RUN"}
    BY <1>5 DEF ControlRequest, unitVars
  <2> QED
    BY <2>1 DEF UnitsInv, UnitsServeStage2, FetchOutstanding
<1>6. CASE ResetStart
  BY <1>6, UnitStates DEF ResetStart, UnitsInv, UnitsServeStage2, FetchOutstanding
<1> QED
  BY <1>1, <1>2, <1>3, <1>4, <1>5, <1>6 DEF Control

LEMMA UnitsInductive == UnitsInv /\ [Next]_vars => UnitsInv'
<1> SUFFICES ASSUME UnitsInv, [Next]_vars
             PROVE  UnitsInv'
  OBVIOUS
<1>1. CASE UNCHANGED vars
  BY <1>1 DEF vars, coreVars, unitVars, UnitsInv, TypeOK, UnitsServeStage2,
              FetchOutstanding
<1>2. CASE Units
  <2>1. TypeOK'
    BY <1>2, UnitsType DEF UnitsInv
  <2> QED
    BY <1>2, <2>1, UnitsStep
<1>3. CASE RlRun
  <2>1. TypeOK'
    BY <1>3, RlRunType DEF UnitsInv
  <2> QED
    BY <1>3, <2>1, RlRunStep
<1>4. CASE Control \/ ResetStart
  <2>1. TypeOK'
    BY <1>4, ControlType, ResetType DEF UnitsInv
  <2> QED
    BY <1>4, <2>1, ControlStep
<1> QED
  BY <1>1, <1>2, <1>3, <1>4 DEF Next

LEMMA UnitsAlways == Spec => []UnitsInv
  BY InitUnits, UnitsInductive, PTL DEF Spec

(* A unit has a request of stage 2 exactly while stage 2 waits for it: no  *)
(* trap, breakpoint or reset leaves an answer that a later instruction     *)
(* would take for its own.                                                 *)
THEOREM AnswersAreOnesOwn == Spec => []UnitsServeStage2
<1>1. UnitsInv => UnitsServeStage2
  BY DEF UnitsInv
<1> QED
  BY <1>1, UnitsAlways, PTL

(* A running pipeline never waits for an instruction nobody asked for.     *)
THEOREM AlwaysFetching == Spec => []FetchOutstanding
<1>1. UnitsInv => FetchOutstanding
  BY DEF UnitsInv
<1> QED
  BY <1>1, UnitsAlways, PTL

LEMMA OneRequestStep ==
  ASSUME UnitsInv, [Next]_vars
  PROVE  /\ dc.st = "busy" /\ dc'.st = "busy" => dc' = dc
         /\ (mb.st = "busy" /\ mb'.st = "busy" /\ s2.state = "MBOX") => mb' = mb
<1>1. CASE UNCHANGED vars
  BY <1>1 DEF vars, unitVars
<1>2. CASE Units
  <2>1. CASE ICacheReady
    BY <2>1 DEF ICacheReady
  <2>2. CASE DCacheValid
    <3>1. UnitsInv' /\ UNCHANGED <<s2, rg_state, mb>>
      BY <2>2, UnitsType, UnitsStep DEF Units, UnitsInv, DCacheValid, coreVars
    <3>2. dc'.st # "busy"
      <4>1. dc' \in DAnswers /\ dc.op \in {"LOAD", "STORE"}
        BY <2>2 DEF DCacheValid, UnitsInv, TypeOK
      <4>2. \A exc, code, word : DAnswer(exc, code, word).st = "valid"
        BY DEF DAnswer, UnitsInv, TypeOK
      <4> QED
        BY <4>1, <4>2 DEF DAnswers
    <3> QED
      BY <3>1, <3>2
  <2>3. CASE MBoxValid
    <3>1. mb'.st = "valid" /\ dc' = dc
      BY <2>3 DEF MBoxValid, UnitsInv, TypeOK
    <3> QED
      BY <3>1
  <2> QED
    BY <1>2, <2>1, <2>2, <2>3 DEF Units
<1>3. CASE RlRun
  <2>1. CASE S2Freed
    BY <2>1, UnitStates DEF S2Freed
  <2>2. CASE RunIssue
    <3>1. S2Done /\ rg_state = "RUNNING"
      BY <2>2 DEF RunIssue, S1Acts, Running
    <3>2. dc.st # "busy"
      BY <3>1, FreedUnits DEF DValid
    <3>3. s2.state = "MBOX" => mb.st # "busy"
      BY <3>1 DEF S2Done, MValid
    <3> QED
      BY <3>2, <3>3
  <2>3. CASE UNCHANGED <<s2, dc, mb, h_pc>>
    BY <2>3
  <2> QED
    BY <1>3, <2>1, <2>2, <2>3 DEF RlRun, RunS2Trap, RunS1Trap, RunEret, RunWait
<1>4. CASE Control \/ ResetStart
  BY <1>4, UnitStates DEF Control, ResetStart, RlPreRun, RlPostRun, RlReset,
     ControlResponse, ControlRequest, unitVars
<1> QED
  BY <1>1, <1>2, <1>3, <1>4 DEF Next

(* No unit is asked for a second thing before it has answered the first.   *)
THEOREM OneRequest == Spec => OneRequestAtATime
  BY UnitsAlways, OneRequestStep, PTL DEF Spec, OneRequestAtATime

-----------------------------------------------------------------------------
(* The machine, step by step: an instruction with its effects on the views. *)

(* The words and registers of the two modules are the same.                *)
LEMMA SameWords ==
  /\ Arch!Word = Word
  /\ Arch!CSRs = CSRs
  /\ Arch!NoRsp = NoRsp
  /\ Arch!NoPC = -1
  /\ Arch!CSR_NAMES = CSR_NAMES /\ Arch!CSR_OPS = CSR_OPS
  /\ \A n : Arch!Wrap(n) = Wrap(n)
  /\ \A n : Arch!Aligned(n) <=> Aligned(n)
  /\ \A m : Arch!prv(m) = prv(m)
  /\ \A m : Arch!TrapVector(m) = TrapVector(m)
  /\ \A c, w, p, x, b : Arch!TrapCSRs(c, w, p, x, b) = TrapCSRs(c, w, p, x, b)
  /\ \A c, w : Arch!EretCSRs(c, w) = EretCSRs(c, w)
  /\ \A c, a, v : Arch!ma_write(c, a, v) = ma_write(c, a, v)
  /\ \A k, r, w : Arch!Rsp(k, r, w) = Rsp(k, r, w)
<1>1. Arch!Word = Word
  BY DEF Arch!Word, Word
<1>2. Arch!CSR_NAMES = CSR_NAMES /\ Arch!CSR_OPS = CSR_OPS
  BY DEF Arch!CSR_NAMES, CSR_NAMES, Arch!CSR_OPS, CSR_OPS
<1>3. Arch!CSRs = CSRs
  BY <1>1 DEF Arch!CSRs, CSRs
<1>4. \A k, r, w : Arch!Rsp(k, r, w) = Rsp(k, r, w)
  BY DEF Arch!Rsp, Rsp
<1>5. Arch!NoRsp = NoRsp /\ Arch!NoPC = -1
  BY <1>4 DEF Arch!NoRsp, NoRsp, Arch!NoPC
<1>6. \A n : Arch!Wrap(n) = Wrap(n)
  BY DEF Arch!Wrap, Wrap
<1>7. \A n : Arch!Aligned(n) <=> Aligned(n)
  BY DEF Arch!Aligned, Aligned
<1>8. \A m : Arch!prv(m) = prv(m)
  BY DEF Arch!prv, prv
<1>9. \A m : Arch!TrapVector(m) = TrapVector(m)
  BY <1>6, <1>8 DEF Arch!TrapVector, TrapVector
<1>10. \A c, w, p, x, b : Arch!TrapCSRs(c, w, p, x, b) = TrapCSRs(c, w, p, x, b)
  BY DEF Arch!TrapCSRs, TrapCSRs, Arch!PushMstatus, PushMstatus
<1>11. \A c, w : Arch!EretCSRs(c, w) = EretCSRs(c, w)
  BY DEF Arch!EretCSRs, EretCSRs, Arch!PopMstatus, PopMstatus
<1>12. \A c, a, v : Arch!ma_write(c, a, v) = ma_write(c, a, v)
  BY DEF Arch!ma_write, ma_write, Arch!Kept, Kept, Arch!SignBit, SignBit
<1> QED
  BY <1>1, <1>2, <1>3, <1>4, <1>5, <1>6, <1>7, <1>8, <1>9, <1>10, <1>11, <1>12

(* What a step of the program leaves alone.                                *)
Steps(next) ==
    /\ mode = "running" /\ mode' = "running"
    /\ pc' = next
    /\ UNCHANGED <<prog, rg_resume_pc, f_fabric_rsps>>

Present == pc \in DOMAIN prog /\ Aligned(pc)

LEMMA FetchedFacts ==
  ASSUME mode = "running"
  PROVE  /\ Arch!Running
         /\ Arch!Fetched <=> Present
         /\ Arch!i = prog[pc]
BY SameWords DEF Arch!Running, Arch!Fetched, Present, Arch!i

(* The result of an instruction in a register, none in register 0.         *)
SetView(rd, value) == gprView' = IF rd = 0 THEN gprView ELSE [gprView EXCEPT ![rd] = value]

LEMMA ComputeStep ==
  ASSUME Steps(Wrap(pc + 4)), Present, UNCHANGED <<csrView, mem>>,
         NEW v, SetView(prog[pc].rd, v),
         \/ prog[pc].op = "ADDI" /\ v = Wrap(gprView[prog[pc].rs1] + prog[pc].imm)
         \/ prog[pc].op = "ADD" /\ v = Wrap(gprView[prog[pc].rs1] + gprView[prog[pc].rs2])
         \/ prog[pc].op = "SUB" /\ v = Wrap(gprView[prog[pc].rs1] - gprView[prog[pc].rs2])
         \/ prog[pc].op = "MUL" /\ v = Wrap(gprView[prog[pc].rs1] * gprView[prog[pc].rs2])
  PROVE  Arch!Compute
<1>1. Arch!Fetched /\ Arch!i = prog[pc]
  BY FetchedFacts DEF Steps
<1>2. Arch!Goto(Arch!Wrap(pc + 4))
  BY SameWords DEF Steps, Arch!Goto
<1>3. Arch!i.op \in Arch!ALU_OPS \cup {"MUL"}
  BY <1>1 DEF Arch!ALU_OPS
<1>4. v = CASE Arch!i.op = "ADDI" -> Arch!Wrap(Arch!v1 + Arch!i.imm)
            [] Arch!i.op = "ADD"  -> Arch!Wrap(Arch!v1 + Arch!v2)
            [] Arch!i.op = "SUB"  -> Arch!Wrap(Arch!v1 - Arch!v2)
            [] Arch!i.op = "MUL"  -> Arch!Wrap(Arch!v1 * Arch!v2)
  BY <1>1, SameWords DEF Arch!v1, Arch!v2
<1>5. Arch!SetReg(Arch!i.rd, v)
  BY <1>1 DEF Arch!SetReg, SetView
<1> QED
  BY <1>1, <1>2, <1>3, <1>4, <1>5 DEF Arch!Compute

LEMMA JumpStep ==
  ASSUME Present, UNCHANGED <<csrView, mem>>, SetView(prog[pc].rd, Wrap(pc + 4)),
         \/ prog[pc].op = "JAL" /\ Steps(Wrap(pc + prog[pc].imm))
         \/ prog[pc].op = "JALR" /\ Steps(Wrap(gprView[prog[pc].rs1] + prog[pc].imm))
  PROVE  Arch!Jump
<1>1. Arch!Fetched /\ Arch!i = prog[pc]
  BY FetchedFacts DEF Steps
<1>2. Arch!SetReg(Arch!i.rd, Arch!Wrap(pc + 4))
  BY <1>1, SameWords DEF Arch!SetReg, SetView
<1>3. Arch!i.op \in Arch!JUMP_OPS
  BY <1>1 DEF Arch!JUMP_OPS
<1>4. Arch!addr = Wrap(gprView[prog[pc].rs1] + prog[pc].imm)
  BY <1>1, SameWords DEF Arch!addr, Arch!v1
<1>5. Arch!Goto(IF Arch!i.op = "JAL" THEN Arch!Wrap(pc + Arch!i.imm) ELSE Arch!addr)
  BY <1>1, <1>4, SameWords DEF Steps, Arch!Goto
<1> QED
  BY <1>1, <1>2, <1>3, <1>5 DEF Arch!Jump

LEMMA BranchStep ==
  ASSUME Present, UNCHANGED <<gprView, csrView, mem>>, prog[pc].op = "BEQ",
         Steps(IF gprView[prog[pc].rs1] = gprView[prog[pc].rs2]
               THEN Wrap(pc + prog[pc].imm) ELSE Wrap(pc + 4))
  PROVE  Arch!Branch
<1>1. Arch!Fetched /\ Arch!i = prog[pc]
  BY FetchedFacts DEF Steps
<1>2. Arch!Goto(IF Arch!v1 = Arch!v2 THEN Arch!Wrap(pc + Arch!i.imm) ELSE Arch!Wrap(pc + 4))
  BY <1>1, SameWords DEF Steps, Arch!Goto, Arch!v1, Arch!v2
<1> QED
  BY <1>1, <1>2 DEF Arch!Branch

(* The address of a load or store, and its operand.                        *)
DataAddr == Wrap(gprView[prog[pc].rs1] + prog[pc].imm)

LEMMA DataAddrFacts ==
  ASSUME mode = "running", Present
  PROVE  Arch!addr = DataAddr /\ Arch!v2 = gprView[prog[pc].rs2]
<1>1. Arch!i = prog[pc]
  BY FetchedFacts
<1> QED
  BY <1>1, SameWords DEF Arch!addr, Arch!v1, Arch!v2, DataAddr

LEMMA LoadStep ==
  ASSUME Present, Steps(Wrap(pc + 4)), UNCHANGED <<csrView, mem>>, prog[pc].op = "LW",
         gprView \in [Reg -> Word], prog[pc].rd \in Reg, Aligned(DataAddr),
         NEW v \in Word, SetView(prog[pc].rd, v),
         \/ DataAddr \in DMem /\ v = mem[DataAddr]
         \/ DataAddr \notin DMem /\ ~PreciseDataFaults
  PROVE  Arch!Load
<1>1. Arch!Fetched /\ Arch!i = prog[pc] /\ Arch!addr = DataAddr
  BY FetchedFacts, DataAddrFacts DEF Steps
<1>2. Arch!Goto(Arch!Wrap(pc + 4))
  BY SameWords DEF Steps, Arch!Goto
<1>3. Arch!Aligned(Arch!addr)
  BY <1>1, SameWords
<1>4. CASE DataAddr \in DMem /\ v = mem[DataAddr]
  <2>1. Arch!SetReg(Arch!i.rd, mem[Arch!addr])
    BY <1>1, <1>4 DEF Arch!SetReg, SetView
  <2> QED
    BY <1>1, <1>2, <1>3, <1>4, <2>1 DEF Arch!Load
<1>5. CASE DataAddr \notin DMem /\ ~PreciseDataFaults
  <2>1. prog[pc].rd # 0 => gprView'[prog[pc].rd] = v
    BY DEF SetView
  <2>2. Arch!SetReg(Arch!i.rd, gprView'[Arch!i.rd])
    BY <1>1, <2>1 DEF Arch!SetReg, SetView
  <2>3. Arch!i.rd = 0 \/ gprView'[Arch!i.rd] \in Arch!Word
    BY <1>1, <2>1, SameWords
  <2> QED
    BY <1>1, <1>2, <1>3, <1>5, <2>2, <2>3 DEF Arch!Load
<1> QED
  BY <1>4, <1>5

LEMMA StoreStep ==
  ASSUME Present, Steps(Wrap(pc + 4)), UNCHANGED <<gprView, csrView>>, prog[pc].op = "SW",
         Aligned(DataAddr),
         mem' = IF DataAddr \in DMem
                THEN [mem EXCEPT ![DataAddr] = gprView[prog[pc].rs2]] ELSE mem
  PROVE  Arch!Store
<1>1. Arch!Fetched /\ Arch!i = prog[pc] /\ Arch!addr = DataAddr
      /\ Arch!v2 = gprView[prog[pc].rs2]
  BY FetchedFacts, DataAddrFacts DEF Steps
<1>2. Arch!Goto(Arch!Wrap(pc + 4)) /\ Arch!Aligned(Arch!addr)
  BY <1>1, SameWords DEF Steps, Arch!Goto
<1> QED
  BY <1>1, <1>2 DEF Arch!Store

(* A trap, by its cause and the address it reports.                        *)
Traps(cause, badaddr) ==
    /\ csrView' = TrapCSRs(csrView, csrView, pc, cause, badaddr)
    /\ UNCHANGED <<gprView, mem>>

LEMMA TrapFacts ==
  /\ \A cause, badaddr : Traps(cause, badaddr) <=> Arch!Trap(cause, badaddr)
  /\ Steps(TrapVector(csrView.mstatus)) => Arch!Vectored
  BY SameWords DEF Traps, Arch!Trap, Steps, Arch!Vectored, Arch!Goto

(* What a fault may report when the promise leaves it open.                *)
LEMMA DataFaultStep ==
  ASSUME Present, Steps(TrapVector(csrView.mstatus)), UNCHANGED <<gprView, mem>>,
         ~PreciseDataFaults, csrView \in CSRs, csrView' \in CSRs,
         \/ prog[pc].op = "LW" /\ ~(Aligned(DataAddr) /\ DataAddr \in DMem)
         \/ prog[pc].op = "SW" /\ ~Aligned(DataAddr),
         NEW epc, NEW badaddr, NEW cause \in {LOAD_FAULT, LOAD_MISALIGNED, STORE_MISALIGNED},
         csrView' = TrapCSRs(csrView, csrView, epc, cause, badaddr)
  PROVE  Arch!DataFault
<1>1. Arch!Fetched /\ Arch!i = prog[pc] /\ Arch!addr = DataAddr
  BY FetchedFacts, DataAddrFacts DEF Steps
<1>2. csrView'.mepc = epc /\ csrView'.mcause = cause /\ csrView'.mbadaddr = badaddr
  BY DEF TrapCSRs, CSRs
<1>3. csrView' = Arch!TrapCSRs(csrView, csrView, csrView'.mepc, csrView'.mcause, csrView'.mbadaddr)
  BY <1>2, SameWords
<1>4. csrView'.mcause \in {Arch!LOAD_FAULT, Arch!LOAD_MISALIGNED, Arch!STORE_MISALIGNED}
  BY <1>2 DEF Arch!LOAD_FAULT, Arch!LOAD_MISALIGNED, Arch!STORE_MISALIGNED, LOAD_FAULT,
              LOAD_MISALIGNED, STORE_MISALIGNED
<1>5. \/ Arch!i.op = "LW" /\ ~(Arch!Aligned(Arch!addr) /\ Arch!addr \in DMem)
      \/ Arch!i.op = "SW" /\ ~Arch!Aligned(Arch!addr)
  BY <1>1, SameWords
<1>6. Arch!Vectored /\ csrView' \in Arch!CSRs
  BY TrapFacts, SameWords
<1> QED
  BY <1>1, <1>3, <1>4, <1>5, <1>6 DEF Arch!DataFault

LEMMA CSRStep ==
  ASSUME Present, Steps(Wrap(pc + 4)), UNCHANGED mem,
         prog[pc].op \in CSR_OPS, prog[pc].csr \in CSR_NAMES,
         SetView(prog[pc].rd, csrView[prog[pc].csr]),
         csrView' = IF prog[pc].op = "CSRRW"
                    THEN ma_write(csrView, prog[pc].csr, gprView[prog[pc].rs1]) ELSE csrView
  PROVE  Arch!CSRAccess
<1>1. Arch!Fetched /\ Arch!i = prog[pc] /\ Arch!v1 = gprView[prog[pc].rs1]
  BY FetchedFacts DEF Steps, Arch!v1
<1>2. Arch!Goto(Arch!Wrap(pc + 4)) /\ Arch!i.op \in Arch!CSR_OPS /\ Arch!i.csr \in Arch!CSR_NAMES
  BY <1>1, SameWords DEF Steps, Arch!Goto
<1>3. Arch!SetReg(Arch!i.rd, csrView[Arch!i.csr])
  BY <1>1 DEF Arch!SetReg, SetView
<1>4. csrView' = IF Arch!i.op = "CSRRW"
                 THEN Arch!ma_write(csrView, Arch!i.csr, Arch!v1) ELSE csrView
  BY <1>1, SameWords
<1> QED
  BY <1>1, <1>2, <1>3, <1>4 DEF Arch!CSRAccess

(* The traps of an instruction that does not reach stage 2.                *)
LEMMA OwnTrapStep ==
  ASSUME mode = "running", NEW cause, Traps(cause, pc),
         \/ ~Present /\ cause = (IF Aligned(pc) THEN FETCH_FAULT ELSE FETCH_MISALIGNED)
         \/ /\ Present
            /\ \/ prog[pc].op = "ECALL" /\ cause = ECALL_FROM_U + prv(csrView.mstatus)
               \/ prog[pc].op = "EBREAK" /\ cause = BREAKPOINT
               \/ prog[pc].op = "ILLEGAL" /\ cause = ILLEGAL_INSTRUCTION
               \/ /\ prog[pc].op \in CSR_OPS /\ prog[pc].csr \notin CSR_NAMES
                  /\ cause = ILLEGAL_INSTRUCTION,
         IF Present /\ prog[pc].op = "EBREAK" /\ prv(csrView.mstatus) = 3
         THEN mode' = "halted" /\ pc' = -1 /\ UNCHANGED <<prog, rg_resume_pc, f_fabric_rsps>>
         ELSE Steps(TrapVector(csrView.mstatus))
  PROVE  Arch!Execute
<1>1. Arch!Running /\ (Arch!Fetched <=> Present) /\ Arch!i = prog[pc]
  BY FetchedFacts
<1>2. CASE ~Present
  <2>1. Arch!Trap(IF Arch!Aligned(pc) THEN Arch!FETCH_FAULT ELSE Arch!FETCH_MISALIGNED, pc)
    BY <1>2, TrapFacts, SameWords
       DEF Arch!FETCH_FAULT, FETCH_FAULT, Arch!FETCH_MISALIGNED, FETCH_MISALIGNED
  <2>2. Arch!Vectored
    BY <1>2, TrapFacts
  <2> QED
    BY <1>1, <1>2, <2>1, <2>2 DEF Arch!FetchFault, Arch!Execute
<1>3. CASE Present /\ prog[pc].op = "ECALL"
  <2>1. Arch!Trap(Arch!ECALL_FROM_U + Arch!prv(csrView.mstatus), pc)
    BY <1>3, TrapFacts, SameWords DEF Arch!ECALL_FROM_U, ECALL_FROM_U, CSR_OPS
  <2>2. Arch!Vectored
    BY <1>3, TrapFacts
  <2> QED
    BY <1>1, <1>3, <2>1, <2>2 DEF Arch!ECall, Arch!Execute
<1>4. CASE Present /\ prog[pc].op = "EBREAK"
  <2>1. Arch!Trap(Arch!BREAKPOINT, pc)
    BY <1>4, TrapFacts DEF Arch!BREAKPOINT, BREAKPOINT, CSR_OPS
  <2>2. CASE prv(csrView.mstatus) = 3
    BY <1>1, <1>4, <2>1, <2>2, SameWords DEF Arch!EBreak, Arch!Execute
  <2>3. CASE prv(csrView.mstatus) # 3
    <3>1. Arch!Vectored
      BY <2>3, TrapFacts
    <3> QED
      BY <1>1, <1>4, <2>1, <2>3, <3>1, SameWords DEF Arch!EBreak, Arch!Execute
  <2> QED
    BY <2>2, <2>3
<1>5. CASE Present /\ (prog[pc].op = "ILLEGAL"
                        \/ (prog[pc].op \in CSR_OPS /\ prog[pc].csr \notin CSR_NAMES))
  <2>1. prog[pc].op \notin {"ECALL", "EBREAK"}
    BY <1>5 DEF CSR_OPS
  <2>2. Arch!Trap(Arch!ILLEGAL_INSTRUCTION, pc)
    BY <1>5, <2>1, TrapFacts DEF Arch!ILLEGAL_INSTRUCTION, ILLEGAL_INSTRUCTION
  <2>3. Arch!Vectored
    BY <2>1, TrapFacts
  <2> QED
    BY <1>1, <1>5, <2>2, <2>3, SameWords DEF Arch!Illegal, Arch!Execute
<1> QED
  BY <1>2, <1>3, <1>4, <1>5

LEMMA ERetStep ==
  ASSUME Present, Steps(csrView.mepc), prog[pc].op = "ERET",
         csrView' = EretCSRs(csrView, csrView), UNCHANGED <<gprView, mem>>
  PROVE  Arch!ERet
<1>1. Arch!Fetched /\ Arch!i = prog[pc]
  BY FetchedFacts DEF Steps
<1>2. Arch!Goto(csrView.mepc)
  BY DEF Steps, Arch!Goto
<1> QED
  BY <1>1, <1>2, SameWords DEF Arch!ERet

-----------------------------------------------------------------------------
(* The registers as the pipeline hands results on.                         *)

(* A register without the result in stage 2.                               *)
Behind(r) == IF s3.state /\ s3.rd # 0 /\ s3.rd = r THEN s3.rdval ELSE regfile[r]

S2WritesCSR == s2.state = "ALU" /\ s2.csr.valid

LEMMA RunningViews ==
  ASSUME rg_state \in CPU_STATES \ {"RESET"}
  PROVE  /\ gprView = [r \in Reg |-> Bypassed(r)]
         /\ csrView = IF S2WritesCSR THEN ma_write(CSRWrittenBack, s2.csr_addr, s2.csr.value)
                      ELSE CSRWrittenBack
         /\ mode = (IF rg_state \in {"IDLE", "POST_RUN"} THEN "halted" ELSE "running")
BY DEF CPU_STATES, mode, gprView, csrView, S2WritesCSR

LEMMA ViewTypes ==
  ASSUME TypeOK
  PROVE  gprView \in [Reg -> Word] /\ csrView \in CSRs /\ CSRWrittenBack \in CSRs
<1>1. regfile \in [Reg -> Word] /\ \A r \in Reg : Bypassed(r) \in Word
  BY WiresType DEF TypeOK
<1>2. gprView \in [Reg -> Word]
  BY <1>1 DEF gprView
<1>3. CSRWrittenBack \in CSRs /\ csr \in CSRs /\ s2.csr_addr \in CSRAddr /\ s2.csr.value \in Word
  BY Stage3Type DEF TypeOK, CSRField
<1>4. csrView \in CSRs
  BY <1>3, ma_writeType DEF csrView
<1> QED
  BY <1>2, <1>3, <1>4

(* What stage 2 hands on is what it bypassed.                              *)
LEMMA HandedOn ==
  ASSUME TypeOK, Stage3
  PROVE  /\ \A r \in Reg : Behind(r)' = Bypassed(r)
         /\ CSRWrittenBack' = IF S2WritesCSR THEN ma_write(csr', s2.csr_addr, s2.csr.value)
                              ELSE csr'
<1>1. /\ s3'.state = S2Result /\ s3'.rd = s2.rd /\ s3'.rdval = S3RdVal
      /\ s3'.csr_addr = s2.csr_addr
      /\ s3'.csr.valid = (s2.state = "ALU" /\ s2.csr.valid) /\ s3'.csr.value = s2.csr.value
  BY DEF Stage3
<1>2. S2Result => S3RdVal = S2RegValue
  BY DEF S2Result, S3RdVal, S2RegValue
<1>3. \A r \in Reg : regfile'[r] = Behind(r)
  <2>1. regfile' = WrittenBack /\ regfile \in [Reg -> Word] /\ s3.rd \in Reg
    BY DEF Stage3, TypeOK
  <2> QED
    BY <2>1 DEF WrittenBack, Behind
<1>4. ASSUME NEW r \in Reg
      PROVE  Behind(r)' = Bypassed(r)
  <2>1. Behind(r)' = IF s3'.state /\ s3'.rd # 0 /\ s3'.rd = r THEN s3'.rdval ELSE regfile'[r]
    BY DEF Behind
  <2>2. CASE S2Result
    BY <1>1, <1>2, <1>3, <2>1, <2>2 DEF Bypassed, Behind
  <2>3. CASE ~S2Result
    BY <1>1, <1>2, <1>3, <2>1, <2>3 DEF Bypassed, Behind
  <2> QED
    BY <2>2, <2>3
<1>5. CSRWrittenBack' = IF s3'.state /\ s3'.csr.valid
                        THEN ma_write(csr', s3'.csr_addr, s3'.csr.value) ELSE csr'
  BY DEF CSRWrittenBack, ma_write, Kept, SignBit
<1>6. s2.state = "ALU" => S2Result
  BY DEF S2Result
<1> QED
  BY <1>1, <1>4, <1>5, <1>6 DEF S2WritesCSR

(* Without a result in stage 2 a register is what is behind it.            *)
LEMMA NoResult ==
  ASSUME ~S2Result
  PROVE  \A r : Bypassed(r) = Behind(r)
BY DEF Bypassed, Behind

(* An edge after which stage 2 has no result changes no register.          *)
LEMMA EmptiedView ==
  ASSUME TypeOK, TypeOK', Stage3, rg_state = "RUNNING", rg_state' # "RESET", ~S2Result'
  PROVE  gprView' = gprView /\ csrView' = CSRWrittenBack'
<1>1. rg_state' # "RESET" /\ rg_state' \in CPU_STATES /\ mode # "reset" /\ mode' # "reset"
  BY DEF TypeOK, mode, CPU_STATES
<1>2. gprView' = [r \in Reg |-> Bypassed(r)']
  BY <1>1 DEF gprView
<1>3. gprView = [r \in Reg |-> Bypassed(r)]
  BY <1>1 DEF gprView
<1>4. \A r \in Reg : Bypassed(r)' = Behind(r)'
  BY DEF Bypassed, Behind
<1>5. \A r \in Reg : Bypassed(r)' = Bypassed(r)
  BY <1>4, HandedOn
<1>6. gprView' = gprView
  BY <1>2, <1>3, <1>5
<1>7. ~(s2.state = "ALU" /\ s2.csr.valid)'
  BY DEF S2Result
<1>8. csrView' = CSRWrittenBack'
  BY <1>1, <1>7 DEF csrView
<1> QED
  BY <1>6, <1>8

(* The program counter while the pipeline runs.                            *)
LEMMA RunningPC ==
  ASSUME rg_state = "RUNNING"
  PROVE  /\ mode = "running"
         /\ S2Pending => pc = h_pc
         /\ ~S2Pending => pc = ic.pc
BY DEF mode, pc

LEMMA DonePC ==
  ASSUME rg_state = "RUNNING", S2Done, ~S2Trap
  PROVE  pc = ic.pc /\ ~S2Pending
BY RunningPC DEF S2Pending

-----------------------------------------------------------------------------
(* The instruction that waits in stage 2.                                  *)

(* The load, store or multiplication in stage 2 is the instruction at the  *)
(* program counter, with its operands, and the next one is asked for.      *)
PendingInv ==
    rg_state = "RUNNING" /\ S2Pending =>
       /\ Present /\ ic.pc = Wrap(pc + 4)
       /\ s2.state = "LOAD" => prog[pc].op = "LW" /\ s2.rd = prog[pc].rd
       /\ s2.state = "STORE" => prog[pc].op = "SW" /\ dc.st_value = gprView[prog[pc].rs2]
       /\ s2.state \in {"LOAD", "STORE"} => dc.addr = DataAddr
       /\ s2.state = "MBOX" => /\ prog[pc].op = "MUL" /\ s2.rd = prog[pc].rd
                               /\ mb.v1 = gprView[prog[pc].rs1]
                               /\ mb.v2 = gprView[prog[pc].rs2]

(* The data cache reports a fault of the access only.                      *)
AnswerInv ==
    dc.st = "valid" /\ dc.exc =>
       /\ dc.exc_code \in {LOAD_FAULT, LOAD_MISALIGNED, STORE_MISALIGNED}
       /\ ~Aligned(dc.addr) \/ (dc.op = "LOAD" /\ dc.addr \notin DMem)

RefInv == UnitsInv /\ PendingInv /\ AnswerInv

ViewsSame == UNCHANGED <<prog, mode, pc, rg_resume_pc, gprView, csrView, mem, f_fabric_rsps>>

LEMMA StutterStep ==
  ASSUME ViewsSame
  PROVE  UNCHANGED Arch!isaVars
BY DEF ViewsSame, Arch!isaVars

(* A unit that answers leaves the pipeline alone.                          *)
CoreSame == /\ UNCHANGED <<prog, rg_state, rg_resume_pc, f_fabric_rsps, s2, s3, regfile, csr, h_pc>>
            /\ ic'.pc = ic.pc

LEMMA CoreSameViews ==
  ASSUME TypeOK, CoreSame,
         rg_state # "RESET" => /\ S2Result' <=> S2Result
                               /\ S2Result => S2RegValue' = S2RegValue,
         rg_state = "RUNNING" => (S2Pending' <=> S2Pending)
  PROVE  UNCHANGED <<mode, pc, gprView, csrView>>
<1>1. mode' = mode
  BY DEF CoreSame, mode
<1>2. pc' = pc
  <2>1. CASE rg_state = "RUNNING"
    BY <1>1, <2>1 DEF CoreSame, pc, mode
  <2>2. CASE rg_state # "RUNNING"
    <3>1. mode # "running" \/ rg_state = "PRE_RUN"
      BY <2>2 DEF TypeOK, mode, CPU_STATES
    <3> QED
      BY <1>1, <3>1 DEF CoreSame, pc
  <2> QED
    BY <2>1, <2>2
<1>3. csrView' = csrView
  BY <1>1 DEF CoreSame, csrView, CSRWrittenBack, ma_write, Kept, SignBit
<1>4. gprView' = gprView
  <2>1. CASE mode = "reset"
    BY <1>1, <2>1 DEF CoreSame, gprView
  <2>2. CASE mode # "reset"
    <3>1. rg_state # "RESET"
      BY <2>2 DEF mode
    <3>2. \A r : Bypassed(r)' = Bypassed(r)
      BY <3>1 DEF CoreSame, Bypassed
    <3>3. gprView' = [r \in Reg |-> Bypassed(r)']
      BY <1>1, <2>2 DEF gprView
    <3>4. gprView = [r \in Reg |-> Bypassed(r)]
      BY <2>2 DEF gprView
    <3> QED
      BY <3>2, <3>3, <3>4
  <2> QED
    BY <2>1, <2>2
<1> QED
  BY <1>1, <1>2, <1>3, <1>4

(* The instruction cache's answer changes nothing that can be seen.        *)
LEMMA ICacheReadyStep ==
  ASSUME RefInv, ICacheReady
  PROVE  ViewsSame /\ PendingInv' /\ AnswerInv'
<1>1. CoreSame /\ UNCHANGED <<dc, mb, mem>>
  BY DEF ICacheReady, CoreSame, coreVars, RefInv, UnitsInv, TypeOK
<1>2. (S2Result' <=> S2Result) /\ S2RegValue' = S2RegValue /\ (S2Pending' <=> S2Pending)
  BY <1>1 DEF CoreSame, S2Result, S2RegValue, S2Pending, S2Done, S2Trap, DValid, MValid
<1>3. ViewsSame
  BY <1>1, <1>2, CoreSameViews DEF ViewsSame, CoreSame, RefInv, UnitsInv
<1>4. PendingInv'
  <2> SUFFICES ASSUME rg_state' = "RUNNING", S2Pending'
               PROVE  PendingInv'
    BY DEF PendingInv
  <2>1. rg_state = "RUNNING" /\ S2Pending
    BY <1>1, <1>2 DEF CoreSame
  <2> QED
    BY <1>1, <1>3, <2>1
       DEF RefInv, PendingInv, ViewsSame, CoreSame, Present, DataAddr, Wrap, Aligned
<1>5. AnswerInv'
  BY <1>1 DEF RefInv, AnswerInv, LOAD_FAULT, LOAD_MISALIGNED, STORE_MISALIGNED, Aligned
<1> QED
  BY <1>3, <1>4, <1>5

(* The answer to what stage 2 waits for: its result is seen at once.       *)
LEMMA DoneViews ==
  ASSUME TypeOK, TypeOK', CoreSame, rg_state = "RUNNING", S2Pending, ~S2Result, ~S2Pending',
         s2.state # "ALU"
  PROVE  /\ mode = "running" /\ mode' = "running" /\ pc' = ic.pc /\ csrView' = csrView
         /\ ~S2Result' => gprView' = gprView
         /\ S2Result' => gprView' = IF s2.rd = 0 THEN gprView
                                    ELSE [gprView EXCEPT ![s2.rd] = S2RegValue']
<1>1. mode = "running" /\ mode' = "running" /\ pc' = ic.pc
  BY DEF CoreSame, mode, pc
<1>2. csrView' = csrView
  BY <1>1 DEF CoreSame, csrView, CSRWrittenBack, ma_write, Kept, SignBit
<1>3. gprView = [r \in Reg |-> Behind(r)]
  BY <1>1, NoResult DEF gprView
<1>4. gprView' = [r \in Reg |-> Bypassed(r)']
  BY <1>1 DEF gprView
<1>5. \A r : Bypassed(r)' = IF S2Result' /\ s2.rd # 0 /\ s2.rd = r THEN S2RegValue' ELSE Behind(r)
  BY DEF CoreSame, Bypassed, Behind
<1>6. s2.rd \in Reg
  BY DEF TypeOK
<1>7. CASE ~S2Result'
  BY <1>1, <1>2, <1>3, <1>4, <1>5, <1>7
<1>8. CASE S2Result'
  BY <1>1, <1>2, <1>3, <1>4, <1>5, <1>6, <1>8
<1> QED
  BY <1>7, <1>8

LEMMA MBoxValidStep ==
  ASSUME RefInv, MBoxValid, TypeOK'
  PROVE  /\ ViewsSame \/ Arch!Next
         /\ PendingInv' /\ AnswerInv'
<1>1. CoreSame /\ UNCHANGED <<dc, mem>> /\ TypeOK
  BY DEF MBoxValid, CoreSame, coreVars, RefInv, UnitsInv
<1>2. AnswerInv'
  BY <1>1 DEF RefInv, AnswerInv, LOAD_FAULT, LOAD_MISALIGNED, STORE_MISALIGNED, Aligned
<1>3. CASE s2.state # "MBOX" \/ rg_state = "RESET"
  <2>1. s2.state # "MBOX" => /\ S2Result' <=> S2Result
                             /\ S2Result => S2RegValue' = S2RegValue
                             /\ S2Pending' <=> S2Pending
    BY <1>1 DEF CoreSame, S2Result, S2RegValue, S2Pending, S2Done, S2Trap, DValid, MValid
  <2>2. ViewsSame
    BY <1>1, <1>3, <2>1, CoreSameViews DEF ViewsSame, CoreSame
  <2>3. PendingInv'
    <3> SUFFICES ASSUME rg_state' = "RUNNING", S2Pending'
                 PROVE  PendingInv'
      BY DEF PendingInv
    <3>1. rg_state = "RUNNING" /\ S2Pending /\ s2.state # "MBOX"
      BY <1>1, <1>3, <2>1 DEF CoreSame
    <3> QED
      BY <1>1, <2>2, <3>1
         DEF RefInv, PendingInv, ViewsSame, CoreSame, Present, DataAddr, Wrap, Aligned
  <2> QED
    BY <1>2, <2>2, <2>3
<1>4. CASE s2.state = "MBOX" /\ rg_state # "RESET"
  <2>1. rg_state = "RUNNING"
    BY <1>4 DEF RefInv, UnitsInv, UnitsServeStage2
  <2>2. mb.st = "busy" /\ mb'.st = "valid" /\ mb'.word = Wrap(mb.v1 * mb.v2)
    BY DEF MBoxValid, RefInv, UnitsInv, TypeOK
  <2>3. S2Pending /\ ~S2Result /\ ~S2Pending' /\ S2Result' /\ S2RegValue' = mb'.word
    BY <1>1, <1>4, <2>2
       DEF CoreSame, S2Pending, S2Result, S2RegValue, S2Done, S2Trap, DValid, MValid
  <2>4. /\ mode = "running" /\ mode' = "running" /\ pc' = ic.pc /\ csrView' = csrView
        /\ gprView' = IF s2.rd = 0 THEN gprView ELSE [gprView EXCEPT ![s2.rd] = mb'.word]
    BY <1>1, <1>4, <2>1, <2>3, DoneViews
  <2>5. /\ Present /\ ic.pc = Wrap(pc + 4) /\ prog[pc].op = "MUL" /\ s2.rd = prog[pc].rd
        /\ mb.v1 = gprView[prog[pc].rs1] /\ mb.v2 = gprView[prog[pc].rs2]
    BY <1>4, <2>1, <2>3 DEF RefInv, PendingInv
  <2>6. Steps(Wrap(pc + 4)) /\ SetView(prog[pc].rd, mb'.word)
    BY <1>1, <2>4, <2>5 DEF Steps, SetView, CoreSame
  <2>7. Arch!Compute
    BY <1>1, <2>2, <2>4, <2>5, <2>6, ComputeStep
  <2>8. PendingInv'
    BY <2>3 DEF PendingInv
  <2> QED
    BY <1>2, <2>7, <2>8 DEF Arch!Next, Arch!Execute
<1> QED
  BY <1>3, <1>4

(* What the data cache may answer, by the kind of access.                  *)
LEMMA AnswerKinds ==
  ASSUME TypeOK, DCacheValid
  PROVE  /\ dc.st = "busy" /\ dc'.st = "valid" /\ UNCHANGED <<dc.op, dc.addr, dc.st_value>>
         /\ \/ /\ ~Aligned(dc.addr) /\ dc'.exc
               /\ dc'.exc_code \in {LOAD_MISALIGNED, STORE_MISALIGNED}
            \/ Aligned(dc.addr) /\ dc.op = "STORE" /\ ~dc'.exc
            \/ /\ Aligned(dc.addr) /\ dc.op = "LOAD" /\ ~dc'.exc
               /\ dc.addr \in DMem => dc'.word = mem[dc.addr]
            \/ /\ Aligned(dc.addr) /\ dc.op = "LOAD" /\ dc.addr \notin DMem
               /\ dc'.exc /\ dc'.exc_code = LOAD_FAULT
<1>1. \A exc \in BOOLEAN : \A code, word : dc' = DAnswer(exc, code, word) =>
         /\ dc'.st = "valid" /\ dc'.op = dc.op /\ dc'.addr = dc.addr /\ dc'.st_value = dc.st_value
         /\ (dc'.exc <=> exc) /\ dc'.exc_code = code /\ dc'.word = word
  BY DEF DAnswer, TypeOK
<1>2. dc' \in DAnswers /\ dc.op \in {"LOAD", "STORE"} /\ dc.st = "busy"
  BY DEF DCacheValid, TypeOK
<1>3. CASE ~Aligned(dc.addr)
  <2>1. dc' \in {DAnswer(TRUE, LOAD_MISALIGNED, UNSPECIFIED),
                 DAnswer(TRUE, STORE_MISALIGNED, UNSPECIFIED)}
    BY <1>2, <1>3 DEF DAnswers
  <2> QED
    BY <1>1, <1>2, <1>3, <2>1
<1>4. CASE Aligned(dc.addr) /\ dc.op = "STORE"
  <2>1. dc' = DAnswer(FALSE, 0, dc.addr)
    BY <1>2, <1>4 DEF DAnswers
  <2> QED
    BY <1>1, <1>2, <1>4, <2>1
<1>5. CASE Aligned(dc.addr) /\ dc.op = "LOAD" /\ dc.addr \in DMem
  <2>1. dc' = DAnswer(FALSE, 0, mem[dc.addr])
    <3>1. DAnswers = {DAnswer(FALSE, 0, mem[dc.addr])}
      BY <1>5 DEF DAnswers
    <3> QED
      BY <1>2, <3>1
  <2> QED
    BY <1>1, <1>2, <1>5, <2>1
<1>6. CASE Aligned(dc.addr) /\ dc.op = "LOAD" /\ dc.addr \notin DMem
  <2>1. dc' \in {DAnswer(TRUE, LOAD_FAULT, UNSPECIFIED), DAnswer(FALSE, 0, UNSPECIFIED)}
    <3>1. DAnswers = {DAnswer(TRUE, LOAD_FAULT, UNSPECIFIED), DAnswer(FALSE, 0, UNSPECIFIED)}
      BY <1>6 DEF DAnswers
    <3> QED
      BY <1>2, <3>1
  <2> QED
    BY <1>1, <1>2, <1>6, <2>1
<1> QED
  BY <1>2, <1>3, <1>4, <1>5, <1>6

LEMMA DCacheValidStep ==
  ASSUME RefInv, DCacheValid, ~Divergence, TypeOK'
  PROVE  /\ ViewsSame \/ Arch!Next
         /\ PendingInv' /\ AnswerInv'
<1>1. CoreSame /\ UNCHANGED <<mb, ic>> /\ TypeOK
  BY DEF DCacheValid, CoreSame, coreVars, RefInv, UnitsInv
<1>2. rg_state = "RUNNING" /\ s2.state \in {"LOAD", "STORE"} /\ dc.op = s2.state
  BY DEF DCacheValid, RefInv, UnitsInv, UnitsServeStage2
<1>3. /\ dc.st = "busy" /\ dc'.st = "valid" /\ UNCHANGED <<dc.op, dc.addr, dc.st_value>>
      /\ dc'.word \in Word
  BY <1>1, AnswerKinds DEF TypeOK
<1>4. S2Pending /\ ~S2Result
  BY <1>2, <1>3 DEF S2Pending, S2Result, S2Done, DValid
<1>5. /\ Present /\ ic.pc = Wrap(pc + 4) /\ dc.addr = DataAddr
      /\ s2.state = "LOAD" => prog[pc].op = "LW" /\ s2.rd = prog[pc].rd
      /\ s2.state = "STORE" => prog[pc].op = "SW" /\ dc.st_value = gprView[prog[pc].rs2]
  BY <1>2, <1>4 DEF RefInv, PendingInv
<1>6. AnswerInv'
  <2>1. Aligned(dc'.addr) <=> Aligned(dc.addr)
    BY <1>3 DEF Aligned
  <2> QED
    BY <1>1, <1>3, <2>1, AnswerKinds
       DEF AnswerInv, LOAD_FAULT, LOAD_MISALIGNED, STORE_MISALIGNED
<1>7. CASE dc'.exc
  <2>1. ~S2Result' /\ S2Pending'
    BY <1>1, <1>2, <1>3, <1>7 DEF CoreSame, S2Pending, S2Result, S2Trap, DValid
  <2>2. mem' = mem
    <3>1. dc.op = "STORE" => dc.addr \notin DMem
      BY <1>1, <1>7, AnswerKinds, CPUAssumption
    <3> QED
      BY <3>1 DEF DCacheValid
  <2>3. UNCHANGED <<mode, pc, gprView, csrView>>
    BY <1>1, <1>4, <2>1, CoreSameViews
  <2>4. ViewsSame
    BY <1>1, <2>2, <2>3 DEF ViewsSame, CoreSame
  <2>5. PendingInv'
    BY <1>1, <1>2, <1>3, <1>5, <2>4
       DEF PendingInv, ViewsSame, CoreSame, Present, DataAddr, Wrap, Aligned
  <2> QED
    BY <1>6, <2>4, <2>5
<1>8. CASE ~dc'.exc
  <2>1. ~S2Pending' /\ (S2Result' <=> s2.state = "LOAD") /\ S2RegValue' = dc'.word
    BY <1>1, <1>2, <1>3, <1>8
       DEF CoreSame, S2Pending, S2Result, S2RegValue, S2Done, S2Trap, DValid
  <2>2. /\ mode = "running" /\ mode' = "running" /\ pc' = ic.pc /\ csrView' = csrView
        /\ ~S2Result' => gprView' = gprView
        /\ S2Result' => gprView' = IF s2.rd = 0 THEN gprView
                                   ELSE [gprView EXCEPT ![s2.rd] = dc'.word]
    BY <1>1, <1>2, <1>4, <2>1, DoneViews
  <2>3. Steps(Wrap(pc + 4)) /\ Aligned(DataAddr)
    BY <1>1, <1>5, <1>8, <2>2, AnswerKinds DEF Steps, CoreSame
  <2>4. PendingInv'
    BY <2>1 DEF PendingInv
  <2>5. CASE s2.state = "LOAD"
    <3>1. mem' = mem
      BY <1>2, <2>5 DEF DCacheValid
    <3>2. SetView(prog[pc].rd, dc'.word)
      BY <1>5, <2>1, <2>2, <2>5 DEF SetView
    <3>3. gprView \in [Reg -> Word] /\ prog[pc].rd \in Reg
      BY <1>1, <1>5, <2>5, ViewTypes DEF TypeOK
    <3>4. \/ DataAddr \in DMem /\ dc'.word = mem[DataAddr]
          \/ DataAddr \notin DMem /\ ~PreciseDataFaults
      BY <1>1, <1>2, <1>3, <1>5, <1>8, <2>5, AnswerKinds DEF Divergence, FaultReported
    <3>5. Arch!Load
      BY <1>3, <1>5, <2>2, <2>3, <2>5, <3>1, <3>2, <3>3, <3>4, LoadStep
    <3> QED
      BY <1>6, <2>4, <3>5 DEF Arch!Next, Arch!Execute
  <2>6. CASE s2.state = "STORE"
    <3>1. mem' = IF DataAddr \in DMem
                 THEN [mem EXCEPT ![DataAddr] = gprView[prog[pc].rs2]] ELSE mem
      BY <1>2, <1>5, <2>6 DEF DCacheValid
    <3>2. gprView' = gprView
      BY <2>1, <2>2, <2>6
    <3>3. Arch!Store
      BY <1>5, <2>2, <2>3, <2>6, <3>1, <3>2, StoreStep
    <3> QED
      BY <1>6, <2>4, <3>3 DEF Arch!Next, Arch!Execute
  <2> QED
    BY <1>2, <2>5, <2>6
<1> QED
  BY <1>7, <1>8

-----------------------------------------------------------------------------
(* The edges of a running pipeline.                                        *)

(* The program counter after an edge that leaves stage 2 with nothing to   *)
(* wait for.                                                               *)
LEMMA NextPCs ==
  ASSUME rg_state' = "RUNNING", s2'.state \in {"EMPTY", "ALU"}
  PROVE  mode' = "running" /\ pc' = ic'.pc /\ ~S2Pending' /\ PendingInv'
<1>1. ~S2Pending'
  BY DEF S2Pending
<1> QED
  BY <1>1 DEF mode, pc, PendingInv

LEMMA FreedFacts ==
  ASSUME RefInv, S2Freed, rg_state = "RUNNING", S2Done
  PROVE  s2'.state = "EMPTY" /\ ~S2Result' /\ AnswerInv'
<1>1. s2'.state = "EMPTY" /\ dc'.st = "idle"
  BY FreedUnits DEF RefInv
<1> QED
  BY <1>1 DEF S2Result, AnswerInv

(* Writing one control register leaves the others.                         *)
LEMMA OtherCSR ==
  ASSUME NEW c \in CSRs, NEW a \in CSRAddr, NEW v
  PROVE  /\ a # "mstatus" => ma_write(c, a, v).mstatus = c.mstatus
         /\ a # "mepc" => ma_write(c, a, v).mepc = c.mepc
BY DEF ma_write, CSRs, CSRAddr, CSR_NAMES

LEMMA TrapThenWrite ==
  ASSUME NEW c \in CSRs, NEW w \in CSRs, NEW a \in CSRAddr, NEW v, NEW p, NEW x, NEW b,
         a \notin {"mstatus", "mepc", "mcause", "mbadaddr"}, w.mstatus = c.mstatus
  PROVE  ma_write(TrapCSRs(c, w, p, x, b), a, v)
           = TrapCSRs(ma_write(w, a, v), ma_write(w, a, v), p, x, b)
<1>1. ma_write(w, a, v).mstatus = c.mstatus
  BY OtherCSR
<1>2. CASE a = "mscratch"
  BY <1>1, <1>2 DEF ma_write, TrapCSRs, CSRs
<1>3. CASE a = "none"
  BY <1>1, <1>3 DEF ma_write, TrapCSRs, CSRs
<1> QED
  BY <1>2, <1>3 DEF CSRAddr, CSR_NAMES

LEMMA SameTrap ==
  ASSUME NEW c \in CSRs, NEW w \in CSRs, NEW p, NEW x, NEW b, w.mstatus = c.mstatus
  PROVE  /\ TrapCSRs(c, w, p, x, b) = TrapCSRs(w, w, p, x, b)
         /\ EretCSRs(c, w) = EretCSRs(w, w)
         /\ TrapVector(c.mstatus) = TrapVector(w.mstatus)
         /\ prv(c.mstatus) = prv(w.mstatus)
BY DEF TrapCSRs, EretCSRs

LEMMA EretThenWrite ==
  ASSUME NEW c \in CSRs, NEW w \in CSRs, NEW a \in CSRAddr, NEW v,
         a # "mstatus", w.mstatus = c.mstatus
  PROVE  ma_write(EretCSRs(c, w), a, v) = EretCSRs(ma_write(w, a, v), ma_write(w, a, v))
<1>1. ma_write(w, a, v).mstatus = c.mstatus
  BY OtherCSR
<1>2. CASE a = "mepc"
  BY <1>1, <1>2 DEF ma_write, EretCSRs, CSRs
<1>3. CASE a = "mcause"
  BY <1>1, <1>3 DEF ma_write, EretCSRs, CSRs
<1>4. CASE a = "mbadaddr"
  BY <1>1, <1>4 DEF ma_write, EretCSRs, CSRs
<1>5. CASE a = "mscratch"
  BY <1>1, <1>5 DEF ma_write, EretCSRs, CSRs
<1>6. CASE a = "none"
  BY <1>1, <1>6 DEF ma_write, EretCSRs, CSRs
<1> QED
  BY <1>2, <1>3, <1>4, <1>5, <1>6 DEF CSRAddr, CSR_NAMES

(* The write that stage 3 makes in this edge.                              *)
LEMMA WrittenBackFacts ==
  ASSUME TypeOK
  PROVE  /\ ~S3Writes("mstatus") => CSRWrittenBack.mstatus = csr.mstatus
         /\ ~S3Writes("mepc") => CSRWrittenBack.mepc = csr.mepc
<1>1. csr \in CSRs /\ s3.csr_addr \in CSRAddr
  BY DEF TypeOK
<1> QED
  BY <1>1, OtherCSR DEF CSRWrittenBack, S3Writes

(* What the pipeline shows while it runs.                                  *)
LEMMA RunViews ==
  ASSUME rg_state = "RUNNING"
  PROVE  /\ gprView = [r \in Reg |-> Bypassed(r)]
         /\ csrView = IF S2WritesCSR THEN ma_write(CSRWrittenBack, s2.csr_addr, s2.csr.value)
                      ELSE CSRWrittenBack
BY RunningViews DEF CPU_STATES

(* A fault of the load or store in stage 2.                                *)
LEMMA RunS2TrapStep ==
  ASSUME RefInv, RunS2Trap, ~Divergence, TypeOK'
  PROVE  Arch!Next /\ PendingInv' /\ AnswerInv'
<1>1. /\ TypeOK /\ rg_state = "RUNNING" /\ rg_state' = "RUNNING" /\ Stage3 /\ S2Freed
      /\ S2Trap /\ S2Done
      /\ UNCHANGED <<prog, mem, rg_resume_pc, f_fabric_rsps>>
  BY S2TrapDone DEF RunS2Trap, Running, RefInv, UnitsInv
<1>2. s2'.state = "EMPTY" /\ ~S2Result' /\ AnswerInv'
  BY <1>1, FreedFacts
<1>3. mode' = "running" /\ pc' = ic'.pc /\ PendingInv'
  BY <1>1, <1>2, NextPCs
<1>4. s2.state \in {"LOAD", "STORE"} /\ dc.st = "valid" /\ dc.exc /\ dc.op = s2.state /\ S2Pending
  BY <1>1 DEF S2Trap, DValid, S2Pending, RefInv, UnitsInv, UnitsServeStage2
<1>5. /\ mode = "running" /\ Present /\ dc.addr = DataAddr
      /\ s2.state = "LOAD" => prog[pc].op = "LW"
      /\ s2.state = "STORE" => prog[pc].op = "SW"
  BY <1>1, <1>4, RunningPC DEF RefInv, PendingInv
<1>6. ~S2WritesCSR
  BY <1>4 DEF S2WritesCSR
<1>7. gprView' = gprView /\ csrView' = csr' /\ csrView = CSRWrittenBack
  BY <1>1, <1>2, <1>6, EmptiedView, HandedOn, RunViews
<1>8. csr \in CSRs /\ CSRWrittenBack \in CSRs /\ CSRWrittenBack.mstatus = csr.mstatus
  <2>1. ~S3Writes("mstatus")
    BY DEF Divergence, TrapBehindCSRWrite
  <2> QED
    BY <1>1, <2>1, WrittenBackFacts, ViewTypes DEF TypeOK
<1>9. csrView' = TrapCSRs(csrView, csrView, s2.csr.value, dc.exc_code, S2RegValue)
  BY <1>7, <1>8, SameTrap DEF RunS2Trap
<1>10. ic'.pc = TrapVector(csrView.mstatus)
  BY <1>7, <1>8, SameTrap DEF RunS2Trap, IReq
<1>11. /\ dc.exc_code \in {LOAD_FAULT, LOAD_MISALIGNED, STORE_MISALIGNED}
       /\ ~Aligned(dc.addr) \/ (dc.op = "LOAD" /\ dc.addr \notin DMem)
  BY <1>4 DEF RefInv, AnswerInv
<1>12. ~PreciseDataFaults
  BY <1>4, <1>11 DEF Divergence, FaultReported
<1>13. Steps(TrapVector(csrView.mstatus))
  BY <1>1, <1>3, <1>5, <1>10 DEF Steps
<1>14. csrView \in CSRs /\ csrView' \in CSRs
  BY <1>7, <1>8 DEF TypeOK
<1>15. \/ prog[pc].op = "LW" /\ ~(Aligned(DataAddr) /\ DataAddr \in DMem)
       \/ prog[pc].op = "SW" /\ ~Aligned(DataAddr)
  BY <1>4, <1>5, <1>11
<1>16. Arch!DataFault
  BY <1>1, <1>5, <1>7, <1>9, <1>11, <1>12, <1>13, <1>14, <1>15, DataFaultStep
<1> QED
  BY <1>2, <1>3, <1>16 DEF Arch!Next, Arch!Execute

(* A trap in stage 1: nothing waits in stage 2.                            *)
LEMMA ActsFacts ==
  ASSUME RefInv, rg_state = "RUNNING", S1Acts
  PROVE  /\ mode = "running" /\ pc = ic.pc /\ ~S2Pending /\ S2Done
         /\ IExc <=> ~Present
         /\ instr = prog[pc]
<1>1. mode = "running" /\ pc = ic.pc /\ ~S2Pending /\ S2Done
  BY RunningPC, DonePC DEF S1Acts
<1> QED
  BY <1>1 DEF IExc, Present, instr

LEMMA TrapWritten ==
  ASSUME TypeOK, TypeOK', Stage3, rg_state = "RUNNING", ~S3Writes("mstatus"),
         \A a \in {"mstatus", "mepc", "mcause", "mbadaddr"} : ~S2Writes(a),
         NEW p, NEW x, NEW b, csr' = TrapCSRs(csr, CSRWrittenBack, p, x, b)
  PROVE  /\ CSRWrittenBack' = TrapCSRs(csrView, csrView, p, x, b)
         /\ csrView.mstatus = csr.mstatus
<1>1. csr \in CSRs /\ CSRWrittenBack \in CSRs /\ CSRWrittenBack.mstatus = csr.mstatus
      /\ s2.csr_addr \in CSRAddr
  BY WrittenBackFacts, ViewTypes DEF TypeOK
<1>2. CASE S2WritesCSR
  <2>1. s2.csr_addr \notin {"mstatus", "mepc", "mcause", "mbadaddr"}
    BY <1>2 DEF S2WritesCSR, S2Writes
  <2>2. CSRWrittenBack' = ma_write(csr', s2.csr_addr, s2.csr.value)
    BY <1>2, HandedOn
  <2>3. csrView = ma_write(CSRWrittenBack, s2.csr_addr, s2.csr.value)
    BY <1>2, RunViews
  <2> QED
    BY <1>1, <2>1, <2>2, <2>3, TrapThenWrite, OtherCSR
<1>3. CASE ~S2WritesCSR
  <2>1. CSRWrittenBack' = csr' /\ csrView = CSRWrittenBack
    BY <1>3, HandedOn, RunViews
  <2> QED
    BY <1>1, <2>1, SameTrap
<1> QED
  BY <1>2, <1>3

LEMMA S1Causes ==
  ASSUME RefInv, rg_state = "RUNNING", S1Acts, NEW cause \in S1TrapCause
  PROVE  \/ ~Present /\ cause = (IF Aligned(pc) THEN FETCH_FAULT ELSE FETCH_MISALIGNED)
         \/ /\ Present
            /\ \/ prog[pc].op = "ECALL" /\ cause = ECALL_FROM_U + prv(csr.mstatus)
               \/ prog[pc].op = "EBREAK" /\ cause = BREAKPOINT
               \/ prog[pc].op = "ILLEGAL" /\ cause = ILLEGAL_INSTRUCTION
               \/ /\ prog[pc].op \in CSR_OPS /\ prog[pc].csr \notin CSR_NAMES
                  /\ cause = ILLEGAL_INSTRUCTION
<1>1. pc = ic.pc /\ (IExc <=> ~Present) /\ instr = prog[pc]
  BY ActsFacts
<1>2. CASE IExc
  BY <1>1, <1>2 DEF S1TrapCause, IExcCode
<1>3. CASE ~IExc
  <2>1. CASE instr.op \in {"ECALL", "EBREAK"}
    BY <1>1, <1>3, <2>1 DEF S1TrapCause
  <2>2. CASE instr.op \notin {"ECALL", "EBREAK"}
    <3>1. S1Executes /\ executed.tag = "ILLEGAL" /\ cause = ILLEGAL_INSTRUCTION
      BY <1>3, <2>2 DEF S1TrapCause
    <3>2. instr.op \in OPS \ PRIV_OPS
      BY <1>3, <3>1, ExecutedType DEF S1Executes, Instr, RefInv, UnitsInv
    <3>3. Tag(instr, BypassedCSR(instr.csr)) = "ILLEGAL"
      BY <3>1 DEF executed, do_riscv
    <3>4. \/ instr.op = "ILLEGAL"
          \/ instr.op \in CSR_OPS /\ ~BypassedCSR(instr.csr).valid
      BY <3>2, <3>3 DEF Tag, OPS, PRIV_OPS, ALU_OPS, JUMP_OPS, CSR_OPS
    <3>5. ~BypassedCSR(instr.csr).valid => instr.csr \notin CSR_NAMES
      BY DEF BypassedCSR
    <3> QED
      BY <1>1, <1>3, <3>1, <3>4, <3>5
  <2> QED
    BY <2>1, <2>2
<1> QED
  BY <1>2, <1>3

LEMMA RunS1TrapStep ==
  ASSUME RefInv, RunS1Trap, ~Divergence, TypeOK'
  PROVE  Arch!Next /\ PendingInv' /\ AnswerInv'
<1>1. /\ TypeOK /\ rg_state = "RUNNING" /\ Stage3 /\ S2Freed /\ S1Acts
      /\ UNCHANGED <<prog, mem, rg_resume_pc, f_fabric_rsps>>
      /\ ic' = IReq(TrapVector(csr.mstatus))
  BY DEF RunS1Trap, Running, RefInv, UnitsInv
<1>2. PICK cause \in S1TrapCause :
         /\ csr' = TrapCSRs(csr, CSRWrittenBack, ic.pc, cause, ic.pc)
         /\ rg_state' = IF cause = BREAKPOINT /\ prv(csr.mstatus) = 3
                        THEN "POST_RUN" ELSE rg_state
  BY DEF RunS1Trap
<1>3. /\ mode = "running" /\ pc = ic.pc /\ ~S2Pending /\ S2Done
      /\ IExc <=> ~Present
      /\ instr = prog[pc]
  BY <1>1, ActsFacts
<1>4. s2'.state = "EMPTY" /\ ~S2Result' /\ AnswerInv'
  BY <1>1, <1>3, FreedFacts
<1>5. /\ ~S3Writes("mstatus")
      /\ \A a \in {"mstatus", "mepc", "mcause", "mbadaddr"} : ~S2Writes(a)
  BY DEF Divergence, TrapBehindCSRWrite
<1>6. rg_state' # "RESET"
  BY <1>1, <1>2
<1>7. gprView' = gprView /\ csrView' = CSRWrittenBack'
  BY <1>1, <1>4, <1>6, EmptiedView
<1>8. /\ csrView' = TrapCSRs(csrView, csrView, pc, cause, pc)
      /\ csrView.mstatus = csr.mstatus
  BY <1>1, <1>2, <1>3, <1>5, <1>7, TrapWritten
<1>9. Traps(cause, pc)
  BY <1>1, <1>7, <1>8 DEF Traps
<1>10. \/ ~Present /\ cause = (IF Aligned(pc) THEN FETCH_FAULT ELSE FETCH_MISALIGNED)
       \/ /\ Present
          /\ \/ prog[pc].op = "ECALL" /\ cause = ECALL_FROM_U + prv(csrView.mstatus)
             \/ prog[pc].op = "EBREAK" /\ cause = BREAKPOINT
             \/ prog[pc].op = "ILLEGAL" /\ cause = ILLEGAL_INSTRUCTION
             \/ /\ prog[pc].op \in CSR_OPS /\ prog[pc].csr \notin CSR_NAMES
                /\ cause = ILLEGAL_INSTRUCTION
  BY <1>1, <1>8, S1Causes
<1>11. prv(csrView.mstatus) \in 0 .. 3
  BY <1>1, ViewTypes, MstatusFacts DEF CSRs
<1>12. cause = BREAKPOINT <=> Present /\ prog[pc].op = "EBREAK"
  BY <1>10, <1>11 DEF BREAKPOINT, FETCH_FAULT, FETCH_MISALIGNED, ECALL_FROM_U,
                      ILLEGAL_INSTRUCTION, CSR_OPS
<1>13. CASE Present /\ prog[pc].op = "EBREAK" /\ prv(csrView.mstatus) = 3
  <2>1. rg_state' = "POST_RUN"
    BY <1>2, <1>8, <1>12, <1>13
  <2>2. mode' = "halted" /\ pc' = -1 /\ PendingInv'
    BY <2>1 DEF mode, pc, PendingInv
  <2>3. Arch!Execute
    BY <1>1, <1>3, <1>9, <1>10, <1>13, <2>2, OwnTrapStep
  <2> QED
    BY <1>4, <2>2, <2>3 DEF Arch!Next
<1>14. CASE ~(Present /\ prog[pc].op = "EBREAK" /\ prv(csrView.mstatus) = 3)
  <2>1. rg_state' = "RUNNING"
    BY <1>1, <1>2, <1>8, <1>12, <1>14
  <2>2. mode' = "running" /\ pc' = TrapVector(csrView.mstatus) /\ PendingInv'
    BY <1>1, <1>4, <1>8, <2>1, NextPCs DEF IReq
  <2>3. Steps(TrapVector(csrView.mstatus))
    BY <1>1, <1>3, <2>2 DEF Steps
  <2>4. Arch!Execute
    BY <1>1, <1>3, <1>9, <1>10, <1>14, <2>3, OwnTrapStep
  <2> QED
    BY <1>4, <2>2, <2>4 DEF Arch!Next
<1> QED
  BY <1>13, <1>14

LEMMA RunEretStep ==
  ASSUME RefInv, RunEret, ~Divergence, TypeOK'
  PROVE  Arch!Next /\ PendingInv' /\ AnswerInv'
<1>1. /\ TypeOK /\ rg_state = "RUNNING" /\ rg_state' = "RUNNING" /\ Stage3 /\ S2Freed /\ S1Acts
      /\ ~IExc /\ instr.op = "ERET"
      /\ UNCHANGED <<prog, mem, rg_resume_pc, f_fabric_rsps>>
      /\ ic' = IReq(csr.mepc) /\ csr' = EretCSRs(csr, CSRWrittenBack)
  BY DEF RunEret, Running, RefInv, UnitsInv
<1>2. /\ mode = "running" /\ pc = ic.pc /\ ~S2Pending /\ S2Done /\ Present
      /\ prog[pc].op = "ERET"
  BY <1>1, ActsFacts
<1>3. s2'.state = "EMPTY" /\ ~S2Result' /\ AnswerInv'
  BY <1>1, <1>2, FreedFacts
<1>4. mode' = "running" /\ pc' = csr.mepc /\ PendingInv'
  BY <1>1, <1>3, NextPCs DEF IReq
<1>5. \A a \in {"mstatus", "mepc"} : ~S2Writes(a) /\ ~S3Writes(a)
  BY DEF Divergence, EretBehindCSRWrite
<1>6. gprView' = gprView /\ csrView' = CSRWrittenBack'
  BY <1>1, <1>3, EmptiedView
<1>7. /\ csr \in CSRs /\ CSRWrittenBack \in CSRs /\ s2.csr_addr \in CSRAddr
      /\ CSRWrittenBack.mstatus = csr.mstatus /\ CSRWrittenBack.mepc = csr.mepc
  BY <1>1, <1>5, WrittenBackFacts, ViewTypes DEF TypeOK
<1>8. CASE S2WritesCSR
  <2>1. s2.csr_addr # "mstatus" /\ s2.csr_addr # "mepc"
    BY <1>5, <1>8 DEF S2WritesCSR, S2Writes
  <2>2. csrView' = ma_write(csr', s2.csr_addr, s2.csr.value)
    BY <1>1, <1>6, <1>8, HandedOn
  <2>3. csrView = ma_write(CSRWrittenBack, s2.csr_addr, s2.csr.value)
    BY <1>1, <1>8, RunViews
  <2>4. csrView' = EretCSRs(csrView, csrView) /\ csrView.mepc = csr.mepc
    BY <1>1, <1>7, <2>1, <2>2, <2>3, EretThenWrite, OtherCSR
  <2>5. Arch!ERet
    BY <1>1, <1>2, <1>4, <1>6, <2>4, ERetStep DEF Steps
  <2> QED
    BY <1>3, <1>4, <2>5 DEF Arch!Next, Arch!Execute
<1>9. CASE ~S2WritesCSR
  <2>1. csrView' = csr' /\ csrView = CSRWrittenBack
    BY <1>1, <1>6, <1>9, HandedOn, RunViews
  <2>2. csrView' = EretCSRs(csrView, csrView) /\ csrView.mepc = csr.mepc
    BY <1>1, <1>7, <2>1, SameTrap
  <2>3. Arch!ERet
    BY <1>1, <1>2, <1>4, <1>6, <2>2, ERetStep DEF Steps
  <2> QED
    BY <1>3, <1>4, <2>3 DEF Arch!Next, Arch!Execute
<1> QED
  BY <1>8, <1>9

(* An edge without an instruction in stage 1.                              *)
LEMMA RunWaitStep ==
  ASSUME RefInv, RunWait, TypeOK'
  PROVE  ViewsSame /\ PendingInv' /\ AnswerInv'
<1>1. /\ TypeOK /\ rg_state = "RUNNING" /\ rg_state' = "RUNNING" /\ Stage3 /\ ~S2Trap
      /\ UNCHANGED <<prog, mem, rg_resume_pc, f_fabric_rsps, ic>>
      /\ csr' = CSRWrittenBack
  BY DEF RunWait, Running, RefInv, UnitsInv
<1>2. CASE S2Done
  <2>1. s2'.state = "EMPTY" /\ ~S2Result' /\ AnswerInv'
    BY <1>1, <1>2, FreedFacts DEF RunWait
  <2>2. mode' = "running" /\ pc' = ic.pc /\ PendingInv'
    BY <1>1, <2>1, NextPCs
  <2>3. mode = "running" /\ pc = ic.pc
    BY <1>1, <1>2, DonePC, RunningPC
  <2>4. gprView' = gprView /\ csrView' = CSRWrittenBack'
    BY <1>1, <2>1, EmptiedView
  <2>5. csrView' = csrView
    BY <1>1, <2>4, HandedOn, RunViews
  <2> QED
    BY <1>1, <2>1, <2>2, <2>3, <2>4, <2>5 DEF ViewsSame
<1>3. CASE ~S2Done
  <2>1. UNCHANGED <<s2, dc, mb, h_pc>>
    BY <1>3 DEF RunWait
  <2>2. ~S2Result /\ ~S2WritesCSR /\ S2Pending
    BY <1>1, <1>3 DEF S2Done, S2Result, S2WritesCSR, S2Pending, RefInv, UnitsInv, TypeOK, S2_STATES
  <2>3. ~S2Result' /\ S2Pending'
    BY <2>1, <2>2 DEF S2Result, S2Pending, S2Done, S2Trap, DValid, MValid
  <2>4. gprView' = gprView /\ csrView' = CSRWrittenBack'
    BY <1>1, <2>3, EmptiedView
  <2>5. csrView' = csrView
    BY <1>1, <2>2, <2>4, HandedOn, RunViews
  <2>6. mode = "running" /\ mode' = "running" /\ pc' = pc
    BY <1>1, <2>1, <2>2, <2>3 DEF mode, pc
  <2>7. ViewsSame
    BY <1>1, <2>4, <2>5, <2>6 DEF ViewsSame
  <2>8. PendingInv'
    BY <1>1, <2>1, <2>2, <2>7
       DEF RefInv, PendingInv, ViewsSame, Present, DataAddr, Wrap, Aligned
  <2>9. AnswerInv'
    BY <2>1 DEF RefInv, AnswerInv, LOAD_FAULT, LOAD_MISALIGNED, STORE_MISALIGNED, Aligned
  <2> QED
    BY <2>7, <2>8, <2>9
<1> QED
  BY <1>2, <1>3

(* An instruction moves to stage 2: what is seen is what was seen before,  *)
(* and its result.                                                         *)
LEMMA IssuedView ==
  ASSUME TypeOK, TypeOK', Stage3, rg_state = "RUNNING", rg_state' = "RUNNING",
         csr' = CSRWrittenBack
  PROVE  /\ ~S2Result' => gprView' = gprView
         /\ S2Result' => gprView' = IF s2'.rd = 0 THEN gprView
                                    ELSE [gprView EXCEPT ![s2'.rd] = S2RegValue']
         /\ csrView' = IF s2'.state = "ALU" /\ s2'.csr.valid
                       THEN ma_write(csrView, s2'.csr_addr, s2'.csr.value) ELSE csrView
<1>1. CSRWrittenBack' = csrView
  BY HandedOn, RunViews
<1>2. gprView = [r \in Reg |-> Bypassed(r)]
  BY RunViews
<1>3. mode' = "running"
  BY DEF mode
<1>4. gprView' = [r \in Reg |-> Bypassed(r)']
  BY <1>3 DEF gprView
<1>5. \A r \in Reg : Bypassed(r)' = IF S2Result' /\ s2'.rd # 0 /\ s2'.rd = r
                                    THEN S2RegValue' ELSE Bypassed(r)
  <2>1. \A r \in Reg : Bypassed(r)' = IF S2Result' /\ s2'.rd # 0 /\ s2'.rd = r
                                      THEN S2RegValue' ELSE Behind(r)'
    BY DEF Bypassed, Behind
  <2> QED
    BY <2>1, HandedOn
<1>6. s2'.rd \in Reg
  BY DEF TypeOK
<1>7. ~S2Result' => gprView' = gprView
  BY <1>2, <1>4, <1>5
<1>8. S2Result' => gprView' = IF s2'.rd = 0 THEN gprView
                              ELSE [gprView EXCEPT ![s2'.rd] = S2RegValue']
  BY <1>2, <1>4, <1>5, <1>6
<1>9. csrView' = IF s2'.state = "ALU" /\ s2'.csr.valid
                 THEN ma_write(csrView, s2'.csr_addr, s2'.csr.value) ELSE csrView
  <2>1. csrView' = IF (s2.state = "ALU" /\ s2.csr.valid)'
                   THEN ma_write(CSRWrittenBack', s2'.csr_addr, s2'.csr.value)
                   ELSE CSRWrittenBack'
    BY <1>3 DEF csrView, ma_write, Kept, SignBit
  <2> QED
    BY <1>1, <2>1
<1> QED
  BY <1>7, <1>8, <1>9

(* What an instruction that is issued brings to stage 2.                   *)
LEMMA IssuedFacts ==
  ASSUME RefInv, RunIssue
  PROVE  /\ TypeOK /\ rg_state = "RUNNING" /\ rg_state' = "RUNNING" /\ Stage3
         /\ csr' = CSRWrittenBack
         /\ UNCHANGED <<prog, mem, rg_resume_pc, f_fabric_rsps>>
         /\ mode = "running" /\ pc = ic.pc /\ Present /\ instr = prog[pc]
         /\ instr \in Instr
         /\ executed.tag = Tag(instr, BypassedCSR(instr.csr))
         /\ executed.next_pc = NextPC(instr, pc, gprView[instr.rs1], gprView[instr.rs2])
         /\ executed.value1 = Value1(instr, pc, gprView[instr.rs1], gprView[instr.rs2],
                                     BypassedCSR(instr.csr))
         /\ executed.value2 = gprView[instr.rs2]
         /\ executed.csr = CSRResult(instr, gprView[instr.rs1], BypassedCSR(instr.csr))
         /\ s2'.state = IF executed.tag = "BRANCH" THEN "EMPTY" ELSE executed.tag
         /\ s2'.rd = instr.rd /\ s2'.rdval = executed.value1 /\ s2'.csr_addr = instr.csr
         /\ s2'.csr = executed.csr
         /\ ic'.pc = executed.next_pc /\ h_pc' = pc
         /\ S2Done
<1>1. /\ TypeOK /\ rg_state = "RUNNING" /\ rg_state' = "RUNNING" /\ Stage3
      /\ csr' = CSRWrittenBack /\ S1Acts /\ ~IExc
      /\ UNCHANGED <<prog, mem, rg_resume_pc, f_fabric_rsps>>
  BY DEF RunIssue, Running, S1Executes, RefInv, UnitsInv
<1>2. mode = "running" /\ pc = ic.pc /\ Present /\ instr = prog[pc] /\ S2Done
  BY <1>1, ActsFacts
<1>3. instr \in Instr
  BY <1>1, ExecutedType
<1>4. gprView[instr.rs1] = Bypassed(instr.rs1) /\ gprView[instr.rs2] = Bypassed(instr.rs2)
  BY <1>1, <1>3, RunViews DEF Instr
<1>5. /\ executed.tag = Tag(instr, BypassedCSR(instr.csr))
      /\ executed.next_pc = NextPC(instr, pc, gprView[instr.rs1], gprView[instr.rs2])
      /\ executed.rd = instr.rd
      /\ executed.value1 = Value1(instr, pc, gprView[instr.rs1], gprView[instr.rs2],
                                  BypassedCSR(instr.csr))
      /\ executed.value2 = gprView[instr.rs2]
      /\ executed.csr = CSRResult(instr, gprView[instr.rs1], BypassedCSR(instr.csr))
  BY <1>2, <1>4 DEF executed, do_riscv
<1>6. /\ s2' = [state |-> IF executed.tag = "BRANCH" THEN "EMPTY" ELSE executed.tag,
                rd |-> executed.rd, rdval |-> executed.value1,
                csr_addr |-> instr.csr, csr |-> executed.csr]
      /\ ic' = IReq(executed.next_pc) /\ h_pc' = ic.pc
  BY DEF RunIssue
<1>7. ic'.pc = executed.next_pc
  BY <1>6 DEF IReq
<1> QED
  BY <1>1, <1>2, <1>3, <1>5, <1>6, <1>7

(* An instruction that is done when it leaves stage 1.                     *)
LEMMA IssueALU ==
  ASSUME RefInv, RunIssue, ~Divergence, TypeOK', executed.tag = "ALU"
  PROVE  Arch!Next /\ PendingInv'
<1>1. s2'.state = "ALU" /\ S2Result' /\ S2RegValue' = executed.value1
  BY IssuedFacts DEF S2Result, S2RegValue
<1>2. /\ mode' = "running" /\ pc' = executed.next_pc /\ PendingInv'
  BY <1>1, IssuedFacts, NextPCs
<1>3. /\ SetView(instr.rd, executed.value1)
      /\ csrView' = IF executed.csr.valid THEN ma_write(csrView, instr.csr, executed.csr.value)
                    ELSE csrView
  BY <1>1, IssuedFacts, IssuedView DEF SetView
<1>4. Steps(executed.next_pc) /\ Present /\ instr = prog[pc] /\ mem' = mem
  BY <1>2, IssuedFacts DEF Steps
<1>5. \/ instr.op \in ALU_OPS \/ instr.op \in JUMP_OPS
      \/ instr.op \in CSR_OPS /\ BypassedCSR(instr.csr).valid
  <2>1. Tag(instr, BypassedCSR(instr.csr)) = "ALU"
    BY IssuedFacts
  <2> QED
    BY <2>1 DEF Tag
<1>6. CASE instr.op \in ALU_OPS
  <2>1. ~executed.csr.valid
    BY <1>6, IssuedFacts DEF CSRResult, ALU_OPS, CSR_OPS
  <2>2. executed.next_pc = Wrap(pc + 4)
    BY <1>6, IssuedFacts DEF NextPC, ALU_OPS
  <2>3. \/ instr.op = "ADDI" /\ executed.value1 = Wrap(gprView[instr.rs1] + instr.imm)
        \/ instr.op = "ADD" /\ executed.value1 = Wrap(gprView[instr.rs1] + gprView[instr.rs2])
        \/ instr.op = "SUB" /\ executed.value1 = Wrap(gprView[instr.rs1] - gprView[instr.rs2])
    <3>1. executed.value1 = Value1(instr, pc, gprView[instr.rs1], gprView[instr.rs2],
                                   BypassedCSR(instr.csr))
      BY IssuedFacts
    <3>2. CASE instr.op = "ADDI"
      BY <3>1, <3>2 DEF Value1, JUMP_OPS, CSR_OPS
    <3>3. CASE instr.op = "ADD"
      BY <3>1, <3>3 DEF Value1, JUMP_OPS, CSR_OPS
    <3>4. CASE instr.op = "SUB"
      BY <3>1, <3>4 DEF Value1, JUMP_OPS, CSR_OPS
    <3> QED
      BY <1>6, <3>2, <3>3, <3>4 DEF ALU_OPS
  <2>4. Arch!Compute
    BY <1>3, <1>4, <2>1, <2>2, <2>3, ComputeStep
  <2> QED
    BY <1>2, <2>4 DEF Arch!Next, Arch!Execute
<1>7. CASE instr.op \in JUMP_OPS
  <2>1. ~executed.csr.valid
    BY <1>7, IssuedFacts DEF CSRResult, JUMP_OPS, CSR_OPS
  <2>2. \/ instr.op = "JAL" /\ executed.next_pc = Wrap(pc + instr.imm)
        \/ instr.op = "JALR" /\ executed.next_pc = Wrap(gprView[instr.rs1] + instr.imm)
    BY <1>7, IssuedFacts DEF NextPC, JUMP_OPS
  <2>3. executed.value1 = Wrap(pc + 4)
    BY <1>7, IssuedFacts DEF Value1, JUMP_OPS
  <2>4. Arch!Jump
    BY <1>3, <1>4, <2>1, <2>2, <2>3, JumpStep
  <2> QED
    BY <1>2, <2>4 DEF Arch!Next, Arch!Execute
<1>8. CASE instr.op \in CSR_OPS /\ BypassedCSR(instr.csr).valid
  <2>1. instr.csr \in CSR_NAMES
    BY <1>8 DEF BypassedCSR, NoCSR
  <2> DEFINE word == BypassedCSR(instr.csr).value
  <2>2. Kept(instr.csr, word) = word
    BY <1>8 DEF Divergence, MaskedBypass
  <2>3. csrView[instr.csr] = word
    <3>1. csrView = IF S2WritesCSR THEN ma_write(CSRWrittenBack, s2.csr_addr, s2.csr.value)
                    ELSE CSRWrittenBack
      BY IssuedFacts, RunViews
    <3>2. CSRWrittenBack = IF s3.state /\ s3.csr.valid
                           THEN ma_write(csr, s3.csr_addr, s3.csr.value) ELSE csr
      BY DEF CSRWrittenBack
    <3>3. \A c \in CSRs : \A a, v :
            ma_write(c, a, v)[instr.csr] = IF a = instr.csr THEN Kept(a, v) ELSE c[instr.csr]
      BY <2>1 DEF ma_write, CSRs, CSR_NAMES
    <3>4. csr \in CSRs /\ CSRWrittenBack \in CSRs
      BY IssuedFacts, ViewTypes DEF TypeOK
    <3>5. word = IF S2WritesCSR /\ s2.csr_addr = instr.csr THEN s2.csr.value
                 ELSE IF s3.state /\ s3.csr.valid /\ s3.csr_addr = instr.csr
                 THEN s3.csr.value ELSE csr[instr.csr]
      BY <2>1 DEF BypassedCSR, S2WritesCSR
    <3>6. CASE S2WritesCSR /\ s2.csr_addr = instr.csr
      BY <2>2, <3>1, <3>3, <3>4, <3>5, <3>6
    <3>7. CASE ~(S2WritesCSR /\ s2.csr_addr = instr.csr)
      <4>1. csrView[instr.csr] = CSRWrittenBack[instr.csr]
        BY <3>1, <3>3, <3>4, <3>7
      <4> QED
        BY <2>2, <3>2, <3>3, <3>4, <3>5, <3>7, <4>1
    <3> QED
      BY <3>6, <3>7
  <2>4. executed.value1 = word /\ executed.next_pc = Wrap(pc + 4)
    BY <1>8, IssuedFacts DEF Value1, NextPC, CSR_OPS, JUMP_OPS
  <2>5. /\ executed.csr.valid
        /\ executed.csr.value = IF instr.op = "CSRRW" THEN gprView[instr.rs1] ELSE word
    BY <1>8, IssuedFacts DEF CSRResult
  <2>6. csrView' = IF instr.op = "CSRRW" THEN ma_write(csrView, instr.csr, gprView[instr.rs1])
                   ELSE csrView
    <3>1. ma_write(csrView, instr.csr, word) = csrView
      <4>1. csrView \in CSRs
        BY IssuedFacts, ViewTypes
      <4> QED
        BY <2>1, <2>2, <2>3, <4>1 DEF ma_write, CSRs, CSR_NAMES
    <3> QED
      BY <1>3, <2>5, <3>1
  <2>7. Arch!CSRAccess
    BY <1>3, <1>4, <1>8, <2>1, <2>3, <2>4, <2>6, CSRStep
  <2> QED
    BY <1>2, <2>7 DEF Arch!Next, Arch!Execute
<1> QED
  BY <1>5, <1>6, <1>7, <1>8

LEMMA IssueBranch ==
  ASSUME RefInv, RunIssue, TypeOK', executed.tag = "BRANCH"
  PROVE  Arch!Next /\ PendingInv'
<1>1. s2'.state = "EMPTY" /\ ~S2Result'
  BY IssuedFacts DEF S2Result
<1>2. /\ mode' = "running" /\ pc' = executed.next_pc /\ PendingInv'
  BY <1>1, IssuedFacts, NextPCs
<1>3. UNCHANGED <<gprView, csrView>>
  BY <1>1, IssuedFacts, IssuedView
<1>4. instr.op = "BEQ"
  <2>1. Tag(instr, BypassedCSR(instr.csr)) = "BRANCH"
    BY IssuedFacts
  <2> QED
    BY <2>1 DEF Tag
<1>5. executed.next_pc = IF gprView[instr.rs1] = gprView[instr.rs2]
                         THEN Wrap(pc + instr.imm) ELSE Wrap(pc + 4)
  BY <1>4, IssuedFacts DEF NextPC
<1>6. Arch!Branch
  BY <1>2, <1>3, <1>4, <1>5, IssuedFacts, BranchStep DEF Steps
<1> QED
  BY <1>2, <1>6 DEF Arch!Next, Arch!Execute

(* An instruction that has to wait for a unit: nothing has happened yet.   *)
LEMMA IssuePending ==
  ASSUME RefInv, RunIssue, TypeOK', executed.tag \in {"LOAD", "STORE", "MBOX"}
  PROVE  ViewsSame /\ PendingInv'
<1>1. s2'.state = executed.tag
  BY IssuedFacts
<1>2. /\ executed.tag \in {"LOAD", "STORE"} => /\ dc'.st = "busy" /\ dc'.addr = executed.value1
                                               /\ dc'.st_value = executed.value2
      /\ executed.tag = "MBOX" => /\ mb'.st = "busy" /\ mb'.v1 = executed.value1
                                  /\ mb'.v2 = executed.value2
  BY DEF RunIssue, DReq, MReq, IdleD, IdleM
<1>3. ~S2Result' /\ S2Pending'
  BY <1>1, <1>2 DEF S2Result, S2Pending, S2Done, DValid, MValid
<1>4. mode' = "running" /\ pc' = pc
  BY <1>3, IssuedFacts DEF mode, pc
<1>5. UNCHANGED <<gprView, csrView>>
  BY <1>1, <1>3, IssuedFacts, IssuedView
<1>6. ViewsSame
  BY <1>4, <1>5, IssuedFacts DEF ViewsSame
<1>7. /\ executed.tag = "LOAD" => instr.op = "LW"
      /\ executed.tag = "STORE" => instr.op = "SW"
      /\ executed.tag = "MBOX" => instr.op = "MUL"
  <2>1. executed.tag = Tag(instr, BypassedCSR(instr.csr))
    BY IssuedFacts
  <2> QED
    BY <2>1 DEF Tag
<1>8. /\ instr.op \in {"LW", "SW"} => executed.value1 = DataAddr
      /\ instr.op = "MUL" => executed.value1 = gprView[instr.rs1]
  BY IssuedFacts DEF Value1, DataAddr, JUMP_OPS
<1>9. ic'.pc = Wrap(pc + 4)
  BY <1>7, IssuedFacts DEF NextPC
<1>10. DataAddr' = DataAddr /\ Present'
  BY <1>4, <1>5, IssuedFacts DEF DataAddr, Present, Wrap, Aligned
<1>11. Wrap(pc + 4)' = Wrap(pc + 4)
  BY <1>4 DEF Wrap
<1>12. PendingInv'
  BY <1>1, <1>2, <1>4, <1>5, <1>7, <1>8, <1>9, <1>10, <1>11, IssuedFacts DEF PendingInv
<1> QED
  BY <1>6, <1>12

LEMMA RunIssueStep ==
  ASSUME RefInv, RunIssue, ~Divergence, TypeOK'
  PROVE  /\ ViewsSame \/ Arch!Next
         /\ PendingInv' /\ AnswerInv'
<1>1. executed.tag \in {"BRANCH", "ALU", "MBOX", "LOAD", "STORE"}
  BY ExecutedType DEF RunIssue, S1Executes, TAGS, RefInv, UnitsInv
<1>2. AnswerInv'
  <2>1. DValid \/ dc.st = "idle"
    BY IssuedFacts, FreedUnits DEF RefInv
  <2>2. dc'.st # "valid"
    BY <2>1, UnitStates DEF RunIssue, DValid
  <2> QED
    BY <2>2 DEF AnswerInv
<1> QED
  BY <1>1, <1>2, IssueALU, IssueBranch, IssuePending

-----------------------------------------------------------------------------
(* The controller and the debugger.                                        *)

(* In a pipeline that does not run stage 2 is empty.                       *)
LEMMA StoppedFacts ==
  ASSUME RefInv, rg_state \in {"IDLE", "PRE_RUN", "POST_RUN"}
  PROVE  /\ TypeOK /\ s2.state = "EMPTY" /\ ~S2Result /\ dc.st = "idle"
         /\ gprView = [r \in Reg |-> Behind(r)] /\ csrView = CSRWrittenBack
<1>1. TypeOK /\ s2.state = "EMPTY" /\ ~S2Result /\ dc.st = "idle"
  BY DEF RefInv, UnitsInv, UnitsServeStage2, TypeOK, UNIT_STATES, S2Result
<1>2. \A r : Bypassed(r) = Behind(r)
  BY <1>1, NoResult
<1>3. gprView = [r \in Reg |-> Behind(r)] /\ csrView = CSRWrittenBack
  BY <1>1, <1>2, RunningViews DEF CPU_STATES, S2WritesCSR
<1> QED
  BY <1>1, <1>3

LEMMA StoppedViews ==
  ASSUME RefInv, rg_state \in {"IDLE", "PRE_RUN", "POST_RUN"}, rg_state' # "RESET",
         UNCHANGED <<s2, s3, csr>>
  PROVE  gprView' = [r \in Reg |-> Behind(r)'] /\ csrView' = csrView
<1>1. mode' # "reset" /\ s2'.state = "EMPTY" /\ ~S2Result'
  BY StoppedFacts DEF mode, S2Result
<1>2. \A r \in Reg : Bypassed(r)' = Behind(r)'
  BY <1>1 DEF Bypassed, Behind
<1>3. gprView' = [r \in Reg |-> Bypassed(r)']
  BY <1>1 DEF gprView
<1>4. csrView' = CSRWrittenBack'
  BY <1>1 DEF csrView
<1>5. CSRWrittenBack' = CSRWrittenBack
  BY DEF CSRWrittenBack, ma_write, Kept, SignBit
<1> QED
  BY <1>2, <1>3, <1>4, <1>5, StoppedFacts

(* The controller starts and stops the pipeline.                           *)
LEMMA RlPreRunStep ==
  ASSUME RefInv, RlPreRun
  PROVE  ViewsSame /\ PendingInv' /\ AnswerInv'
<1>1. /\ rg_state = "PRE_RUN" /\ rg_state' = "RUNNING" /\ ic'.pc = rg_resume_pc
      /\ UNCHANGED <<prog, mem, rg_resume_pc, f_fabric_rsps, s2, s3, regfile, csr, dc>>
  BY DEF RlPreRun, IReq, coreVars
<1>2. s2'.state = "EMPTY" /\ dc'.st = "idle"
  BY <1>1, StoppedFacts
<1>3. mode' = "running" /\ pc' = rg_resume_pc /\ PendingInv'
  BY <1>1, <1>2, NextPCs
<1>4. mode = "running" /\ pc = rg_resume_pc
  BY <1>1 DEF mode, pc
<1>5. UNCHANGED <<gprView, csrView>>
  BY <1>1, StoppedViews, StoppedFacts DEF Behind
<1>6. AnswerInv'
  BY <1>2 DEF AnswerInv
<1> QED
  BY <1>1, <1>3, <1>4, <1>5, <1>6 DEF ViewsSame

LEMMA RlPostRunStep ==
  ASSUME RefInv, RlPostRun
  PROVE  ViewsSame /\ PendingInv' /\ AnswerInv'
<1>1. /\ rg_state = "POST_RUN" /\ rg_state' = "IDLE"
      /\ UNCHANGED <<prog, mem, rg_resume_pc, f_fabric_rsps, s2, s3, regfile, csr, dc>>
  BY DEF RlPostRun, coreVars, unitVars
<1>2. UNCHANGED <<mode, pc>>
  BY <1>1 DEF mode, pc
<1>3. UNCHANGED <<gprView, csrView>>
  BY <1>1, StoppedViews, StoppedFacts DEF Behind
<1>4. PendingInv' /\ AnswerInv'
  BY <1>1, StoppedFacts DEF PendingInv, AnswerInv
<1> QED
  BY <1>1, <1>2, <1>3, <1>4 DEF ViewsSame

(* A reset: what was on its way to the registers is lost.                  *)
LEMMA ResetStartStep ==
  ASSUME RefInv, ResetStart, TypeOK'
  PROVE  Arch!Next /\ PendingInv' /\ AnswerInv'
<1>1. /\ rg_state' = "RESET" /\ dc'.st = "idle"
      /\ UNCHANGED <<prog, mem, rg_resume_pc, f_fabric_rsps>>
  BY UnitStates DEF ResetStart
<1>2. mode' = "reset" /\ pc' = -1 /\ gprView' = regfile' /\ csrView' = csr'
  BY <1>1 DEF mode, pc, gprView, csrView
<1>3. gprView' \in [Reg -> Word] /\ csrView' \in CSRs
  BY <1>2 DEF TypeOK
<1>4. Arch!Reset
  BY <1>1, <1>2, <1>3, SameWords DEF Arch!Reset, Arch!NoPC
<1>5. PendingInv' /\ AnswerInv'
  BY <1>1 DEF PendingInv, AnswerInv
<1> QED
  BY <1>4, <1>5 DEF Arch!Next

LEMMA RlResetStep ==
  ASSUME RefInv, RlReset
  PROVE  Arch!Next /\ PendingInv' /\ AnswerInv'
<1>1. /\ rg_state = "RESET" /\ rg_state' = "IDLE" /\ rg_resume_pc' = RESET_PC
      /\ f_fabric_rsps' = NoRsp /\ s2'.state = "EMPTY" /\ ~s3'.state
      /\ regfile' = [regfile EXCEPT ![0] = 0]
      /\ csr' = [csr EXCEPT !.mstatus = MSTATUS_RESET]
      /\ UNCHANGED <<prog, mem, dc>> /\ TypeOK
  BY DEF RlReset, unitVars, RefInv, UnitsInv, TypeOK
<1>2. mode = "reset" /\ pc = -1 /\ gprView = regfile /\ csrView = csr
  BY <1>1 DEF mode, pc, gprView, csrView
<1>3. mode' = "halted" /\ pc' = -1
  BY <1>1 DEF mode, pc
<1>4. ~S2Result'
  BY <1>1 DEF S2Result
<1>5. gprView' = regfile'
  <2>1. \A r \in Reg : Bypassed(r)' = regfile'[r]
    BY <1>1, <1>4 DEF Bypassed
  <2>2. gprView' = [r \in Reg |-> Bypassed(r)']
    BY <1>3 DEF gprView
  <2>3. regfile' \in [Reg -> Word]
    BY <1>1, WordFacts DEF TypeOK
  <2> QED
    BY <2>1, <2>2, <2>3
<1>6. csrView' = csr'
  BY <1>1, <1>3 DEF csrView, CSRWrittenBack
<1>7. Arch!ResetDone
  BY <1>1, <1>2, <1>3, <1>5, <1>6, SameWords
     DEF Arch!ResetDone, Arch!RESET_PC, RESET_PC, Arch!MSTATUS_RESET, MSTATUS_RESET
<1>8. PendingInv'
  BY <1>1 DEF PendingInv
<1>9. AnswerInv'
  BY <1>1 DEF RefInv, AnswerInv, Aligned
<1> QED
  BY <1>7, <1>8, <1>9 DEF Arch!Next

(* Somebody takes the debugger's response.                                 *)
LEMMA ControlResponseStep ==
  ASSUME RefInv, ControlResponse
  PROVE  Arch!Next /\ PendingInv' /\ AnswerInv'
<1>1. /\ f_fabric_rsps # NoRsp /\ f_fabric_rsps' = NoRsp
      /\ UNCHANGED <<prog, mem, rg_state, rg_resume_pc, s2, s3, regfile, csr, h_pc, ic, dc, mb>>
  BY DEF ControlResponse, coreVars, unitVars
<1>2. (S2Result' <=> S2Result) /\ S2RegValue' = S2RegValue /\ (S2Pending' <=> S2Pending)
  BY <1>1 DEF S2Result, S2RegValue, S2Pending, S2Done, S2Trap, DValid, MValid
<1>3. mode' = mode
  BY <1>1 DEF mode
<1>4. pc' = pc
  BY <1>1, <1>2, <1>3 DEF pc
<1>5. csrView' = csrView
  BY <1>1, <1>3 DEF csrView, CSRWrittenBack, ma_write, Kept, SignBit
<1>6. gprView' = gprView
  <2>1. \A r : Bypassed(r)' = Bypassed(r)
    BY <1>1, <1>2 DEF Bypassed
  <2>2. gprView' = IF mode = "reset" THEN regfile ELSE [r \in Reg |-> Bypassed(r)']
    BY <1>1, <1>3 DEF gprView
  <2> QED
    BY <2>1, <2>2 DEF gprView
<1>7. Arch!Collect
  BY <1>1, <1>3, <1>4, <1>5, <1>6 DEF Arch!Collect, Arch!NoRsp, Arch!Rsp, NoRsp, Rsp
<1>8. PendingInv'
  BY <1>1, <1>2, <1>4, <1>6 DEF RefInv, PendingInv, Present, DataAddr, Wrap, Aligned
<1>9. AnswerInv'
  BY <1>1 DEF RefInv, AnswerInv, LOAD_FAULT, LOAD_MISALIGNED, STORE_MISALIGNED, Aligned
<1> QED
  BY <1>7, <1>8, <1>9 DEF Arch!Next, Arch!Debug

(* A request of the debugger.                                              *)
LEMMA ControlRequestStep ==
  ASSUME RefInv, NEW req \in DebugReqs, ControlRequest(req), ~Divergence
  PROVE  Arch!Next /\ PendingInv' /\ AnswerInv'
<1>1. /\ rg_state = "IDLE" /\ f_fabric_rsps = NoRsp
      /\ f_fabric_rsps' = CASE req.op = "read_gpr" -> Rsp("gpr", req.reg, regfile[req.reg])
                            [] req.op = "read_pc"  -> Rsp("resume_pc", 0, rg_resume_pc)
                            [] req.op = "refused"  -> Rsp("refused", 0, 0)
                            [] OTHER               -> Rsp("write", 0, 0)
      /\ regfile' = (IF req.op = "write_gpr"
                     THEN [regfile EXCEPT ![req.reg] = req.word] ELSE regfile)
      /\ rg_resume_pc' = (IF req.op = "write_pc" THEN req.word ELSE rg_resume_pc)
      /\ rg_state' = (IF req.op = "continue" THEN "PRE_RUN" ELSE rg_state)
      /\ UNCHANGED <<prog, mem, s2, s3, csr, h_pc, ic, dc, mb>>
  BY DEF ControlRequest, unitVars
<1>2. TypeOK /\ req.reg \in Reg /\ req.word \in Word
  BY CPUAssumption DEF RefInv, UnitsInv
<1>3. /\ req.op \in {"read_gpr", "write_gpr"} => ~(s3.state /\ s3.rd # 0 /\ s3.rd = req.reg)
      /\ req.op = "write_gpr" => req.reg # 0
  BY DEF Divergence, StaleDebug
<1>4. /\ gprView = [r \in Reg |-> Behind(r)]
      /\ gprView' = [r \in Reg |-> Behind(r)'] /\ csrView' = csrView
  BY <1>1, StoppedFacts, StoppedViews
<1>5. mode = "halted" /\ pc = -1
  BY <1>1 DEF mode, pc
<1>6. PendingInv' /\ AnswerInv'
  BY <1>1, StoppedFacts DEF PendingInv, AnswerInv
<1>7. /\ Rsp("write", 0, 0) = Arch!Done /\ Rsp("refused", 0, 0) = Arch!Refused
      /\ NoRsp = Arch!NoRsp
      /\ \A r, w : Rsp("gpr", r, w) = Arch!Rsp("gpr", r, w)
      /\ Rsp("resume_pc", 0, rg_resume_pc) = Arch!Rsp("resume_pc", 0, rg_resume_pc)
  BY DEF Arch!Done, Arch!Refused, Arch!NoRsp, Arch!Rsp, NoRsp, Rsp
<1>8. \A rsp : f_fabric_rsps' = rsp => Arch!Accept(rsp)
  BY <1>1, <1>4, <1>5, <1>7 DEF Arch!Accept
<1>9. regfile' = regfile => gprView' = gprView
  BY <1>1, <1>4 DEF Behind
<1>10. req.op # "continue" => UNCHANGED <<mode, pc>>
  BY <1>1 DEF mode, pc
<1>11. CASE req.op = "read_gpr"
  <2>1. gprView[req.reg] = regfile[req.reg]
    BY <1>2, <1>3, <1>4, <1>11 DEF Behind
  <2>2. Arch!Accept(Arch!Rsp("gpr", req.reg, gprView[req.reg]))
    BY <1>1, <1>7, <1>8, <1>11, <2>1
  <2>3. Arch!DebugRead
    BY <1>1, <1>2, <1>9, <1>10, <1>11, <2>2 DEF Arch!DebugRead
  <2> QED
    BY <1>6, <2>3 DEF Arch!Next, Arch!Debug
<1>12. CASE req.op = "read_pc"
  <2>1. Arch!Accept(Arch!Rsp("resume_pc", 0, rg_resume_pc))
    BY <1>1, <1>7, <1>8, <1>12
  <2>2. Arch!DebugRead
    BY <1>1, <1>9, <1>10, <1>12, <2>1 DEF Arch!DebugRead
  <2> QED
    BY <1>6, <2>2 DEF Arch!Next, Arch!Debug
<1>13. CASE req.op = "refused"
  <2>1. Arch!Accept(Arch!Refused)
    BY <1>1, <1>7, <1>8, <1>13
  <2>2. Arch!Refuse
    BY <1>1, <1>9, <1>10, <1>13, <2>1 DEF Arch!Refuse
  <2> QED
    BY <1>6, <2>2 DEF Arch!Next, Arch!Debug
<1>14. CASE req.op \notin {"read_gpr", "read_pc", "refused"}
  <2>1. Arch!Accept(Arch!Done)
    BY <1>1, <1>7, <1>8, <1>14
  <2>2. CASE req.op = "continue"
    <3>1. mode' = "running" /\ pc' = rg_resume_pc
      BY <1>1, <2>2 DEF mode, pc
    <3>2. Arch!Continue
      BY <1>1, <1>9, <2>1, <2>2, <3>1 DEF Arch!Continue
    <3> QED
      BY <1>6, <3>2 DEF Arch!Next, Arch!Debug
  <2>3. CASE req.op = "write_pc"
    <3>1. Arch!DebugSetPC
      BY <1>1, <1>2, <1>9, <1>10, <2>1, <2>3, SameWords DEF Arch!DebugSetPC
    <3> QED
      BY <1>6, <3>1 DEF Arch!Next, Arch!Debug
  <2>4. CASE req.op = "write_gpr"
    <3>1. gprView' = [gprView EXCEPT ![req.reg] = req.word]
      <4>1. \A r \in Reg : Behind(r)' = IF r = req.reg THEN req.word ELSE Behind(r)
        <5>1. regfile' = [regfile EXCEPT ![req.reg] = req.word] /\ regfile \in [Reg -> Word]
          BY <1>1, <1>2, <2>4 DEF TypeOK
        <5> QED
          BY <1>1, <1>2, <1>3, <2>4, <5>1 DEF Behind
      <4> QED
        BY <1>2, <1>4, <4>1
    <3>2. Arch!DebugWrite
      BY <1>1, <1>2, <1>3, <1>10, <2>1, <2>4, <3>1, SameWords DEF Arch!DebugWrite
    <3> QED
      BY <1>6, <3>2 DEF Arch!Next, Arch!Debug
  <2>5. CASE req.op \notin {"continue", "write_pc", "write_gpr"}
    <3>1. 0 \in Reg /\ 0 \in Word
      BY RVAssumption, WordFacts
    <3>2. UNCHANGED <<gprView, mode, pc, rg_resume_pc>>
      BY <1>1, <1>9, <1>10, <2>5
    <3>3. Arch!DebugWrite
      BY <2>1, <3>1, <3>2, SameWords DEF Arch!DebugWrite
    <3> QED
      BY <1>6, <3>3 DEF Arch!Next, Arch!Debug
  <2> QED
    BY <2>2, <2>3, <2>4, <2>5
<1> QED
  BY <1>11, <1>12, <1>13, <1>14

-----------------------------------------------------------------------------
(* The first state is a first state of the machine.                        *)
LEMMA RefInit == Init => Arch!Init /\ RefInv
<1> SUFFICES ASSUME Init
             PROVE  Arch!Init /\ RefInv
  OBVIOUS
<1>1. UnitsInv /\ TypeOK
  BY InitUnits DEF UnitsInv
<1>2. rg_state = "RESET" /\ dc.st = "idle" /\ f_fabric_rsps = NoRsp
  BY UnitStates DEF Init
<1>3. mode = "reset" /\ pc = -1 /\ gprView = regfile /\ csrView = csr
  BY <1>2 DEF mode, pc, gprView, csrView
<1>4. Arch!Init
  BY <1>1, <1>2, <1>3, SameWords DEF TypeOK, Arch!Init, Arch!NoPC, Arch!NoRsp, Arch!Rsp, NoRsp, Rsp
<1>5. PendingInv /\ AnswerInv
  BY <1>2 DEF PendingInv, AnswerInv
<1> QED
  BY <1>1, <1>4, <1>5 DEF RefInv

(* Every edge is an edge of the machine, or one that nobody can see.       *)
LEMMA RefStep ==
  ASSUME RefInv, [Next]_vars, [~Divergence]_vars
  PROVE  [Arch!Next]_(Arch!isaVars) /\ RefInv'
<1>1. CASE UNCHANGED vars
  <2>1. UNCHANGED <<prog, mem, rg_state, rg_resume_pc, f_fabric_rsps, s2, s3, regfile, csr,
                    h_pc, ic, dc, mb>>
    BY <1>1 DEF vars, coreVars, unitVars
  <2>2. CoreSame /\ TypeOK
    BY <2>1 DEF CoreSame, RefInv, UnitsInv
  <2>3. (S2Result' <=> S2Result) /\ S2RegValue' = S2RegValue /\ (S2Pending' <=> S2Pending)
    BY <2>1 DEF S2Result, S2RegValue, S2Pending, S2Done, S2Trap, DValid, MValid
  <2>4. ViewsSame
    BY <2>1, <2>2, <2>3, CoreSameViews DEF ViewsSame
  <2>5. PendingInv' /\ AnswerInv'
    BY <2>1, <2>3, <2>4
       DEF RefInv, ViewsSame, PendingInv, AnswerInv, Present, DataAddr, Wrap, Aligned,
           LOAD_FAULT, LOAD_MISALIGNED, STORE_MISALIGNED
  <2> QED
    BY <2>4, <2>5, StutterStep, UnitsInductive DEF RefInv
<1>2. CASE Next /\ ~Divergence
  <2>1. UnitsInv' /\ TypeOK'
    BY UnitsInductive DEF RefInv, UnitsInv
  <2>2. CASE Units
    BY <1>2, <2>1, <2>2, ICacheReadyStep, DCacheValidStep, MBoxValidStep, StutterStep
       DEF Units, RefInv
  <2>3. CASE RlRun
    BY <1>2, <2>1, <2>3, RunS2TrapStep, RunS1TrapStep, RunEretStep, RunIssueStep, RunWaitStep,
       StutterStep DEF RlRun, RefInv
  <2>4. CASE Control
    BY <1>2, <2>1, <2>4, RlPreRunStep, RlPostRunStep, RlResetStep, ControlResponseStep,
       ControlRequestStep, StutterStep DEF Control, RefInv
  <2>5. CASE ResetStart
    BY <2>1, <2>5, ResetStartStep DEF RefInv
  <2> QED
    BY <1>2, <2>2, <2>3, <2>4, <2>5 DEF Next
<1> QED
  BY <1>1, <1>2

(* The pipeline is the machine of ISA.tla, edge for edge, in every run     *)
(* that meets none of the cases of Divergence.                             *)
THEOREM PipelineIsISA == Spec /\ [][~Divergence]_vars => ImplementsISA
<1>1. RefInv /\ [Next]_vars /\ [~Divergence]_vars
        => [Arch!Next]_(Arch!isaVars) /\ RefInv'
  <2> SUFFICES ASSUME RefInv, [Next]_vars, [~Divergence]_vars
               PROVE  [Arch!Next]_(Arch!isaVars) /\ RefInv'
    OBVIOUS
  <2> QED
    BY RefStep
<1> QED
  BY <1>1, RefInit, PTL DEF Spec, ImplementsISA, Arch!Spec

-----------------------------------------------------------------------------
(* Programs that meet no divergence.                                       *)

(* Programs that use no control register but mscratch, and a debugger that *)
(* leaves the general registers alone.                                     *)
ScratchPrograms == \A p \in Programs : \A a \in DOMAIN p :
                      p[a].op \in CSR_OPS => p[a].csr \in {"mscratch", "none"}

QuietDebugger == \A r \in DebugReqs : r.op \notin {"read_gpr", "write_gpr"}

ScratchInv == /\ TypeOK /\ prog \in Programs
              /\ s2.csr.valid => s2.csr_addr = "mscratch"
              /\ s3.csr.valid => s3.csr_addr = "mscratch"

LEMMA ScratchInit == Init => ScratchInv
  BY InitType DEF Init, ScratchInv, NoCSR

(* The CSR an issued instruction writes.                                   *)
LEMMA ScratchIssue ==
  ASSUME ScratchPrograms, ScratchInv, RunIssue
  PROVE  /\ s2'.csr.valid => s2'.csr_addr = "mscratch"
         /\ instr.op \in CSR_OPS => instr.csr = "mscratch"
<1>1. /\ s2'.csr = executed.csr /\ s2'.csr_addr = instr.csr
      /\ ~IExc /\ instr.op \notin PRIV_OPS /\ executed.tag # "ILLEGAL"
  BY DEF RunIssue, S1Executes
<1>2. executed.csr.valid => instr.op \in CSR_OPS
  BY DEF executed, do_riscv, CSRResult
<1>3. instr.op \in CSR_OPS => instr.csr \in {"mscratch", "none"}
  BY <1>1 DEF ScratchPrograms, ScratchInv, IExc, instr
<1>4. ASSUME instr.op \in CSR_OPS, instr.csr = "none"
      PROVE  FALSE
  <2>1. ~BypassedCSR(instr.csr).valid
    BY <1>4 DEF BypassedCSR, NoCSR, CSR_NAMES
  <2>2. Tag(instr, BypassedCSR(instr.csr)) = "ILLEGAL"
    BY <1>4, <2>1 DEF Tag, CSR_OPS, ALU_OPS, JUMP_OPS
  <2> QED
    BY <1>1, <2>2 DEF executed, do_riscv
<1> QED
  BY <1>1, <1>2, <1>3, <1>4

LEMMA ScratchStage3 ==
  ASSUME ScratchInv, Stage3
  PROVE  s3'.csr.valid => s3'.csr_addr = "mscratch"
BY DEF ScratchInv, Stage3

LEMMA ScratchStep ==
  ASSUME ScratchPrograms, ScratchInv, [Next]_vars
  PROVE  ScratchInv'
<1>1. TypeOK /\ TypeOK'
  <2>1. CASE UNCHANGED vars
    BY <2>1 DEF vars, coreVars, unitVars, TypeOK, ScratchInv
  <2> QED
    BY <2>1, UnitsType, RlRunType, ControlType, ResetType DEF Next, ScratchInv
<1>2. CASE RunIssue
  <2>1. prog' = prog /\ Stage3
    BY <1>2 DEF RunIssue, Running
  <2> QED
    BY <1>1, <1>2, <2>1, ScratchIssue, ScratchStage3 DEF ScratchInv
<1>3. CASE RunS2Trap \/ RunS1Trap \/ RunEret \/ RunWait
  <2>1. prog' = prog /\ Stage3 /\ (S2Freed \/ UNCHANGED s2)
    BY <1>3 DEF RunS2Trap, RunS1Trap, RunEret, RunWait, Running
  <2>2. s2'.csr = s2.csr /\ s2'.csr_addr = s2.csr_addr
    BY <1>1, <2>1 DEF S2Freed, TypeOK
  <2> QED
    BY <1>1, <2>1, <2>2, ScratchStage3 DEF ScratchInv
<1>4. CASE RlReset
  <2>1. /\ prog' = prog /\ s2' = [s2 EXCEPT !.state = "EMPTY"]
        /\ s3' = [s3 EXCEPT !.state = FALSE]
    BY <1>4 DEF RlReset
  <2>2. /\ s2'.csr = s2.csr /\ s2'.csr_addr = s2.csr_addr
        /\ s3'.csr = s3.csr /\ s3'.csr_addr = s3.csr_addr
    BY <1>1, <2>1 DEF TypeOK
  <2> QED
    BY <1>1, <2>1, <2>2 DEF ScratchInv
<1>5. CASE UNCHANGED <<prog, s2, s3>>
  BY <1>1, <1>5 DEF ScratchInv
<1>6. Units \/ RlPreRun \/ RlPostRun \/ ControlResponse \/ ResetStart
         \/ (\E req \in DebugReqs : ControlRequest(req)) \/ UNCHANGED vars
         => UNCHANGED <<prog, s2, s3>>
  BY DEF Units, ICacheReady, DCacheValid, MBoxValid, RlPreRun, RlPostRun, ControlResponse,
         ResetStart, ControlRequest, vars, coreVars
<1> QED
  BY <1>2, <1>3, <1>4, <1>5, <1>6 DEF Next, RlRun, Control

LEMMA NoDivergence ==
  ASSUME ~PreciseDataFaults, ScratchPrograms, QuietDebugger, ScratchInv
  PROVE  ~Divergence
<1>1. ~FaultReported
  BY DEF FaultReported
<1>2. \A a : S2Writes(a) \/ S3Writes(a) => a = "mscratch"
  BY DEF ScratchInv, S2Writes, S3Writes
<1>3. ~TrapBehindCSRWrite /\ ~EretBehindCSRWrite
  BY <1>2 DEF TrapBehindCSRWrite, EretBehindCSRWrite
<1>4. ~MaskedBypass
  <2>1. ASSUME RunIssue, instr.op \in CSR_OPS
        PROVE  \A word : Kept(instr.csr, word) = word
    BY <2>1, ScratchIssue DEF Kept
  <2> QED
    BY <2>1 DEF MaskedBypass
<1>5. ~StaleDebug
  BY DEF StaleDebug, QuietDebugger
<1> QED
  BY <1>1, <1>3, <1>4, <1>5 DEF Divergence

(* For those programs and that debugger the pipeline is the machine of     *)
(* ISA.tla with nothing left to assume, but for the report of a fault.     *)
THEOREM ScratchPipelineIsISA ==
  ASSUME ~PreciseDataFaults, ScratchPrograms, QuietDebugger
  PROVE  Spec => ImplementsISA
<1>1. ScratchInv /\ [Next]_vars => ScratchInv'
  BY ScratchStep
<1>2. ScratchInv => ~Divergence
  BY NoDivergence
<1>3. ScratchInv /\ [Next]_vars => [~Divergence]_vars
  BY <1>2
<1>4. Spec => [][~Divergence]_vars
  BY <1>1, <1>3, ScratchInit, PTL DEF Spec
<1> QED
  BY <1>4, PipelineIsISA, PTL
=============================================================================
