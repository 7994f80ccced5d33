------------------------------ MODULE MemModel ------------------------------
(***************************************************************************)
(* C_mem_model.c: the memory of the simulator's host side, its reads and   *)
(* writes, and the loader of ELF files.  A Mem_Model is a record; memp is  *)
(* a function from offsets to bytes.  A function that calls exit(1) has    *)
(* the value EXIT; a block of bytes is a sequence.                         *)
(***************************************************************************)
EXTENDS Naturals, Sequences, SequencesExt, FiniteSetsExt

CONSTANTS AddrMod,    \* 2^64: addresses are unsigned and wrap
          Window      \* 2^30: the loader uses section addresses modulo it

ASSUME MemModelAssumption == Window \in Nat \ {0} /\ AddrMod \in Nat \ {0, 1}

EXIT == [exit |-> 1]                       \* instead of a result
NULL == [null |-> TRUE]                    \* no model, no file
Unset == ""                                \* no name in the environment
FAILED == << >>
Unspecified == <<0, 0>>                    \* the byte 0xAA
NoAddr == AddrMod - 1

(* Mutant: the limit itself is taken for an address of the memory.         *)
MutBadAddrLast(m, addr, n_bytes) ==
    addr < m.base_addr \/ m.limit <= (addr + n_bytes) % AddrMod

bad_addr(m, addr, n_bytes) ==
    addr < m.base_addr \/ m.limit < (addr + n_bytes) % AddrMod

(* The size is rounded up to a multiple of eight.                          *)
c_mem_init(mem_base_addr, mem_size) ==
    LET size == ((mem_size + 7) \div 8) * 8
    IN  [base_addr |-> mem_base_addr, limit |-> (mem_base_addr + size) % AddrMod,
         memp |-> [o \in 0 .. size - 1 |-> Unspecified],
         min_addr |-> 0, max_addr |-> 0, pc_start |-> 0, pc_exit |-> 0]

-----------------------------------------------------------------------------
(* Reads and writes.  The address itself is the offset: base_addr is only  *)
(* compared with.                                                          *)
Widths == {1, 2, 4, 8}

c_mem_read(m, addr, n_bytes) ==
    IF bad_addr(m, addr, n_bytes) \/ n_bytes \notin Widths THEN FAILED
    ELSE [i \in 1 .. n_bytes |-> m.memp[addr + i - 1]]

Overwritten(memp, o, bytes) ==
    [x \in DOMAIN memp |-> IF x - o + 1 \in DOMAIN bytes THEN bytes[x - o + 1] ELSE memp[x]]

(* A write that is refused leaves the memory alone; x are its low bytes.   *)
c_mem_write(m, addr, x, n_bytes) ==
    IF bad_addr(m, addr, n_bytes) \/ n_bytes \notin Widths THEN m
    ELSE [m EXCEPT !.memp = Overwritten(@, addr, x)]

OrExit(data) == IF data = FAILED THEN EXIT ELSE data
c_mem_read8(m, addr) == OrExit(c_mem_read(m, addr, 1))
c_mem_read16(m, addr) == OrExit(c_mem_read(m, addr, 2))
c_mem_read32(m, addr) == OrExit(c_mem_read(m, addr, 4))

-----------------------------------------------------------------------------
(* The loader.  Of the file, what the code looks at: whether it can be     *)
(* opened, its kind, class, machine and byte order, and its sections in    *)
(* the order of the section table.                                         *)
EM_RISCV == 243

Acceptable(m, elf, bitwidth) ==
    /\ m # NULL
    /\ elf.opens /\ elf.kind = "ELF"
    /\ bitwidth \in {32, 64} /\ elf.class = bitwidth
    /\ elf.machine = EM_RISCV /\ elf.data = "2LSB"

Loadable(s) == /\ s.type \in {"PROGBITS", "INIT_ARRAY", "FINI_ARRAY"}
               /\ s.flags \cap {"WRITE", "ALLOC", "EXECINSTR"} # {}

sh_addr(s) == s.addr % Window

(* Mutant: the lowest address is that of the last section.                 *)
MutLoadSectionLast(m, s) ==
    IF bad_addr(m, sh_addr(s), Len(s.bytes)) THEN EXIT
    ELSE [m EXCEPT !.memp = Overwritten(@, sh_addr(s) - m.base_addr, s.bytes),
                   !.min_addr = sh_addr(s),
                   !.max_addr = Max({@, sh_addr(s) + Len(s.bytes) + 4})]

(* The new minimum is the address in the window, but the comparison is     *)
(* with the address in the file.                                           *)
LoadSection(m, s) ==
    IF bad_addr(m, sh_addr(s), Len(s.bytes)) THEN EXIT
    ELSE [m EXCEPT !.memp = Overwritten(@, sh_addr(s) - m.base_addr, s.bytes),
                   !.min_addr = IF s.addr < @ THEN sh_addr(s) ELSE @,
                   !.max_addr = Max({@, sh_addr(s) + Len(s.bytes) + 4})]

(* The last symbol with the name counts; one that is both names is a start.*)
FindSymbols(m, s, start_symbol, exit_symbol) ==
    LET named(name) == {i \in DOMAIN s.syms : s.syms[i].name = name}
        last(name, old) == IF named(name) = {} THEN old ELSE s.syms[Max(named(name))].value
    IN  [m EXCEPT !.pc_start = last(start_symbol, @),
                  !.pc_exit = IF exit_symbol = start_symbol THEN @ ELSE last(exit_symbol, @)]

Scan(m, s, start_symbol, exit_symbol) ==
    IF m = EXIT THEN EXIT
    ELSE IF Loadable(s) THEN LoadSection(m, s)
    ELSE IF s.type = "SYMTAB" THEN FindSymbols(m, s, start_symbol, exit_symbol) ELSE m

c_mem_load_elf(m, elf, bitwidth, start_symbol, exit_symbol) ==
    LET start == IF start_symbol = Unset THEN "_start" ELSE start_symbol
        exit == IF exit_symbol = Unset THEN "exit" ELSE exit_symbol
        fresh == [m EXCEPT !.min_addr = NoAddr, !.max_addr = 0,
                           !.pc_start = NoAddr, !.pc_exit = NoAddr]
        after[k \in 0 .. Len(elf.sections)] ==
            IF k = 0 THEN fresh ELSE Scan(after[k - 1], elf.sections[k], start, exit)
        loaded == after[Len(elf.sections)]
    IN  IF ~Acceptable(m, elf, bitwidth) THEN EXIT
        ELSE IF loaded = EXIT THEN EXIT
        ELSE IF loaded.pc_start = NoAddr THEN EXIT ELSE loaded

(* The file and the two names come from the environment.                   *)
c_mem_load_elf2(m, bitwidth, env) ==
    IF env.SIM_ELF_FILENAME = NULL THEN [loaded |-> 0, model |-> m]
    ELSE [loaded |-> 1, model |-> c_mem_load_elf(m, env.SIM_ELF_FILENAME, bitwidth,
                                                 env.SIM_ELF_START_SYM, env.SIM_ELF_EXIT_SYM)]

c_mem_get_start_pc(m) == m.pc_start
c_mem_get_exit_pc(m) == m.pc_exit
c_mem_get_min_addr(m) == m.min_addr
c_mem_get_max_addr(m) == m.max_addr

-----------------------------------------------------------------------------
(* What a loaded memory holds, said without the loop: at every offset the  *)
(* byte of the last loadable section that covers it.                       *)
Covering(elf, a) ==
    {k \in DOMAIN elf.sections :
        LET s == elf.sections[k]
        IN  Loadable(s) /\ sh_addr(s) <= a /\ a < sh_addr(s) + Len(s.bytes)}

ImageByte(elf, a) ==
    IF Covering(elf, a) = {} THEN Unspecified
    ELSE LET s == elf.sections[Max(Covering(elf, a))] IN s.bytes[a - sh_addr(s) + 1]
=============================================================================
