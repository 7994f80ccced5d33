---------------------------- MODULE MCSimDriver ----------------------------
(***************************************************************************)
(* The environments of the simulation driver's runs.  Memory is scaled: 16 *)
(* bytes for 2 MB, a window of 64 for 2^30, addresses modulo 256 for 2^64. *)
(***************************************************************************)
EXTENDS SimDriver

Bytes(id, n) == [i \in 1 .. n |-> <<id, i>>]
Section(type, flags, addr, bytes, syms) ==
    [type |-> type, flags |-> flags, addr |-> addr, bytes |-> bytes, syms |-> syms]
Code(id, addr, n) == Section("PROGBITS", {"ALLOC", "EXECINSTR"}, addr, Bytes(id, n), << >>)
Data(id, addr, n) == Section("INIT_ARRAY", {"WRITE"}, addr, Bytes(id, n), << >>)
Comment == Section("PROGBITS", {}, 4, Bytes(9, 2), << >>)
Bss == Section("NOBITS", {"ALLOC", "WRITE"}, 0, Bytes(8, 4), << >>)
Symbols(syms) == Section("SYMTAB", {}, 0, << >>, syms)
Symbol(name, value) == [name |-> name, value |-> value]

Elf(sections) == [opens |-> TRUE, kind |-> "ELF", class |-> 32, machine |-> EM_RISCV,
                  data |-> "2LSB", sections |-> sections]
Env(elf) == [SIM_ELF_FILENAME |-> elf, SIM_ELF_START_SYM |-> Unset, SIM_ELF_EXIT_SYM |-> Unset,
             SIM_LOGDELAY |-> [is |-> "unset", n |-> 0],
             stdin |-> << >>, stdin_ends |-> FALSE, output |-> << >>]

Start == Symbol("_start", 0)
Quit == {Symbol("exit", 4), Symbol("exit", 8), Symbol("finish", 8)}
Tables == {<<Start>>} \cup {<<Start, q>> : q \in Quit} \cup {<<q, Start, q>> : q \in Quit}

(* Two sections in any order and overlap, within memory and past its end.  *)
Addresses == {0, 4, 6, Window + 8}
Pairs == {<<Code(1, a, n), Data(2, b, k)>> :
             a \in Addresses, n \in {2, 6}, b \in Addresses \cup {12}, k \in {2, 4}}

(* Section addresses beyond the window come in ascending order, and the    *)
(* lowest section begins with a word.                                      *)
Ascending(pair) == pair[1].addr < Window \/ pair[1].addr <= pair[2].addr
Aligned(pair) == Min({sh_addr(pair[1]), sh_addr(pair[2])}) % 4 = 0

Loaded == {Elf(<<Symbols(t)>> \o p \o <<Comment, Bss>>) : t \in Tables, p \in {q \in Pairs : Ascending(q) /\ Aligned(q)}}
Good == Elf(<<Code(1, 0, 6), Symbols(<<Start, Symbol("exit", 4)>>)>>)
Refused == {[Good EXCEPT !.opens = FALSE], [Good EXCEPT !.kind = "AR"],
            [Good EXCEPT !.class = 64], [Good EXCEPT !.machine = 62],
            [Good EXCEPT !.data = "2MSB"], Elf(<<Code(1, 0, 4)>>),
            Elf(<<Code(1, 12, 6), Symbols(<<Start>>)>>)}
Named == {[Env(Elf(<<Code(1, 0, 6), Code(2, 6, 6), Symbols(<<Start, Symbol("finish", 4)>>)>>))
             EXCEPT !.SIM_ELF_START_SYM = "_start", !.SIM_ELF_EXIT_SYM = "finish",
                    !.SIM_LOGDELAY = d] :
            d \in [is : {"unset", "word"}, n : {0}] \cup [is : {"number"}, n : {0, 5}]}

Consoles == {[Env(NULL) EXCEPT !.stdin = io[1], !.stdin_ends = e, !.output = io[2]] :
               io \in {<< <<65, 0, 66, 67, 68, 69>>, <<7, 65, 10, 66, 67, 68>> >>, << <<200, 0>>, <<0, 200, 66>> >>},
               e \in BOOLEAN}

McEnvs == {Env(elf) : elf \in Loaded \cup Refused} \cup Named \cup Consoles

(* A linker script that puts data before code, and both in high memory.    *)
McDescending == {Env(Elf(<<Code(1, Window + 8, 4), Data(2, Window, 4), Symbols(<<Start>>)>>))}

(* What the loader takes for granted is so for all files but that one's.   *)
ASSUME McFilesFit ==
    /\ \A e \in McEnvs : e.SIM_ELF_FILENAME # NULL => FileFits(e)
    /\ \A e \in McDescending : ~FileFits(e)
=============================================================================
