# A TLA+ model of RISCV_Piccolo_v1

Piccolo is an RV32IM processor for FPGA soft cores: a three-stage in-order
pipeline, two direct-mapped caches, a fabric, a memory controller, a UART, an
SoC controller through which a host loads and debugs programs, and a
simulation driver. The repository contains Verilog generated by the Bluespec
compiler (`src/Verilogsim/verilog`) and the C functions the simulation calls
(`src/Verilogsim/Cpp_src`). Bluespec gives the Verilog its structure: each
module has *rules* (`CAN_FIRE_RL_…`, `WILL_FIRE_RL_…`), each rule a guard and
a set of register writes, all rules that can fire do so at every clock edge,
and a fixed order decides between two that write the same register. The
modules here follow that structure: a rule is an action (or, where several
rules fire together in one edge on purpose, one action for the whole edge), its
guard the `CAN_FIRE` term, its primed variables the `$D_IN`/`$EN` terms of the
registers.

## 1. Inventory

| component (file) | state | operations | how it interacts | what is hard | what makes it correct |
|---|---|---|---|---|---|
| CPU pipeline (`mkCPU.v`) | `rg_state`, stage registers `rg_s2_*`, `rg_s3_*`, `rg_resume_pc`, response FIFO of the control port | `rl_run` (issue, trap, ERET, write-back), pre-run, post-run, reset, one rule per debugger request | asks both caches and the multiplier, owns the two register files, serves the SoC controller | answers of arbitrary latency, two bypass stages, traps from two stages, stop and resume, reset with requests outstanding | equivalence with one instruction at a time; no answer taken by another instruction |
| Execution unit (`mkRISCV_Exec.v`) | none | `do_riscv` | stage 1 | wrap-around, which instructions write what | its value for each class |
| CSR file (`mkCSR_RegFile.v`) | `mstatus`, `mepc`, `mcause`, `mbadaddr`, `mscratch`, `mie`, `mip`, `mtimecmp`, counters | read, write from stage 3, push/pop of the privilege stack, trap writes | CPU | write-back against trap writes in one edge; masked bits | trap writes win; reads in program order |
| Register file (`RegFile.v`) | 32 words | two reads, one write | CPU, debugger | register 0 | x0 reads 0 |
| Multiply/divide unit (`mkRISCV_MBox.v`) | operands, divider state machine | `req`, `valid`, `word`; rules for multiplication, division start and two loops | stage 2 | not reset with the processor, divider and multiplier share operands | result of the last request |
| Multipliers (`mkIntMul_32/64.v`) | shift registers | `put_args` | nobody instantiates them | – | – |
| Data cache (`mkDCache.v`) | tag and data RAM, state machine, last request, credit counter, FIFOs | `req`, `valid`, `exc`, `word`; 11 rules; reset | CPU before it, fabric behind it | write-through racing refills, responses of three kinds in one FIFO, errors in a burst, reset in flight | looks like memory |
| Instruction cache (`mkICache.v`) | tag and data RAM, state machine, last request | `req` (may replace the last one), 7 rules, reset | CPU, fabric | a request during a refill for an abandoned one; errors in a burst | the instruction at the address asked for |
| Sockets, `BRAM2.v`, `FIFO2.v`, `FIFO20.v` | RAM with latched output; two-slot FIFOs | – | everywhere | both ports in one edge | a queue of two |
| Fabric (`mkFabric.v`) | a FIFO of requests and one of responses per port | route a request, route a response, answer for unmapped addresses, reset | three initiators, four targets | fixed-priority arbitration, bursts, order between targets | each response reaches its initiator once and in order |
| Memory controller (`mkMem_Controller.v`) | one cached raw line of 256 bits, dirty flag, words still to be sent | serve words, bursts and writes of parts of a word, write back, reload, clear, reset | fabric, raw memory | dirty line against reads of another, line at reset | an array of words |
| Raw memory (`mkMem_Model.v`) | array of lines | read or write a line | memory controller | – | – |
| Host memory (`C_mem_model.c`) | array of bytes, extent and symbols of an image | allocate, read and write 1, 2, 4, 8 bytes, load an ELF file | simulation driver | range checks, order and overlap of sections, addresses modulo 2^30, refusals | array semantics; the image of the file |
| UART (`mkUART.v`) | 16550 registers, two character FIFOs | register access | fabric, console | back-pressure, output still in FIFOs at the end | no character lost or doubled |
| SoC controller (`mkSoC_Controller.v`) | queue of commands, state machine of 54 states, two words, four FIFOs | reset, read and write memory, registers and PC, three counters, run, verbosity | host driver, fabric, CPU control port | reset while other modules talk, two-word values, answers without a name | one reply per command, its own |
| SoC top (`mkSoC_Top.v`) | reset state machine, FIFOs between CPU and fabric | reset all, forward | all | order of resets; FIFOs that are not cleared | nothing of before a reset is seen after it |
| Simulation driver (`mkSim_Driver.v`) | state machine of 24 states, registers, two request/response FIFOs, two console FIFOs | load, copy to the SoC, start, wait, read counters, end | host memory, SoC controller, console | responses in one FIFO, full FIFOs, ends of loops | the processor starts on the image; the simulation ends |
| Simulation top (`sim_main.cpp`, `mkTop_Sim_Standalone.v`) | time, clock, reset | the loop of `main` | evaluates the design | reset against the first edge | nothing happens before the reset |
| Console and environment (`C_ConsoleIO_functions.c`, `C_GetEnv_functions.c`) | – | `c_trygetchar`, `c_putchar`, `c_getenv_u64` | driver | end of file, codes that are not printed | no character lost |
| Test programs (`C_tests_RV32IM`: towers, qsort, filters, vvadd, multiply, median, intOpsTest) | pegs of recycled list nodes; an array and a stack of segments; operands; a table of operations and results | – | run on the processor, print a verdict | nodes reused 2^n times, stack without check, scans without bounds, overflow | they compute what they claim and report it truthfully |

`PROJECT.json` lists every component with its status, and 40 hazards at the
line where each bites.

## 2. Plan

In the order of importance; what is done is marked.

1. **done** `FIFO2` – the flag and load logic, refined to `BoundedFifo`; proved.
2. **done** `RV32`, `Exec`, `CPU`, `ISA`, `CPURefinement` – the pipeline refined
   to the instruction set; type, units and fetch invariants proved.
3. **done** `DCache`, `DataMemory`, `DCacheRefinement` – the data cache refined to
   a memory.
4. **done** `MBox` – divider and multiplier, with abandoned divisions; proved.
5. **done** `HostIO`, `MemModel`, `SimDriver` – the host's side of a simulation:
   console, ELF loader, driver and the loop of `main`, until the end.
6. **done** `Towers` (refined to `Hanoi`), `QuickSort`, `SoftArith`, `Kernels`,
   `IntOps`, `HostMemory` – the C programs, and a client of the host's memory.
7. **done** `Fabric`, `MemController`, `ICache`, `UART`, `Memory` – the memory system:
   the memory controller refined to an array (`FlatMemory`), the order of requests
   and responses, fetches, and the reset.
8. **done** `SoCController`, and the characters of the UART in `SimDriver` – the commands of the driver
   as requests on the fabric, the console to its end in the SoC.
9. `CPU` composed with `ICache`, which would show a trap during a refill
   (section 7) as a wrong instruction.
10. Proofs. **done**: `FIFO2`, `MBox`, `CPU` with its refinement; `DCache` with its
    refinement; `QuickSort`; the commands, the answers and the console of `SimDriver`;
    `Memory` with its refinement; `Towers` with its refinement; `SoftArith`, `Kernels`
    and `HostMemory`.

## 3. Modules

| module | models | kind |
|---|---|---|
| `FIFO2`, `BoundedFifo`, `FIFO2_proofs` | `FIFO2.v`; a queue of two; proofs | detailed, abstract, proofs |
| `RV32` | words, opcodes, CSR reads/writes and trap bookkeeping (`mkCSR_RegFile.v`) | operators |
| `Exec` | `do_riscv` of `mkRISCV_Exec.v` | operators |
| `CPU` | `mkCPU.v` with both caches and the multiplier as units that answer after any delay | detailed |
| `ISA` | one instruction at a time, precise traps, a debugger | abstract |
| `CPURefinement`, `MCCPU` | the refinement mapping and the cases in which it fails (`Divergence`); programs and requests for TLC | – |
| `CPU_proofs` | type and unit invariants of `CPU`, and its refinement | proofs |
| `DCache` | `mkDCache.v`, its buffers, and the memory behind the fabric | detailed |
| `DataMemory` | a memory without a cache | abstract |
| `DCacheRefinement`, `MCDCache` | the refinement mapping; constants for TLC | – |
| `DCache_proofs` | types, lines, reads and credits of `DCache`, and its refinement | proofs |
| `SeqLemmas` | what the sequence operators of the library return | lemmas |
| `MBox`, `MCMBox` | `mkRISCV_MBox.v`; operands for TLC | detailed |
| `MBox_proofs` | type, loop invariant and results of `MBox` | proofs |
| `HostIO` | `C_ConsoleIO_functions.c`, `C_GetEnv_functions.c` | operators |
| `MemModel` | `C_mem_model.c` | operators |
| `HostMemory` | a client that reads and writes through `MemModel` | detailed |
| `SoCController` | `mkSoC_Controller.v` and its connections to the driver | detailed |
| `SimDriver`, `MCSimDriver` | `mkSim_Driver.v`, `sim_main.cpp`, the console side of `mkUART.v`; ELF files and console input for TLC | detailed |
| `SimDriver_proofs` | the reset, the commands and answers, the console and the loading of `SimDriver` | proofs |
| `Towers` / `Hanoi` | `towers_main.c`; the puzzle | detailed / abstract |
| `ALU` | the operations and branch conditions of `mkRISCV_Exec.v` | operators |
| `QuickSort`, `SoftArith`, `Kernels`, `IntOps` | `qsort_main.c`; `multiply` and `divide` of `filters.c`; vvadd, multiply, median and the filter; intOpsTest | detailed |
| `Programs_proofs` | the scans, segments, stack and result of `QuickSort`; the nodes, moves and result of `Towers`; the results of `SoftArith` and `Kernels`; `HostMemory` | proofs |
| `Programs` | what each program promises: extends `QuickSort`, has instances of the others but `IntOps` | composition |
| `MCPrograms` | one of the programs at a time, with `IntOps`, and their inputs for TLC | – |
| `Fabric` | `mkFabric.v` and the FIFOs at both of its sides | detailed |
| `MemController` | `mkMem_Controller.v` with `mkMem_Model.v` | detailed |
| `ICache` | `mkICache.v` | detailed |
| `UART` | `mkUART.v` as target 2 of the fabric | detailed |
| `Memory`, `MCMemory` | the four composed (`mkSoC_Top.v`); clients and addresses for TLC | detailed |
| `FlatMemory` | an array that serves a request at a time | abstract |
| `Memory_proofs` | order, fetches and the refinement of `Memory` | proofs |

Operators whose name begins with `Mut` are wrong variants of the definition
that follows them. No specification uses them; substituting one shows that a
property notices the mistake.

### FIFO2

One step is one clock edge with any combination of `CLR`, `ENQ`, `DEQ` and an
input word. The AND-OR load logic of the two data registers is kept as such
(`d0di`, `d0d1`, `d0h`, `d1di` select bits that are or-ed), a word being a set
of bits, so that a missing or doubled selection shows. `IsFifo` maps the
registers and flags to the sequence of `BoundedFifo`; `ports` records what an
edge was asked, so that the word put in is the word that comes out.

### CPU

A step of the pipeline is one edge in which `rl_run` fires; its outcomes are the
actions `RunS2Trap`, `RunS1Trap`, `RunEret`, `RunIssue`, `RunWait`. Stage 3
writes back in every one of them (`Stage3`). `RlPreRun`, `RlPostRun`, `RlReset`,
`ControlRequest`, `ControlResponse` are the other rules; `ResetStart` is the SoC's
reset request (an edge with both it and `rl_run` equals `RlRun` followed by
`ResetStart`). `ICacheReady`, `DCacheValid` and `MBoxValid` are the units' answers.
The data cache is the one that `DCache.tla` shows it to be: a misaligned access
reports one of two codes, a load outside memory may be answered with a word.

Programs are functions from addresses to instruction records; the encoding of
instructions is left out. The word size is a constant; in the runs it is ten
bits (`WordMod = 1024`), enough for the reset PC (512), both trap vectors and
address wrap-around. `h_pc` is the only history variable: the PC of the
instruction in stage 2, used by the refinement mapping and by nothing else.

`ImplementsISA` maps the pipeline to `ISA` in the usual way: the registers a
program sees are the register file overlaid with the results in stages 2 and
3, and the PC is that of the oldest instruction not yet done.

### DCache

An address is a tag, a set and a word of the line; data is kept per byte lane.
The RAMs' latched outputs are read in the rule that uses them, which is the same
because no rule writes the RAMs between. The FIFOs of the cache, of the SoC
and of the fabric on the path to a target are one buffer `reqs`, those on the
way back `rsps`; the fabric keeps the order of requests to one target only, so
the memory side may serve the first request of each target first. A reset keeps
at most what fits the two-slot FIFO at the cache (`mkSoC_Top.v` does not clear
it) and loses the rest.

`LinesCurrent` relates every valid line to the memory *as it will be* when the
stores on the way have arrived; `CreditsMatch` relates the credit counter to the
writes in flight; `ReadsWanted` says that no read response is ever on the way for
a request that is no longer waited for.

### MBox

One step is one edge; it fires the multiplication rule and the divider's rule
together, as the code does, and a request overrides what it writes. The
pipeline takes an answer in the first cycle it is valid (`CPU`'s invariants say
why it can) and may be reset while it waits (`Abandon`); the unit then goes on
dividing in operand registers that the next request overwrites. `ResultRight`
compares with a definition of quotient and remainder by their defining
equation. `LoopInvariant` is the invariant of the two loops.

### HostIO, MemModel, SoCController, SimDriver

`MemModel` has one operator per C function; a function that calls `exit(1)` has
the value `EXIT`. The loader is a loop over the section table
(the recursive function `after`: the model after so many sections), so that order,
overlap and the point at which it gives up are those of the code; an address is
unsigned and wraps at `AddrMod` (2^64), and section addresses are taken modulo
`Window` (2^30), as the code does. `Covering` and `ImageByte` say what a loaded
memory holds without the loop.

The step `main` of `SimDriver` is one turn of the loop of `main`: time, clock and
reset change as in `sim_main.cpp` (turns that change neither clock nor reset are left
out). At a rising edge everything that is clocked with the driver fires together, each
part in the state before the edge: one rule of the driver's state machine
(`FSM`), its two console rules and the connections to the UART (`ConsoleEdge`),
one rule of the controller's state machine (`ControllerEdge`) and the connections that
move a request and a response between the two. Each FIFO between two parts is therefore
written as what one takes from it and the other puts into it (`Without`,
`MovingReq`, `MovingRsp`). The driver's registers are the record `rg`.

The state machine of the controller is a table (`Steps`): each command is a sequence of
requests on the fabric, waits for their responses, moves between `rg_word` and
`rg_word_h`, and a reply; `step` is how far the command at the head of `f_control_reqs`
has come, and the command is taken from the queue in its last step, as in the code. The
driver uses eight of the commands.

Between two edges, after any delay, the rest of the SoC acts: its reset completes,
a target on the fabric answers, the processor stops at the breakpoint, the program
clears bit 7 of `rg_lcr` (set at power-up; until then a character is not a character
but a divisor) and writes characters. A character that is typed goes through both
FIFOs and no further: `f_from_console$DEQ` of the UART is 0 (`mkUART.v:531`). What
`ConsoleInOrder` says of the input is what has arrived there.

### Towers, QuickSort, SoftArith, Kernels, IntOps

The C programs that the repository runs on the processor. Loops are actions, one
round a step, where an invariant speaks about their rounds (the partitioning of
quicksort, the shift-and-add loop, the stack frames of `towers_solve_h`), and
functions where only the result matters (the benchmarks). `Towers` keeps the list
nodes and their links as they are, not lists: that a popped node is reused at
once, while the peg's other nodes still hold, is the point. It is refined to
`Hanoi`, the puzzle with pegs as sequences. `IntOps` has the host's generator and
the program in one module. The generator's results are what the C operators mean; the
program's are what the compiler's instructions (`intOpsTest.text`: 64-bit operations on
two words, with carries, comparisons in two parts, funnel shifts) give on the `ALU` of
the execution unit. The processor may execute one instruction wrong.

### Fabric, MemController, ICache, UART, Memory

An address is a line and a word of it. `MemController` extends `Fabric`, `ICache`
extends `MemController`, `UART` extends `Fabric`, and `Memory` adds two clients,
which stand for the SoC controller and the data cache (only their requests matter
here), and the reset of the SoC. FIFOs in a row are one buffer, as the header of `Fabric` says; the
memory controller works on the head of its buffer, as the code does
(`f_fabric_reqs` is dequeued with the last word sent). Rules that touch different
buffers are steps of their own, in any order; the arbitration between the
initiators' requests, and between the targets' responses, is in the guards.

`UART` has the one rule that serves a request (`uart_process_req`). It waits while a
character that was stored finds the console's FIFO full, so whatever is behind it on
the fabric waits too; `to_console_cnx` takes a character from that FIFO when the driver
has room, after any delay. A burst, or a byte at which there is no register, is
answered with an error. Of the registers only bit 7 of `rg_lcr` decides anything
(a store to the transmit register is then one to the divisor latch, and no character
goes out), so `uart` has that bit and the number of characters in the FIFO, and a read
is answered with its address in place of what the register holds. `rg_state` has been 1
since the first reset, and a later one, which begins when nothing is on the way
(`Quiet`), finds nothing to clear: it does not touch the registers or the FIFO.

`owed` lists for each initiator and target the words the initiator waits for (the
responses of one target arrive in order, those of different ones need not); it is
the only history variable, with the field `at` of a response. `InOrder` relates it
to everything on the way. `FlatMemory` sees the memory as its clients do (`View`:
the cached line, else the newest write-back under way, else the array) and `rg_rsp`
as the words still to be sent. `Lines` and `Byte` give the address space and the
bytes a type; a register before its first write holds `Unset`.

## 4. Runs

TLC must find no error in these:

| run | question | states |
|---|---|---|
| `FIFO2` | is it a queue of two, in every combination of ports? | 500 |
| `CPU_programs` | do all programs behave as one instruction at a time, for every latency, and does a debugger see and change exactly the architectural state? | 486,000 |
| `CPU_reset` | is a reset clean at any moment, and does every instruction that arrives act? | 221,000 |
| `DCache_lines` | two tags on one line, stores racing refills | 208,000 |
| `DCache_bytes` | byte lanes, misaligned accesses | 533,000 |
| `DCache_devices` | devices, unmapped addresses, errors; is every request answered? | 130,000 |
| `MBox` | is every result right after any abandoned operation, and does it come? | 97,000 |
| `Loader` | is the image complete when the processor starts, is nothing lost on the console, does each command get its own answer, does a simulation end? | 316,000 |
| `Programs` | do the test programs compute what they claim, and report it truthfully? | 120,000 |
| `Memory` | does a fetch get its instruction while the SoC controller and the data cache use the same memory, with the UART and its console, and can nobody block anybody for ever? | 744,000 |

The runs that must find a violation are in section 7.

**Bounds and why they are enough.** *CPU*: three instructions at the reset PC and
one at each trap vector. Stages 2 and 3 bypass over a distance of at most two,
so a producer, one instruction between and a consumer see every bypass path;
with a loop through the handler, sequences are not limited to three. Registers
0, 1, 2 suffice for "zero", "same" and "different"; two words of data memory for
the same distinction of addresses. The programs are all combinations of the
listed instructions: 1,000 with data operations, 2,048 with traps, 2,048 with
faults, some 430 with CSR accesses. CSR accesses other than `mscratch` stay two
instructions away from traps, and masked CSRs are not read back at once,
because those programs show the divergences of section 7. *Debugger*: two
programs, ten requests in any order and number. *DCache*: one set (sets are
independent except for the reset, which clears them one by one), two tags that
compete for it, lines of two words (first, last), two values; two request slots
and one response slot with a credit counter modulo 4, so that the counter's
capacity exceeds what can be in flight, as in the code (16). *MBox*: three-bit
words; operands at which sign, zero, overflow and both loops differ; all eight
operations, in any order, with a reset of the processor at any edge. The same
properties without `Answered` hold for all 512 requests of three bits
(550,000 states, four minutes). *Loader*: 16 bytes of memory for 2 MB, a window of
64 bytes for 2^30, addresses modulo 256 for 2^64; files with two sections in any
order and overlap, within memory and past its end, with every combination of
symbols, one file for each refusal of the loader, and consoles with zero and
negative characters, more of them than the FIFOs hold, and an input that ends or does not;
counters of two digits to the base 2 for the two words. Sections beyond the window
come in ascending order, the lowest section begins with a word and the exit symbol
is a word inside the window, because the other files show the divergences of
section 7. *Programs*: seven discs, as in the code; all arrays of up to six
elements of three values, all orders of six different elements, some of seven, with
an insertion threshold of 2 for 7 and a stack of 6 for 50, so that segments are
partitioned, stacked and inserted within those lengths; words of five bits for
`multiply` and `divide`, 4 and 8 for the 32 and 64 of intOpsTest, so that shift
amounts reach the width; 13 bytes of host memory (rounded up to 16) and two writes, so
that one can overlap the other. *Memory*: two lines of two words, the line of the
UART with its transmit register and `rg_lcr`, and a line with nothing behind it that
competes for the one set of the instruction cache; FIFOs of two; the SoC controller
has at most two stores on the way, the data cache one request (a load, a character,
`rg_lcr` without bit 7, or a byte without a register), both together two, and the
instruction cache its burst, so that a FIFO of requests and the console's fill while
the others go on. Stores of bit 7 to `rg_lcr`, which is set at the start, and reads of
the UART would take the run past a few minutes; the proofs of section 5 are for them
too. Nobody stores to the code, no fetch is replaced during a refill
(`Redirects = FALSE`), and there is any number of resets, but only when nothing is on
the way (`Quiet`): section 7 says what happens otherwise.

**Deadlock** is checked in all runs except those of programs that really stop: in
`CPU_*` WFI waits for an interrupt that never comes, and a halted processor for
its debugger; in `Loader*` and `Programs` the simulation or the program has ended.

**Fairness.** A clock edge always comes, so a rule that can fire does:
`WF` on the pipeline's and the cache's rules. The memory behind the caches
answers (`WF` on the answers of the units in `CPU`, on `Memory` in `DCache`), and
the SoC controller collects responses (`ControlResponse`). Nothing is assumed
about the debugger's requests or about resets, except that the reset after
power-up comes (`DCache`). In `SimDriver` the loop of `main` goes on, the SoC
completes its reset and answers on the fabric, and the program under test stops; in `Programs` the next step
of a sequential program is taken. `Memory` has no fairness: `NeverStuck` is a
safety property, in every state in which somebody waits some rule can fire. That
a given initiator is served is not claimed: the fabric has fixed priorities
(`mkFabric.v:783`), a lower one may starve while a higher one keeps asking. Weak fairness is what the code gives: no rule here
needs to be enabled again and again before it fires.

## 5. Proofs

`FIFO2_proofs` (constants: any finite or infinite set of bits, both values of
`guarded`): `TypeCorrect` proves the registers' types and that the FIFO is never
empty and full at once; `FifoCorrect` proves the refinement `Spec => IsFifo`, by
showing that each combination of ports maps to one step of `BoundedFifo` or to a
stutter under `TypeOK`.

`CPU_proofs` (constants: any word size that `RVAssumption` and `CPUAssumption`
allow, any registers, programs, data memory and debugger requests, with or
without resets): `TypeCorrect`, `AnswersAreOnesOwn` (`[]UnitsServeStage2`),
`AlwaysFetching` (`[]FetchOutstanding`) and `OneRequest` (`OneRequestAtATime`).
The inductive invariant is

    UnitsInv == TypeOK /\ UnitsServeStage2 /\ FetchOutstanding
                /\ (rg_state = "RESET" => dc.st = "idle")

`UnitsServeStage2` says nothing during a reset, when stage 2 still holds what it
held; the last conjunct carries over the one fact needed when the reset ends,
namely that the data cache was reset too. The proof has one lemma per action.
`OneRequest` then follows from the invariant: a new request to a unit is made
only in an edge in which stage 2 frees itself, which it does only when its own
unit is done.

`PipelineIsISA` is the refinement: `Spec /\ [][~Divergence]_vars => ImplementsISA`.
`Divergence` (in `CPURefinement`) is an action that lists the five places where the
code keeps another promise, each of them an entry of section 7: a CSR instruction
ahead of a trap or of an ERET, a CSR read while a word is bypassed that the register
will not keep, a debugger's access to a register that stage 3 still holds or to
register 0, and, if the run asks for `PreciseDataFaults`, a data fault. The theorem
says that there are no others: an edge that meets none of them is an instruction, a
trap, a request of the debugger, a part of a reset, or a stutter of `ISA`, for every
word size, program, latency and debugger. The runs `CPU_programs` and `CPU_reset`
never meet one; with programs that put CSR accesses next to everything and a
debugger on every program, where they occur, TLC found `Next /\ ~Divergence` to
implement `ISA` (seven million states) before it was proved. The inductive
invariant is

    RefInv == UnitsInv /\ PendingInv /\ AnswerInv

`PendingInv` is what the mapping needs between the edge at which a load, store or
multiplication leaves stage 1 and the edge at which it happens: stage 2 still holds the
instruction at the PC, its unit the operands that the registers *still* have, although
stage 3 has written back in between, and the next fetch is the one after it.
`AnswerInv` says which answers of the data cache are faults. `HandedOn` is the heart
of the proof, that what stage 2 hands to stage 3 is exactly what it bypassed;
`IssuedView` and `EmptiedView` follow from it. Each rule of the pipeline has a
lemma that says which action of `ISA` it is, and each instruction of `ISA` one that
says what of the views suffices for it.

`ScratchPipelineIsISA` is a case with nothing left to assume of a run: with a
debugger that does not touch the general registers, programs whose only CSR is
`mscratch`, and `PreciseDataFaults = FALSE`, `Spec => ImplementsISA`. The programs and
the debugger of `CPU_reset` are such.

`MBox_proofs` (constants: any `Half` above zero, so any word width, and any set of
requests): `TypeCorrect`, `LoopCorrect` (`[]LoopInvariant`) and `AnswerCorrect`
(`[]ResultRight`), that is, every product, quotient and remainder is right
whatever division was abandoned before it. `LoopInvariant` is not inductive: when
`rl_loop2` halves `denom2` and `n`, the quotient stays exact only if `n` is
even. The inductive invariant is

    MBoxInv == TypeOK /\ (pending # NoRequest => WorksOn(pending))

where `WorksOn(r)` says what the registers hold in each state of the unit while it
works on `r`: the operands, the product, or, in the loops, `InLoop(r)`, which
adds to `LoopInvariant` that `n` is a power of two and that the two sign flags are
those of the quotient and the remainder of `r`. It says nothing while nobody
waits, so an abandoned division may do what it likes. `LoopBounds` shows that no
register of the loops reaches the width of a word; `SignedDivision` and
`LoopsEnd` lead from the magnitudes to the signed quotient and remainder,
`ByZeroRight` and `OverflowRight` treat the two cases that skip the loops, and
`ProductRight` the upper and lower words of signed and unsigned products. The
proof then has one lemma per state of the divider. `MBoxInv` was checked by TLC on
the instance of the run `MBox` before it was proved.

`DCache_proofs` (constants: any geometry, any requests, any sizes of the buffers):
`TypeCorrect` holds with resets and without. The others are about a cache that is
reset at power-up only (`PowerUpOnly`; section 7 says what a reset in flight does).
`LinesStayCurrent` (`[]LinesCurrent`) and `NoReadLeftOver` (`[]ReadsWanted`) come from

    CacheInv == TypeInv /\ StateInv /\ ReadInv /\ LinesCurrent

`LinesCurrent` alone is not inductive: that a refill puts into the line what memory
will hold needs to know which words of the burst have arrived and where the rest
is (`ReadInv`), and which store may still be behind it (`StateInv`).
`CreditsStayMatched` (`[]CreditsMatch`) has the hypothesis `CounterFits`: the counter
exceeds what the buffers can hold, as 16 does; when it does not, the counter wraps.
`CacheIsMemory` is the refinement, `Spec => ImplementsMemory`, under
`FaultsExcluded`: if the run asks for precise faults, no request is misaligned and all
addresses are mapped. Without it the theorem would be false, because the code is
(section 7: the tag that stays valid after a failed refill, the device read whose
error comes too late, the code of a misaligned access). The three runs of the
cache satisfy all of these hypotheses. Each action has a lemma for each part of the
invariant it can disturb.

`Programs_proofs` is about the programs. For `QuickSort` (constants: any set of inputs, of
any length and any integers):
`ScansAlwaysStop`, `OutsideAlwaysInOrder`, `StackAlwaysSuffices`, and `SortsData`,
which no run lists: at the end the array is in order, a rearrangement of the input,
and the verdict of `verify` is that it is right. The invariant `SortInv(h, d)` has the
types; the segments on the stack and the current one, not empty and disjoint; two data
out of order lie in one of them; in each phase of a partitioning what lies left of `i`
and right of `j`; and that the array is the input after a bijection. The numbers
`h[0], ..., h[d]` bound the length of a segment at each depth of the stack: the code
stacks the longer part and goes on with the shorter, so a segment at depth k is at
most half of one at depth k - 1. `HalvingsFit` says that such numbers exist that end at
the insertion threshold before the stack is full; lemma `CodeFits` shows it for the
code's 7 and 50 and up to 4096 data (it sorts 250). `SortInv` was checked by TLC on
1,220 inputs before it was proved.

For `Towers` (constant: any number of discs above zero): `NodesAreConserved`
(`[]NodesConserved`), `TowersPlaysHanoi` (`Spec => PlaysHanoi`), and `TowersSolves`
(`[]Solved`), the part of `ResultsRight` that is about towers. None of the three is
inductive. The invariant `TInv` says that there are lists `c` of nodes, one for each peg
and one for the free nodes, positions `w` of the discs and pegs `on` as the puzzle sees
them, such that (`Now`)

- `Core`: the heads and links are those of `c`, no node is in two places, each is in one,
  and the sizes are the lengths (`Chain`, a recursive function, computes `c`:
  `LinkedChains`);
- `Discs`, `InHand`: the values along `c` are `on`, smaller discs on larger ones, where a
  disc taken but not put yet is still on its peg, and `w` says the same by disc;
- `Stack`: each frame is the call that the frame below has just made, for fewer discs, and
  the discs are where the last frame needs them and where the ones below will look for
  their large disc. So a call for one disc moves the disc its caller means, and
  the disc below is larger (`OneDiscTop`);
- `Counted`: the moves made are those of the calls that have returned.

`ListPushes` and `ListPops` say what a push and a pop do to `Core`; `StackCall`,
`StackReturn`, `StackDisc` and `StackMove` what calls, returns and moves do to `Stack`;
`StepContinues` has one step per action. `TowersSolves` has the hypothesis `PowersOfTwo`,
two laws of `^`, of which the provers know nothing. The lemmas find the least
counterexample where a textbook would use induction.

For `HostMemory` (constants: any size, any accesses): `MemoryReadsBack` (`[]ReadsBack`).
Its hypothesis `MemoryFits` says that no access ends beyond the last address. Without it
the theorem would be false: the sum in `bad_addr` wraps, and the code would take the
access for one to the beginning of the memory.

For `SoftArith` (constants: any width of an int, any arguments): `MultiplyKeepsProduct`
(`[]PartialProduct`) and `ArithRight` (`[]Arith!ResultRight`), from `ArithInv`, which is
`Multiplies` or `Divides`. In `multiply` it is `PartialProduct` with the types: that the
sums and the doubled `y` have been cut does no harm, because `Cut` keeps a number up to a
multiple of 2^BITS (`CutFacts`, `CutSums`), and so does dropping the bits of `args.x` above
the last (`NextBit` says what a round adds). In `divide` the scaled divisor is the divisor times
`tmp`, a power of two, and the dividend is what is left plus the divisor times
`result - 1`; going up, `tmp` is at most what has room, and coming back, what is left is at
most twice the scaled divisor, so that one subtraction a round is enough. The hypotheses:
`PowersOfTwo`, and `ArithFits`: arguments are ints, a divisor is above 0 and a dividend at most
half of 2^(BITS-1), above which the scaled divisor overflows and the loop of the code
need not end.

For `Kernels` (constants: any width, any tests): `KernelsRight`, that every element is
right when the program starts to compare and that the verdict is true. The invariant
`KernelInv` says which elements are already right (`RightOn`): below `i` in a
loop; of an image, the border up to `i` or all of it, and the inner pixels that the loops
have passed in this one of the calls that `main` makes. `verify` runs over
places: `PlacesCover` shows that row by row they are all pixels. `KernelsFit` says what a
test is: arrays of `n` ints or images of `n` rows and columns of bytes, in an int that
holds five times a byte.

`AllResultsRight` puts the four together: `[]ResultsRight`, one conjunct for each program.

`SimDriver_proofs` (no hypothesis on the settings and the program; one on the file, for
what is loaded of it, and one on the size of a FIFO, for the console):
`ResetComesFirst` (`[]ResetFirst`) and `AnswersAreWanted` (`[]AnswersWanted`). An edge
is a step of everything at once, so the proof first says what each side does to the
two paths between the driver and the controller, `CommandPath` and `AnswerPath`, each
two FIFOs in a row: the driver sends a command, takes an answer, or does neither
(`DriverMoves`), and so does the controller at the other end (`ControllerMoves`). The
invariant

    SimInv == ClockInv /\ SoCType
              /\ (before the first edge: BeforeReset, else CoreInv)
    CoreInv == StateInv /\ PathType /\ FabricInv /\ ResetInv /\ AskInv /\ AnsInv

needs the clock and reset as `main` makes them, because the design is evaluated at
time 0 with registers that no reset has set. `FabricInv` follows a command through its
steps: what is on the fabric at each, when the processor may run, and how far the two
words of the count of instructions have come. `AskInv` is the reason why answers need
no names: a question is the last command on its path and the driver waits.

`ConsoleGoesInOrder` (`[]ConsoleInOrder`) adds `ConsoleInv == InputInv /\ OutputInv /\
DrainInv` (and where a reset finds the console). The first two say what is on the two
paths of two FIFOs each: what has been typed, without its NULs, then ends of the file;
and what the program has written but the terminal not shown. `DrainInv` is why nothing
is left when `$finish` is called: the processor runs only while the driver is in state
16 (from `FabricInv` and `AskInv`), so from state 17 on the console only drains; at most
four edges empty it (`Backlog`), one less at each edge, and five lead to state 23. That
is so for FIFOs of two slots, the hypothesis `Slots = 2`; the code has no other. The
types of what is typed and written (bytes) are in `SimDriverAssumption`. TLC checked
`OutputInv`, `DrainInv` and the first part of `InputInv` before they were proved.

`ImageReachesMemory` (`[]ImageInMemory`) follows the bytes of a file from the loader to
the memory of the SoC. `LoaderIsRight` is about the loader alone: whatever the number,
order and overlap of the sections, the memory it leaves is `ImageByte` at every address,
and the addresses it leaves for the driver enclose all that was loaded. That is so after
no section, and each section keeps it so (`ScanKeeps`, from `LoadedMemory` for the bytes and
`LoadedBounds` for the addresses); by `NatsIn` of `SeqLemmas` it is so after all of them. The
invariant of the driver's part is

    ImageInv == HostInv /\ WritesRight /\ RequestRight /\ SentRight (and the memory's domain)

`HostInv` has what the driver's registers hold in each state, `WritesRight` and
`RequestRight` that the words on their way are those of the image or the breakpoint, and
`SentRight` that a byte below the address the loop has reached is in the memory or is
owed: in a command on the path whose word the memory has not yet taken (`Owed`). When
the processor runs, the driver waits in state 16 and `run` is alone on the path (`AskInv`), so
nothing is owed. The hypothesis `FilesFit`
says of a file what the loader and the driver take for granted of one. Addresses and
sizes do not wrap at 2^64, which those of the 32-bit files that the loader takes cannot
do. Words are loaded from a multiple of four on and the exit symbol is a multiple of
four, as it is for the code of a machine whose instructions are 32 bits; of other files
the breakpoint, which is placed by equality, can be missed. `LowestFound` is there because of
the run `Loader_extent`: without it, part of a file may not be sent. `MCSimDriver`
has TLC check that `FileFits` holds for every file of the run `Loader` and not for that of
`Loader_extent`. TLC checked `ImageInv` on the instance of `Loader`.

`Memory_proofs` (constants: any lines, words, bytes, clients, registers of the UART and
sizes of the buffers, with and without resets). `OrderHolds` (`[]InOrder`) and `ControllerIsFlat`
(`Spec => ImplementsFlatMemory`) have no hypotheses and share the invariant

    OrderInv == BufferInv /\ ControllerInv /\ ResetInv /\ rg_addr \in Addr /\ InOrder

A path from an initiator to a target and back has four parts: requests at the
initiator, requests at the target, responses at the target, responses at the
initiator. A step takes from the end of one part what it puts at the beginning of
the next, or changes what is owed. That the controller's half-sent burst is in its
place needs `ControllerInv`: in each state, what the request at the head of the
buffer, the raw requests and responses, and the words still to be sent have to do
with each other. The refinement follows from it: a write-back, a miss, a reload
and the raw memory's steps change `View` nowhere (a clean line is what the register
file holds, or a write-back of it is on its way), and at a reset, which begins when
nothing is owed, only line 0 and the cached line can change. `FetchesRight`
(`[]FetchRight`) adds

    FetchInv == CacheTypes /\ MemoryRight /\ AnswersRight /\ CacheInv

the code in the memory, in what is on its way, and in the words of a line that
have arrived. Its hypotheses are `NoRedirects`, which the run shares and section 7
explains, and `CodeElsewhere`: no code in the line at address 0, which the
controller declares cached after a reset, whatever it holds (section 7 again).
`OrderInv` and `FetchInv` were checked by TLC on the instance of the run `Memory`.

`SeqLemmas` has what these proofs need of sequences: that a set of numbers has a
least and a greatest element, from which `Max`, `RemoveAt` and `FlattenSeq` of the
library, a recursive function, are reasoned about by sets instead of by an
induction theorem.

Only model-checked: `TestsDecide`, about operators on bits that the provers cannot
reach; and everything that needs fairness or `ENABLED` (`InstructionActs`, `Answered`, `Ends`,
`Terminates`, `NeverStuck`), which is out of the proof system's reach.

## 6. What is not modelled

- UART: its reset, and what its registers hold but bit 7 of `rg_lcr`: no status bit
  depends on the FIFOs. SoC controller: the shutdown command and error
  answers, which end the simulation (the driver ends it before the first arrives and
  causes none of the second), and the start of its state machine, a delay.
- The values of the cycle counters, which only the printed CPI depends on.
- `CPU` together with the rules of `ICache`: in `CPU` the instruction cache is a unit
  of any latency, in `Memory` the CPU asks for any line.
- Memory controller: its configuration requests, the clearing of memory, and
  responses to addresses it does not have (`rl_invalid_address`). Fabric: its
  verbosity register. Both: the size of the tables, which are constants here.
- The host running out of memory (`malloc` in `C_mem_model.c`).
- The programs `hello` and `print`, `remove_red` of the filters, the data sets, test
  benches, and the reading of cycle and instruction counters: no control to check.
- In `CPU`, the ALU functions beyond one representative of each class (all of them are in
  `ALU`, which `IntOps` runs); LUI and AUIPC, the set and clear forms of CSR accesses,
  sign extension, instruction decoding: data that no property here tells apart.
- `mie`, `mip`, `mtimecmp` and the counters: nothing raises or takes an interrupt
  in this release.
- Debugger requests for counters, stop reason and verbosity.
- `mkIntMul_32/64`: not instantiated. Prebuilt Bluesim files and makefiles: builds.

## 7. Where the code and its description disagree

Shown by runs that must find a violation:

- `CPU_fault_report`: a trap of the load or store in stage 2 stores
  `rg_s2_m_csr_value` in `mepc` (`mkCPU.v:1027`) and the cache's word in
  `mbadaddr` (`mkCPU.v:1015`). Neither belongs to the faulting instruction.
  `CPU_programs` therefore leaves open what such a trap reports
  (`PreciseDataFaults = FALSE`) and checks all the rest.
- `Loader_extent`: the loader compares a section's address as it stands in the file
  with `min_addr`, which holds addresses modulo 2^30 (`C_mem_model.c:381`). Of two
  sections above 2^30, the higher one first, only that one is copied to the SoC.

Met while modelling, and kept out of the passing runs in the way named. (Those about
`CPU` are the disjuncts of `Divergence`; by `PipelineIsISA` the list is complete for
what `CPU` models.)

- A CSRR writes the value it read back in stage 3 (`mkCPU.v:1046`), after the trap
  of the next instruction has set `mepc`. (`CSRPrograms` has no `mepc` access next to
  a trap; the program `CSRR mepc`, `ECALL` violates `ImplementsISA`.)
- A refill that ends in an error leaves the line's tag valid (`mkDCache.v:722`,
  `1713`); the next load hits. (Lines outside memory are read in
  `DCache_devices` only, with lines of one word and `PreciseFaults = FALSE`;
  `DCache_lines` with `Mapped = {"t1"}` violates `ImplementsMemory`.)
- A reset during a refill leaves responses in a FIFO that is not cleared
  (`mkSoC_Top.v:1142`); the next refill takes them. (`Resets = FALSE`; `DCache_lines`
  with `Resets = TRUE` violates `LinesCurrent`.)
- A fetch that replaces another during a refill, as a trap of stage 2 or CONTINUE
  makes it (`mkCPU.v:1426`, `976`), takes the rest of the burst for its own line.
  (`Redirects = FALSE`; with `TRUE`, `Memory` violates `FetchRight`.) An error in a
  refill leaves the instruction cache's tag valid too.
- A reset of the memory controller declares the line at address 0 cached and dirty
  (`mkMem_Controller.v:467`), and one with a read of the raw memory on the way leaves
  its answer for the next. (Resets in `Memory` wait until nothing is on the way;
  the write-back of line 0 then writes what it holds.)
- `rl_invalid_address` answers and does not dequeue the request it answers. (The
  clients of `Memory` ask the controller for nothing that it does not have.)
- ERET reads `mepc` without the bypass that CSR reads have (`mkCPU.v:1209`): after
  `CSRRW mepc` and ERET in succession the old value is used. (No program of
  `CSRPrograms` has the sequence.)
- The CSR bypass forwards the written word, the register keeps fewer bits
  (`mkCPU.v:1245`): a read of `mcause` directly after its write returns all of
  them. (`FarOps` and `QuietOps` keep them apart.)
- After a breakpoint the last result may still sit in stage 3, which only
  `rl_run` writes back; the debugger then reads the old register
  (`mkCPU.v:1703`). (`DebugMains` has a branch before the EBREAK.)
- A debugger's write to register 0 is done (`mkCPU.v:1464`). (`DebugRequests` has
  none.)
- The code of a misaligned access is chosen by the `rg_op` of the access before
  it (`mkDCache.v:742`), and a device read that fails is answered with a word
  before the cache enters its exception state (`mkDCache.v:658`, `1928`). (Allowed
  by `PreciseFaults = FALSE`.)
- A reset does not clear the credit counter (`mkDCache.v:789`) although it loses
  the responses it counts; credits accumulate until the counter wraps around, which
  the code itself reports as an error (`mkDCache.v:1543`). (`Resets = FALSE` in the
  passing runs of the cache.)
- The copying loop steps by words from the lowest section to four bytes past the
  last (`mkSim_Driver.v:941`, `C_mem_model.c:383`) and compares with the exit symbol,
  which is not reduced modulo 2^30: from an unaligned section, with an exit
  symbol above 2^30, or up to the end of memory it misses the breakpoint or reads
  out of bounds. (The files of `MCSimDriver` have neither.)
- No program can read a character: the UART takes nothing from its input FIFO
  (`mkUART.v:531`), never writes its receive register and never sets the status bit
  that a program waits for. (No program of `MCSimDriver` reads.)
- The command that asks for the time takes its low word from the cycle counter: the
  second read goes to register A2, not A4 (`mkSoC_Controller.v:1656`). A two-word counter
  that runs on between its two reads is torn. (The driver asks for the cycle counter,
  whose value is left out, and for the instructions retired while the processor stands.)
- `c_mem_read` adds the address to the array without taking the base address away
  (`C_mem_model.c:137`), which the range check and the loader use. (The base is 0
  wherever the function is called.)
- `towers` prints "Verify = ok" for any verdict of `towers_verify`, which is never 0
  (`towers_main.c:242`). (`Solved` is about the verdict.) The size of its free list
  is not kept up to date when nodes are taken from it or returned.
- `divide` rounds up, for a dividend above half the range it overflows, and for a
  divisor of 0 or less it does not end (`filters.c:51`); nothing calls it. (`Args`.)
  `main` returns 1, the code for failure, when all is right (`filters.c:212`).
- intOpsTest shifts by a whole operand (`intOpsTest.c:24`), which is undefined for
  amounts of the width and more. (The generator cuts the amount; the compiled program
  and the processor take it modulo the width, which `TestsDecide` checks.)

## 8. Running

    tlc -config CPU_programs.cfg MCCPU.tla      # the CPU_* runs
    tlc -config DCache_lines.cfg MCDCache.tla   # the DCache_* runs
    tlc -config MBox.cfg MCMBox.tla
    tlc -config FIFO2.cfg FIFO2.tla
    tlc -config Loader.cfg MCSimDriver.tla      # and Loader_extent.cfg
    tlc -config Programs.cfg MCPrograms.tla
    tlc -config Memory.cfg MCMemory.tla
    tlapm FIFO2_proofs.tla ; tlapm CPU_proofs.tla ; tlapm MBox_proofs.tla
    tlapm SeqLemmas.tla ; tlapm DCache_proofs.tla ; tlapm Programs_proofs.tla
    tlapm SimDriver_proofs.tla ; tlapm Memory_proofs.tla
