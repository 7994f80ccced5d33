------------------------------- MODULE IntOps -------------------------------
(***************************************************************************)
(* intOpsTest: a table of operations, operands and results, made on a host *)
(* (genTests_c), and a program that computes them again on the processor   *)
(* (intOpsTest.c), both with the functions compute32 and compute64 of      *)
(* opcodes.h.  What the host computes is what the language says; what the  *)
(* processor computes is what the compiler made of it (intOpsTest.text),   *)
(* with the ALU of mkRISCV_Exec.v.  w is the width.                        *)
(***************************************************************************)
EXTENDS Sequences, Functions

CONSTANTS
    W32, W64,       \* the widths, 32 and 64
    Machines        \* the instruction the processor executes wrong, or "none"

INSTANCE ALU WITH Width <- W32

VARIABLES pc, machine, j, printed

vars == <<pc, machine, j, printed>>

opcodes == <<"EQ", "NE", "LT", "GE", "LTU", "GEU", "ADD", "SUB",
             "LOGICAL_AND", "LOGICAL_OR", "LOGICAL_NOT", "AND", "OR", "XOR", "NOT",
             "SLL", "SRL", "SRA">>

Signed(w, u) == IF u < 2 ^ (w - 1) THEN u ELSE u - 2 ^ w

(* compute32 and compute64, whose text is the same: the meaning of the C   *)
(* operators, which leave a shift by w or more undefined.                  *)
compute(w, op, s, u1, u2) ==
    LET i1 == Signed(w, u1)
        i2 == Signed(w, u2)
    IN  CASE op = "EQ"  -> Truth(i1 = i2)
          [] op = "NE"  -> Truth(i1 # i2)
          [] op = "LT"  -> Truth(i1 < i2)
          [] op = "GE"  -> Truth(i1 >= i2)
          [] op = "LTU" -> Truth(u1 < u2)
          [] op = "GEU" -> Truth(u1 >= u2)
          [] op = "ADD" -> (i1 + i2) % 2 ^ w
          [] op = "SUB" -> (i1 - i2) % 2 ^ w
          [] op = "LOGICAL_AND" -> Truth(u1 # 0 /\ u2 # 0)
          [] op = "LOGICAL_OR"  -> Truth(u1 # 0 \/ u2 # 0)
          [] op = "LOGICAL_NOT" -> Truth(u1 = 0)
          [] op = "AND" -> u1 & u2
          [] op = "OR"  -> u1 | u2
          [] op = "XOR" -> u1 ^^ u2
          [] op = "NOT" -> 2 ^ w - 1 - u1
          [] op = "SLL" -> (u1 % 2 ^ (w - s)) * 2 ^ s
          [] op = "SRL" -> u1 \div 2 ^ s
          [] op = "SRA" -> (i1 \div 2 ^ s) % 2 ^ w

-----------------------------------------------------------------------------
(* The processor.                                                          *)
Do(op, x, y) == IF machine = op THEN Word(Value(op, x, y) + 1) ELSE Value(op, x, y)
Goes(op, x, y) == Taken(op, x, y) # (machine = op)
NonZero(x) == ~Goes("BEQ", x, 0)

(* compute32 as compiled, without moves, addresses, and the masks of truth *)
(* values.  The amount of a shift is u2 as it is.                          *)
compiled32(op, u1, u2) ==
    CASE op = "EQ"  -> Do("SLTU", Do("SUB", u1, u2), 1)
      [] op = "NE"  -> Do("SLTU", 0, Do("SUB", u1, u2))
      [] op = "LT"  -> Do("SLT", u1, u2)
      [] op = "GE"  -> Do("XOR", Do("SLT", u1, u2), 1)
      [] op = "LTU" -> Do("SLTU", u1, u2)
      [] op = "GEU" -> Do("XOR", Do("SLTU", u1, u2), 1)
      [] op = "LOGICAL_AND" -> Truth(NonZero(u1) /\ NonZero(u2))
      [] op = "LOGICAL_OR"  -> Truth(Goes("BNE", u1, 0) \/ NonZero(u2))
      [] op = "LOGICAL_NOT" -> Do("SLTU", u1, 1)
      [] op = "NOT" -> Do("XOR", u1, Ones)
      [] OTHER      -> Do(op, u1, u2)

(* A value of two words, given as its high and its low one.                *)
Pair(h, l) == h * 2 ^ W32 + l

(* A funnel shift: x in its place, and the bits that cross from word to    *)
(* word, shifted by one and by the complement of the amount, W32 - 1 - s.  *)
Across(x, toward, y, back, s) ==
    Do("OR", Do(back, Do(back, y, 1), Do("XOR", s, Ones)), Do(toward, x, s))

compiled64(op, u1, u2) ==
    LET h1 == u1 \div 2 ^ W32
        h2 == u2 \div 2 ^ W32
        l1 == u1 % 2 ^ W32
        l2 == u2 % 2 ^ W32
        Differ == Do("OR", Do("XOR", l1, l2), Do("XOR", h1, h2))
        Below(b) == Goes(b, h1, h2) \/ (~Goes("BNE", h2, h1) /\ Goes("BLTU", l1, l2))
        NotBelow(b) == ~Goes(b, h1, h2) /\ (Goes("BNE", h2, h1) \/ Goes("BGEU", l1, l2))
        Any(h, l) == NonZero(Do("OR", l, h))
        AsInt(b) == Pair(Do("SRA", Truth(b), W32 - 1), Truth(b))
        Short == Goes("BEQ", Do("AND", l2, W32), 0)   \* the shift is below W32
        sum == Do("ADD", l1, l2)
        difference == Do("SUB", l1, l2)
    IN  CASE op = "EQ"  -> Do("SLTU", Differ, 1)
          [] op = "NE"  -> Do("SLTU", 0, Differ)
          [] op = "LT"  -> Truth(Below("BLT"))
          [] op = "GE"  -> Truth(NotBelow("BLT"))
          [] op = "LTU" -> Truth(Below("BLTU"))
          [] op = "GEU" -> Truth(NotBelow("BLTU"))
          [] op = "ADD" -> Pair(Do("ADD", Do("SLTU", sum, l1), Do("ADD", h1, h2)), sum)
          [] op = "SUB" -> Pair(Do("SUB", Do("SUB", h1, h2), Do("SLTU", l1, difference)), difference)
          [] op = "LOGICAL_AND" -> AsInt(Any(h1, l1) /\ Any(h2, l2))
          [] op = "LOGICAL_OR"  ->
                AsInt(Goes("BNE", Do("OR", l1, h1), 0) \/ Any(h2, l2))
          [] op = "LOGICAL_NOT" -> Do("SLTU", Do("OR", l1, h1), 1)
          [] op = "NOT" -> Pair(Do("XOR", h1, Ones), Do("XOR", l1, Ones))
          [] op = "SLL" -> IF Short THEN Pair(Across(h1, "SLL", l1, "SRL", l2), Do("SLL", l1, l2))
                                    ELSE Pair(Do("SLL", l1, l2), 0)
          [] op = "SRL" -> IF Short THEN Pair(Do("SRL", h1, l2), Across(l1, "SRL", h1, "SLL", l2))
                                    ELSE Do("SRL", h1, l2)
          [] op = "SRA" -> IF Short THEN Pair(Do("SRA", h1, l2), Across(l1, "SRL", h1, "SLL", l2))
                                    ELSE Pair(Do("SRA", h1, W32 - 1), Do("SRA", h1, l2))
          [] OTHER      -> Pair(Do(op, h1, h2), Do(op, l1, l2))

-----------------------------------------------------------------------------
(* The table: every operation with all pairs of fourteen values at the     *)
(* edges of the signed and unsigned ranges.                                *)
vals(w, k) ==
    LET Q == 2 ^ (w - 2)
        low == <<0, 1, Q - 1, Q, Q + 1, 2 * Q - 2, 2 * Q - 1>>
    IN  low[(k \div 2) + 1] + (k % 2) * 2 * Q

N == Len(opcodes) * 14 * 14

(* The generator keeps the amount of a shift below the width.              *)
test_data(w, k) ==
    LET op == opcodes[k \div 196 + 1]
        a == vals(w, (k \div 14) % 14)
        b == vals(w, k % 14)
    IN  [op |-> op, a |-> a, b |-> b, exp |-> compute(w, op, b % w, a, b)]

Init == pc = "test32" /\ machine \in Machines /\ j = 0 /\ printed = << >>

Passes(w, row) ==
    row.exp = IF w = W32 THEN compiled32(row.op, row.a, row.b) ELSE compiled64(row.op, row.a, row.b)

(* One round of a loop, or what is printed when it ends.                   *)
Loop(w, next) ==
    /\ IF j < N /\ Passes(w, test_data(w, j))
       THEN j' = j + 1 /\ UNCHANGED <<pc, printed>>
       ELSE /\ printed' = Append(printed, IF j < N THEN "ERROR" ELSE "ok")
            /\ pc' = next /\ j' = 0
    /\ UNCHANGED machine

main32 == pc = "test32" /\ Loop(W32, "test64")
main64 == pc = "test64" /\ Loop(W64, "done")

Next == main32 \/ main64

Spec == Init /\ [][Next]_vars /\ WF_vars(Next)

-----------------------------------------------------------------------------
(* What the ALU computes with the compiler's sequences is what the language*)
(* says, at all edges of the ranges, although the program passes on shift  *)
(* amounts that the generator had cut; and a processor that executes one   *)
(* instruction wrong is reported.                                          *)
TestsDecide ==
    pc = "done" => IF machine = "none" THEN printed = <<"ok", "ok">> ELSE "ERROR" \in Range(printed)

(* Both loops end.                                                         *)
Terminates == <>(pc = "done")
=============================================================================
