-------------------------------- MODULE ALU ---------------------------------
(***************************************************************************)
(* The arithmetic of mkRISCV_Exec.v in full: the operations that give a    *)
(* register its value and the conditions of branches, on words of Width    *)
(* bits (32; a power of two).  An immediate operand is taken like a        *)
(* register's.  Exec.tla, for the pipeline, has one of each class.         *)
(***************************************************************************)
EXTENDS Integers, Bitwise

CONSTANT Width

Word(n) == n % 2 ^ Width
Ones == 2 ^ Width - 1
Sign == 2 ^ (Width - 1)
Truth(b) == IF b THEN 1 ELSE 0

(* A signed comparison is an unsigned one with the signs flipped.          *)
Less(x, y) == (x ^^ Sign) < (y ^^ Sign)

(* Mutant: the whole operand is the amount of a shift.                     *)
MutShamt(y) == y

(* The lowest bits of the operand are the amount of a shift.               *)
Shamt(y) == y % Width

(* An arithmetic shift is a logical one with the sign in the bits which a  *)
(* second one shows to be free.                                            *)
ShiftedSign(x, s) == IF x < Sign THEN 0 ELSE Ones - Ones \div 2 ^ s

Value(op, x, y) ==
    CASE op = "ADD"  -> Word(x + y)
      [] op = "SUB"  -> Word(x - y)
      [] op = "SLL"  -> Word(x * 2 ^ Shamt(y))
      [] op = "SLT"  -> Truth(Less(x, y))
      [] op = "SLTU" -> Truth(x < y)
      [] op = "XOR"  -> x ^^ y
      [] op = "SRL"  -> x \div 2 ^ Shamt(y)
      [] op = "SRA"  -> (x \div 2 ^ Shamt(y)) | ShiftedSign(x, Shamt(y))
      [] op = "OR"   -> x | y
      [] op = "AND"  -> x & y

Taken(op, x, y) ==
    CASE op = "BEQ"  -> x = y
      [] op = "BNE"  -> x # y
      [] op = "BLT"  -> Less(x, y)
      [] op = "BGE"  -> ~Less(x, y)
      [] op = "BLTU" -> x < y
      [] op = "BGEU" -> ~(x < y)
=============================================================================
