----------------------------- MODULE SoftArith -----------------------------
(***************************************************************************)
(* Multiplication and division by shifts and additions: the loops of       *)
(* multiply (filters.c, and the same text in multiply.i) and divide        *)
(* (filters.c).  An int is a number of BITS bits in two's complement, and  *)
(* what does not fit is cut off, as the compiled code does.                *)
(***************************************************************************)
EXTENDS Integers

CONSTANTS BITS,      \* 32
          Args       \* pairs of arguments, with the function called

VARIABLES pc, args, x, y, i, y2, tmp, result

vars == <<pc, args, x, y, i, y2, tmp, result>>

Half == 2 ^ (BITS - 1)
Cut(n) == ((n + Half) % (2 * Half)) - Half
int == -Half .. Half - 1

Init ==
    /\ args \in Args
    /\ pc = args.call /\ x = args.x /\ y = args.y
    /\ i = 0 /\ y2 = args.y /\ tmp = 1
    /\ result = IF args.call = "multiply" THEN 0 ELSE 1

(* Mutant: the loop leaves out the sign bit.                               *)
MutBitsLeft == i < BITS - 1

BitsLeft == i < BITS

(* Mutant: the shift does not keep the sign.                               *)
MutShifted(v) == (v % (2 * Half)) \div 2

(* v >> 1 keeps the sign: it is a division rounded down.                   *)
Shifted(v) == v \div 2

multiply ==
    /\ pc = "multiply"
    /\ IF BitsLeft
       THEN /\ result' = IF x % 2 = 1 THEN Cut(result + y) ELSE result
            /\ x' = Shifted(x) /\ y' = Cut(2 * y) /\ i' = i + 1
            /\ UNCHANGED pc
       ELSE pc' = "done" /\ UNCHANGED <<x, y, i, result>>
    /\ UNCHANGED <<args, y2, tmp>>

(* The divisor is doubled until it is no less than x ...                   *)
divide_scale ==
    /\ pc = "divide"
    /\ IF x > y2 THEN y2' = Cut(2 * y2) /\ tmp' = Cut(2 * tmp) /\ UNCHANGED pc
       ELSE pc' = "subtract" /\ UNCHANGED <<y2, tmp>>
    /\ UNCHANGED <<args, x, y, i, result>>

Fits == x > y2

(* Mutant: the scaled divisor stays.                                       *)
MutNextDivisor == y2

NextDivisor == Shifted(y2)

(* ... and subtracted on the way back.                                     *)
divide_subtract ==
    /\ pc = "subtract"
    /\ IF x > y
       THEN /\ x' = IF Fits THEN x - y2 ELSE x
            /\ result' = IF Fits THEN Cut(result + tmp) ELSE result
            /\ tmp' = Shifted(tmp) /\ y2' = NextDivisor
            /\ UNCHANGED pc
       ELSE pc' = "done" /\ UNCHANGED <<x, y2, tmp, result>>
    /\ UNCHANGED <<args, y, i>>

Next == multiply \/ divide_scale \/ divide_subtract

Spec == Init /\ [][Next]_vars /\ WF_vars(Next)

-----------------------------------------------------------------------------
(* After i rounds of multiply the product of the low i bits of x with y is *)
(* in result, whatever the signs and however much has been cut off.        *)
PartialProduct ==
    args.call = "multiply" =>
      /\ result = Cut((args.x % 2 ^ i) * args.y)
      /\ y = Cut(args.y * 2 ^ i) /\ x = args.x \div 2 ^ i

(* The product is the one of the MUL instruction; the quotient is rounded  *)
(* up, and never less than 1.                                              *)
ResultRight ==
    pc = "done" =>
      result = IF args.call = "multiply" THEN Cut(args.x * args.y)
               ELSE IF args.x <= args.y THEN 1 ELSE (args.x + args.y - 1) \div args.y

(* Both loops end (of divide: for a divisor above 0 and a dividend up to   *)
(* half the largest int, beyond which the scaled divisor overflows).       *)
Terminates == <>(pc = "done")
=============================================================================
