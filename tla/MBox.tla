--------------------------------- MODULE MBox ---------------------------------
(***************************************************************************)
(* mkRISCV_MBox.v: the multiplier and divider, one step per clock edge.  A *)
(* multiplication takes one edge.  A division first doubles the divisor    *)
(* (loop1), then subtracts it while halving it again (loop2); it shares    *)
(* the operand registers with the multiplier and goes on whatever the      *)
(* multiplier is asked, because a reset of the processor does not reach    *)
(* this unit.  An edge fires every rule that can fire; what a request      *)
(* writes wins.                                                            *)
(***************************************************************************)
EXTENDS Integers

CONSTANTS Half,      \* 2^(width - 1): 2^31 in the code
          Asked      \* the requests that the processor may make

WordMod == 2 * Half
Word == 0 .. WordMod - 1
F3 == 0 .. 7         \* MUL, MULH, MULHSU, MULHU, DIV, DIVU, REM, REMU

Requests == [f3 : F3, v1 : Word, v2 : Word]
NoRequest == [f3 |-> 0, v1 |-> 0, v2 |-> -1]

ASSUME MBoxAssumption == Half \in Nat \ {0} /\ Asked \subseteq Requests

VARIABLES rg,        \* rg_state, rg_f3, rg_v1, rg_v2
          div,       \* intDiv_rg_*
          pending    \* the request stage 2 of the pipeline waits for

vars == <<rg, div, pending>>

(* Mutant: the carry out of the word is kept.                              *)
MutNegWide(x) == WordMod - x

Neg(x) == (WordMod - x) % WordMod
Signed(x) == IF x >= Half THEN x - WordMod ELSE x
Abs(x) == IF x >= Half THEN Neg(x) ELSE x

IsDivision(f3) == f3 >= 4
IsSigned(f3) == f3 % 2 = 0
IsRemainder(f3) == f3 % 4 >= 2

-----------------------------------------------------------------------------
(* The value methods.                                                      *)
valid == rg.state = "MUL2" \/ (rg.state = "DIV" /\ div.state = "DONE")

word == IF rg.state = "MUL2" \/ IsRemainder(rg.f3) THEN rg.v1 ELSE div.quo

-----------------------------------------------------------------------------
(* Rules, each as the registers after it.                                  *)
HighWord(product) == (product % (WordMod * WordMod)) \div WordMod

Product(f3, v1, v2) ==
    CASE f3 = 0 -> (v1 * v2) % WordMod
      [] f3 = 1 -> HighWord(Signed(v1) * Signed(v2))
      [] f3 = 2 -> HighWord(Signed(v1) * v2)
      [] f3 = 3 -> HighWord(v1 * v2)
      [] OTHER  -> WordMod - 1

rl_mul(r) == [r EXCEPT !.state = "MUL2", !.v1 = Product(r.f3, r.v1, r.v2)]

ByZero == div.state = "START" /\ rg.v2 = 0
Overflow == /\ div.state = "START" /\ div.is_signed
            /\ rg.v1 = Half /\ rg.v2 = WordMod - 1
Loop1Doubles == div.denom2 <= rg.v1 \div 2
Loop2Ends == rg.v1 < rg.v2
(* Mutant: equal is not enough to subtract.                                *)
MutLoop2SubtractsGreater == ~Loop2Ends /\ rg.v1 > div.denom2

Loop2Subtracts == ~Loop2Ends /\ rg.v1 >= div.denom2

Magnitude(x) == IF div.is_signed THEN Abs(x) ELSE x

(* rl_mul and the rules that write the operands exclude each other.        *)
Blocked == rg.state = "MUL"

DivStart ==
    [state |-> "LOOP1", denom2 |-> Magnitude(rg.v2), n |-> 1, quo |-> 0,
     is_signed |-> div.is_signed,
     quoIsNeg |-> div.is_signed /\ (rg.v1 >= Half) # (rg.v2 >= Half),
     remIsNeg |-> div.is_signed /\ rg.v1 >= Half]

(* Mutant: the doubling goes one step too far.                             *)
MutDivLoop1TooFar ==
    IF div.denom2 <= rg.v1
    THEN [div EXCEPT !.denom2 = (2 * @) % WordMod, !.n = (2 * @) % WordMod]
    ELSE [div EXCEPT !.state = "LOOP2"]

DivLoop1 ==
    IF Loop1Doubles
    THEN [div EXCEPT !.denom2 = (2 * @) % WordMod, !.n = (2 * @) % WordMod]
    ELSE [div EXCEPT !.state = "LOOP2"]

DivLoop2 ==
    CASE Loop2Ends      -> [div EXCEPT !.state = "DONE",
                                       !.quo = IF div.quoIsNeg THEN Neg(@) ELSE @]
      [] Loop2Subtracts -> [div EXCEPT !.quo = (@ + div.n) % WordMod]
      [] OTHER          -> [div EXCEPT !.denom2 = @ \div 2, !.n = @ \div 2]

(* The divider's registers after an edge.                                  *)
DivAfter ==
    CASE ByZero                                     ->
            [div EXCEPT !.state = "DONE", !.quo = WordMod - 1]
      [] Overflow /\ ~Blocked                       ->
            [div EXCEPT !.state = "DONE", !.quo = rg.v1]
      [] div.state = "START" /\ ~ByZero /\ ~Overflow /\ ~Blocked -> DivStart
      [] div.state = "LOOP1"                        -> DivLoop1
      [] div.state = "LOOP2" /\ ~Blocked            -> DivLoop2
      [] OTHER                                      -> div

(* The operand registers and rg_state after an edge without a request.     *)
RgAfter ==
    CASE Blocked                                    -> rl_mul(rg)
      [] ~Blocked /\ Overflow                       -> [rg EXCEPT !.v1 = 0]
      [] ~Blocked /\ div.state = "START" /\ ~ByZero /\ ~Overflow ->
            [rg EXCEPT !.v1 = Magnitude(@), !.v2 = Magnitude(@)]
      [] ~Blocked /\ div.state = "LOOP2" /\ Loop2Ends /\ div.remIsNeg ->
            [rg EXCEPT !.v1 = Neg(@)]
      [] ~Blocked /\ div.state = "LOOP2" /\ Loop2Subtracts ->
            [rg EXCEPT !.v1 = @ - div.denom2]
      [] OTHER                                      -> rg

-----------------------------------------------------------------------------
(* An edge without a request.  The pipeline takes the answer in the first  *)
(* cycle it is valid.                                                      *)
Edge ==
    /\ rg' = RgAfter /\ div' = DivAfter
    /\ pending' = IF valid THEN NoRequest ELSE pending

(* Mutant: a division that is still going on is not started over.          *)
MutReqNoRestart(r) ==
    /\ pending = NoRequest \/ valid
    /\ pending' = r
    /\ rg' = [state |-> IF IsDivision(r.f3) THEN "DIV" ELSE "MUL",
              f3 |-> r.f3, v1 |-> r.v1, v2 |-> r.v2]
    /\ div' = IF IsDivision(r.f3) /\ DivAfter.state \notin {"LOOP1", "LOOP2"}
              THEN [DivAfter EXCEPT !.state = "START", !.is_signed = IsSigned(r.f3)]
              ELSE DivAfter

(* An edge with a request, which the pipeline makes when it waits for none *)
(* or takes the answer in the same edge.                                   *)
req(r) ==
    /\ pending = NoRequest \/ valid
    /\ pending' = r
    /\ rg' = [state |-> IF IsDivision(r.f3) THEN "DIV" ELSE "MUL",
              f3 |-> r.f3, v1 |-> r.v1, v2 |-> r.v2]
    /\ div' = IF IsDivision(r.f3)
              THEN [DivAfter EXCEPT !.state = "START", !.is_signed = IsSigned(r.f3)]
              ELSE DivAfter

(* The processor is reset: it forgets its request, this unit does not.     *)
Abandon ==
    /\ pending # NoRequest /\ ~valid
    /\ pending' = NoRequest
    /\ rg' = RgAfter /\ div' = DivAfter

(* RST_N sets the divider's state; the other registers keep the values of  *)
(* power-up, a pattern with the top bit set and the rest mixed.            *)
PowerUp == Half

Init ==
    /\ rg = [state |-> "DIV", f3 |-> 2, v1 |-> PowerUp, v2 |-> PowerUp]
    /\ div = [state |-> "IDLE", denom2 |-> PowerUp, n |-> PowerUp, quo |-> PowerUp,
              is_signed |-> FALSE, quoIsNeg |-> FALSE, remIsNeg |-> FALSE]
    /\ pending = NoRequest

Next == Edge \/ Abandon \/ \E r \in Asked : req(r)

Spec == Init /\ [][Next]_vars

(* The clock does not stop.                                                *)
FairSpec == Spec /\ WF_vars(Edge)

-----------------------------------------------------------------------------
TypeOK ==
    /\ rg \in [state : {"MUL", "MUL2", "DIV"}, f3 : F3, v1 : Word, v2 : Word]
    /\ div \in [state : {"IDLE", "START", "LOOP1", "LOOP2", "DONE"}, denom2 : Word,
                n : Word, quo : Word, is_signed : BOOLEAN, quoIsNeg : BOOLEAN,
                remIsNeg : BOOLEAN]
    /\ pending \in Asked \cup {NoRequest}

(* What the instruction set says a request returns.                        *)
Value(r, x) == IF IsSigned(r.f3) THEN Signed(x) ELSE x
Magn(z) == IF z < 0 THEN -z ELSE z

(* The quotient is rounded towards zero, so that the remainder has the     *)
(* sign of the dividend; division by zero gives all ones and the dividend, *)
(* the one quotient that does not fit wraps around.                        *)
IsQuotRem(a, b, q, r) ==
    IF b = 0 THEN q = -1 /\ r = a
    ELSE /\ a = q * b + r
         /\ Magn(r) < Magn(b)
         /\ r # 0 => (r < 0) = (a < 0)

Quotient(r) == LET a == Value(r, r.v1)
                   b == Value(r, r.v2)
               IN  {w \in Word : \E q \in -1 * WordMod .. WordMod :
                        /\ w = q % WordMod
                        /\ IsQuotRem(a, b, q, IF b = 0 THEN a ELSE a - q * b)}

Remainder(r) == LET a == Value(r, r.v1)
                    b == Value(r, r.v2)
                IN  {w \in Word : \E q \in -1 * WordMod .. WordMod :
                        LET rem == IF b = 0 THEN a ELSE a - q * b
                        IN  w = rem % WordMod /\ IsQuotRem(a, b, q, rem)}

(* The factors of MUL are taken as signed, which makes no difference.      *)
Factors(r) == CASE r.f3 \in {0, 1} -> <<Signed(r.v1), Signed(r.v2)>>
                [] r.f3 = 2        -> <<Signed(r.v1), r.v2>>
                [] r.f3 = 3        -> <<r.v1, r.v2>>

Results(r) ==
    IF IsDivision(r.f3)
    THEN IF IsRemainder(r.f3) THEN Remainder(r) ELSE Quotient(r)
    ELSE LET p == Factors(r)[1] * Factors(r)[2]
         IN  {IF r.f3 = 0 THEN p % WordMod ELSE (p \div WordMod) % WordMod}

(* The answer is the result of the request that is waited for, whatever    *)
(* was abandoned before it and still goes on in the shared registers.      *)
ResultRight == pending # NoRequest /\ valid => word \in Results(pending)

(* A division in progress has divided the dividend as far as quo says, by  *)
(* the divisor times n, and has no more than one step of each loop left    *)
(* over; so it cannot lose a bit of the quotient nor run past the end.     *)
Dividing == rg.state = "DIV" /\ pending # NoRequest

LoopInvariant ==
    Dividing /\ div.state \in {"LOOP1", "LOOP2"} =>
       /\ rg.v2 = Magnitude(pending.v2) /\ rg.v2 > 0
       /\ Magnitude(pending.v1) = div.quo * rg.v2 + rg.v1
       /\ div.denom2 = div.n * rg.v2 /\ div.n > 0
       /\ div.state = "LOOP2" => rg.v1 < 2 * div.denom2
       /\ div.state = "LOOP1" => div.quo = 0

(* Every request is answered, unless the processor is reset first.         *)
Answered == pending # NoRequest ~> (valid \/ pending = NoRequest)
=============================================================================
