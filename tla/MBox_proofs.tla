----------------------------- MODULE MBox_proofs -----------------------------
(***************************************************************************)
(* For every word width, and whatever was abandoned before, the multiply   *)
(* and divide unit returns the result of the request it was asked last.    *)
(* Half need not be a power of two: all that the loops use is that n is    *)
(* one, which DividerInv says.                                             *)
(***************************************************************************)
EXTENDS MBox, TLAPS

USE MBoxAssumption

-----------------------------------------------------------------------------
(* Arithmetic of words.                                                    *)
LEMMA ModFacts ==
  ASSUME NEW M \in Nat \ {0}
  PROVE  /\ \A x \in Int : /\ x % M \in 0 .. M - 1 /\ x \div M \in Int
                         /\ x % M = x - M * (x \div M)
         /\ \A q \in Int, r \in 0 .. M - 1 : (M * q + r) % M = r /\ (M * q + r) \div M = q
<1>1. \A x \in Int : /\ x % M \in 0 .. M - 1 /\ x \div M \in Int
                   /\ x % M = x - M * (x \div M)
  OBVIOUS
<1>2. ASSUME NEW q \in Int, NEW r \in 0 .. M - 1
      PROVE  (M * q + r) % M = r /\ (M * q + r) \div M = q
  <2> DEFINE x == M * q + r
  <2>1. x \in Int
    OBVIOUS
  <2>2. PICK d \in Int, s \in 0 .. M - 1 : d = x \div M /\ s = x % M /\ s = x - M * d
    BY <1>1, <2>1
  <2>3. M * (d - q) = r - s
    BY <2>2
  <2>4. d = q
    <3>1. CASE d - q >= 1
      <4>1. M * (d - q) >= M
        BY <3>1
      <4> QED
        BY <4>1, <2>3
    <3>2. CASE d - q <= -1
      <4>1. M * (q - d) >= M
        BY <3>2
      <4> QED
        BY <4>1, <2>3
    <3> QED
      BY <3>1, <3>2
  <2> QED
    BY <2>2, <2>3, <2>4
<1> QED
  BY <1>1, <1>2

LEMMA ModSmall ==
  ASSUME NEW M \in Nat \ {0}, NEW r \in 0 .. M - 1
  PROVE  r % M = r /\ (r - M) % M = r /\ M % M = 0
<1>1. (M * 0 + r) % M = r /\ (M * (-1) + r) % M = r /\ (M * 1 + 0) % M = 0
  BY ModFacts
<1>2. M * 0 + r = r /\ M * (-1) + r = r - M /\ M * 1 + 0 = M
  OBVIOUS
<1> QED
  BY <1>1, <1>2

LEMMA WordModType == WordMod \in Nat \ {0} /\ WordMod = 2 * Half
  BY DEF WordMod

LEMMA ModType == \A n \in Int : n % WordMod \in Word
  BY WordModType, ModFacts DEF Word

LEMMA WordFacts ==
  ASSUME NEW x \in Word
  PROVE  /\ x \in Nat /\ x < WordMod
         /\ Neg(x) \in Word /\ Abs(x) \in Word /\ Signed(x) \in Int
         /\ x \div 2 \in Word
         /\ Neg(Neg(x)) = x /\ Neg(x) = (-x) % WordMod
         /\ x % WordMod = x /\ Signed(x) % WordMod = x
<1>1. x \in Nat /\ x < WordMod /\ x \div 2 \in Word
  BY WordModType DEF Word
<1>2. x % WordMod = x /\ (x - WordMod) % WordMod = x /\ WordMod % WordMod = 0
  BY WordModType, ModSmall DEF Word
<1>3. Neg(x) = IF x = 0 THEN 0 ELSE WordMod - x
  <2>1. CASE x = 0
    BY <2>1, <1>2, WordModType DEF Neg
  <2>2. CASE x # 0
    <3>1. WordMod - x \in 0 .. WordMod - 1
      BY <2>2, <1>1, WordModType
    <3> QED
      BY <3>1, <2>2, WordModType, ModSmall DEF Neg
  <2> QED
    BY <2>1, <2>2
<1>4. Neg(x) \in Word /\ Abs(x) \in Word /\ Signed(x) \in Int
  BY <1>1, <1>3, WordModType DEF Word, Abs, Signed
<1>5. Neg(Neg(x)) = x
  <2>1. CASE x = 0
    BY <2>1, <1>3
  <2>2. CASE x # 0
    <3>1. WordMod - (WordMod - x) = x
      BY <1>1, WordModType
    <3> QED
      BY <3>1, <2>2, <1>2, <1>3 DEF Neg
  <2> QED
    BY <2>1, <2>2
<1>6. Neg(x) = (-x) % WordMod
  <2>1. CASE x = 0
    BY <2>1, <1>2, <1>3
  <2>2. CASE x # 0
    <3>1. WordMod - x \in 0 .. WordMod - 1 /\ (WordMod - x) - WordMod = -x
      BY <2>2, <1>1, WordModType
    <3>2. ((WordMod - x) - WordMod) % WordMod = WordMod - x
      BY <3>1, WordModType, ModSmall
    <3> QED
      BY <3>1, <3>2, <2>2, <1>3
  <2> QED
    BY <2>1, <2>2
<1>7. Signed(x) % WordMod = x
  BY <1>1, <1>2 DEF Signed
<1> QED
  BY <1>1, <1>2, <1>4, <1>5, <1>6, <1>7

(* The upper word of a double word, signed or not.                         *)
LEMMA HighWordFact ==
  ASSUME NEW p \in Int
  PROVE  HighWord(p) = (p \div WordMod) % WordMod /\ HighWord(p) \in Word
<1> DEFINE d == p \div WordMod
           e == d \div WordMod
           s == d % WordMod
           r == p % WordMod
<1>1. r = p - WordMod * d /\ d \in Int /\ r \in 0 .. WordMod - 1
  BY WordModType, ModFacts
<1>2. s = d - WordMod * e /\ e \in Int /\ s \in 0 .. WordMod - 1
  BY <1>1, WordModType, ModFacts
<1> HIDE DEF d, e, s, r
<1>3. p = (WordMod * WordMod) * e + (WordMod * s + r)
  BY <1>1, <1>2, WordModType
<1>4. WordMod * s + r \in 0 .. WordMod * WordMod - 1
  <2>1. WordMod * s <= WordMod * (WordMod - 1)
    BY <1>2, WordModType
  <2>2. 0 <= WordMod * s
    BY <1>2, WordModType
  <2> QED
    BY <2>1, <2>2, <1>1, <1>2, WordModType
<1>5. p % (WordMod * WordMod) = WordMod * s + r
  <2>1. WordMod * WordMod \in Nat \ {0}
    BY WordModType
  <2> QED
    BY <2>1, <1>2, <1>3, <1>4, ModFacts
<1>6. HighWord(p) = s
  <2>1. HighWord(p) = (WordMod * s + r) \div WordMod
    BY <1>5 DEF HighWord
  <2>2. (WordMod * s + r) \div WordMod = s
    <3>1. \A q \in Int, t \in 0 .. WordMod - 1 : (WordMod * q + t) \div WordMod = q
      BY WordModType, ModFacts
    <3>2. s \in Int
      BY <1>2
    <3> QED
      BY <1>1, <3>1, <3>2, Zenon
  <2> QED
    BY <2>1, <2>2
<1>7. s \in Word
  BY <1>2 DEF Word
<1>8. s = (p \div WordMod) % WordMod
  BY DEF s, d
<1> QED
  BY <1>6, <1>7, <1>8

-----------------------------------------------------------------------------
(* Types.                                                                  *)
RgType == [state : {"MUL", "MUL2", "DIV"}, f3 : F3, v1 : Word, v2 : Word]
DivType == [state : {"IDLE", "START", "LOOP1", "LOOP2", "DONE"}, denom2 : Word,
            n : Word, quo : Word, is_signed : BOOLEAN, quoIsNeg : BOOLEAN,
            remIsNeg : BOOLEAN]

LEMMA ProductType ==
  ASSUME NEW f3 \in F3, NEW v1 \in Word, NEW v2 \in Word
  PROVE  Product(f3, v1, v2) \in Word
<1>1. v1 \in Int /\ v2 \in Int /\ Signed(v1) \in Int /\ Signed(v2) \in Int
  BY WordFacts
<1>2. /\ v1 * v2 \in Int /\ Signed(v1) * Signed(v2) \in Int
      /\ Signed(v1) * v2 \in Int
  BY <1>1
<1>3. WordMod - 1 \in Word
  BY WordModType DEF Word
<1>4. CASE f3 = 0
  BY <1>2, <1>4, ModType DEF Product
<1>5. CASE f3 = 1
  BY <1>2, <1>5, HighWordFact DEF Product
<1>6. CASE f3 = 2
  BY <1>2, <1>6, HighWordFact DEF Product
<1>7. CASE f3 = 3
  BY <1>2, <1>7, HighWordFact DEF Product
<1>8. CASE f3 \notin 0 .. 3
  BY <1>3, <1>8 DEF Product
<1> QED
  BY <1>4, <1>5, <1>6, <1>7, <1>8

LEMMA MagnitudeType ==
  ASSUME div \in DivType, NEW x \in Word
  PROVE  Magnitude(x) \in Word
  BY WordFacts DEF Magnitude

(* Every rule leaves words in the registers.                               *)
LEMMA DivAfterType ==
  ASSUME rg \in RgType, div \in DivType
  PROVE  DivAfter \in DivType
<1>1. Half \in Word /\ WordMod - 1 \in Word /\ 0 \in Word /\ 1 \in Word
  BY WordModType DEF Word
<1>2. DivStart \in DivType
  BY <1>1, MagnitudeType DEF DivStart, RgType, DivType
<1>3. DivLoop1 \in DivType
  <2>1. 2 * div.denom2 \in Int /\ 2 * div.n \in Int
    BY WordModType DEF DivType, Word
  <2>2. (2 * div.denom2) % WordMod \in Word /\ (2 * div.n) % WordMod \in Word
    BY <2>1, ModType, Zenon
  <2>3. \A a, b \in Word : [div EXCEPT !.denom2 = a, !.n = b] \in DivType
    BY DEF DivType
  <2>4. [div EXCEPT !.state = "LOOP2"] \in DivType
    BY DEF DivType
  <2>5. CASE Loop1Doubles
    <3>1. DivLoop1 = [div EXCEPT !.denom2 = (2 * div.denom2) % WordMod,
                                 !.n = (2 * div.n) % WordMod]
      BY <2>5, Zenon DEF DivLoop1
    <3> QED
      BY <3>1, <2>2, <2>3, Zenon
  <2>6. CASE ~Loop1Doubles
    BY <2>6, <2>4, Zenon DEF DivLoop1
  <2> QED
    BY <2>5, <2>6
<1>4. DivLoop2 \in DivType
  <2>1. div.quo + div.n \in Int /\ div.quo \in Word /\ Neg(div.quo) \in Word
    BY WordFacts DEF DivType
  <2>2. (div.quo + div.n) % WordMod \in Word
    BY <2>1, ModType, Zenon
  <2>3. div.denom2 \div 2 \in Word /\ div.n \div 2 \in Word
    BY WordFacts DEF DivType
  <2>4. \A a, b \in Word : [div EXCEPT !.denom2 = a, !.n = b] \in DivType
    BY DEF DivType
  <2>5. \A a \in Word : /\ [div EXCEPT !.state = "DONE", !.quo = a] \in DivType
                        /\ [div EXCEPT !.quo = a] \in DivType
    BY DEF DivType
  <2>6. CASE Loop2Ends
    <3> DEFINE q == IF div.quoIsNeg THEN Neg(div.quo) ELSE div.quo
    <3>1. DivLoop2 = [div EXCEPT !.state = "DONE", !.quo = q]
      BY <2>6 DEF DivLoop2, Loop2Subtracts
    <3>2. q \in Word
      BY <2>1, Zenon
    <3> QED
      BY <3>1, <3>2, <2>5, Zenon
  <2>7. CASE ~Loop2Ends /\ Loop2Subtracts
    <3>1. DivLoop2 = [div EXCEPT !.quo = (div.quo + div.n) % WordMod]
      BY <2>7, Zenon DEF DivLoop2
    <3> QED
      BY <3>1, <2>2, <2>5, Zenon
  <2>8. CASE ~Loop2Ends /\ ~Loop2Subtracts
    <3>1. DivLoop2 = [div EXCEPT !.denom2 = div.denom2 \div 2, !.n = div.n \div 2]
      BY <2>8, Zenon DEF DivLoop2
    <3> QED
      BY <3>1, <2>3, <2>4, Zenon
  <2> QED
    BY <2>6, <2>7, <2>8
<1> QED
  BY <1>1, <1>2, <1>3, <1>4, ZenonT(60) DEF DivAfter, DivType, RgType

LEMMA RgAfterType ==
  ASSUME rg \in RgType, div \in DivType
  PROVE  RgAfter \in RgType
<1>1. rl_mul(rg) \in RgType
  BY ProductType DEF rl_mul, RgType
<1>2. 0 \in Word /\ Magnitude(rg.v1) \in Word /\ Magnitude(rg.v2) \in Word
  BY WordModType, MagnitudeType DEF Word, RgType
<1>3. Neg(rg.v1) \in Word
  BY WordFacts DEF RgType
<1>4. Loop2Subtracts => rg.v1 - div.denom2 \in Word
  BY WordModType DEF Loop2Subtracts, RgType, DivType, Word
<1> QED
  BY <1>1, <1>2, <1>3, <1>4 DEF RgAfter, RgType

LEMMA InitType == Init => TypeOK
  BY WordModType DEF Init, TypeOK, PowerUp, Word, F3

LEMMA NextType == TypeOK /\ [Next]_vars => TypeOK'
<1> SUFFICES ASSUME TypeOK, [Next]_vars PROVE TypeOK'
  OBVIOUS
<1>1. rg \in RgType /\ div \in DivType /\ pending \in Asked \cup {NoRequest}
  BY DEF TypeOK, RgType, DivType
<1>2. RgAfter \in RgType /\ DivAfter \in DivType
  BY <1>1, RgAfterType, DivAfterType
<1>3. rg' \in RgType /\ div' \in DivType /\ pending' \in Asked \cup {NoRequest}
  <2>1. CASE Edge \/ Abandon
    BY <1>1, <1>2, <2>1 DEF Edge, Abandon
  <2>2. ASSUME NEW r \in Asked, req(r)
        PROVE  rg' \in RgType /\ div' \in DivType /\ pending' \in Asked
    <3>1. r \in Requests /\ IsSigned(r.f3) \in BOOLEAN
      BY DEF IsSigned
    <3> QED
      BY <1>2, <2>2, <3>1 DEF req, Requests, RgType, DivType
  <2>3. CASE UNCHANGED vars
    BY <1>1, <2>3 DEF vars
  <2> QED
    BY <2>1, <2>2, <2>3 DEF Next
<1> QED
  BY <1>3 DEF TypeOK, RgType, DivType

(* The registers keep their widths.                                        *)
THEOREM TypeCorrect == Spec => []TypeOK
  BY InitType, NextType, PTL DEF Spec

-----------------------------------------------------------------------------
(* What the registers hold while a request is waited for.  Only n can be   *)
(* halved without a rest because it is a power of two, that is, in every   *)
(* set that holds 1 and the doubles of its members.                        *)
Doubling(S) == 1 \in S /\ \A x \in S : 2 * x \in Word => 2 * x \in S
PowersOfTwo == {x \in Word : \A S \in SUBSET Word : Doubling(S) => x \in S}

Mag(s, x) == IF s THEN Abs(x) ELSE x
QuotientIsNeg(r) == IsSigned(r.f3) /\ (r.v1 >= Half) # (r.v2 >= Half)
RemainderIsNeg(r) == IsSigned(r.f3) /\ r.v1 >= Half

InLoop(r) ==
    /\ rg.v2 = Mag(IsSigned(r.f3), r.v2) /\ rg.v2 > 0
    /\ Mag(IsSigned(r.f3), r.v1) = div.quo * rg.v2 + rg.v1
    /\ div.denom2 = div.n * rg.v2 /\ div.n \in PowersOfTwo
    /\ div.state = "LOOP1" => div.quo = 0
    /\ div.state = "LOOP2" => rg.v1 < 2 * div.denom2
    /\ div.quoIsNeg = QuotientIsNeg(r) /\ div.remIsNeg = RemainderIsNeg(r)

Divides(r) ==
    /\ div.state # "IDLE" /\ div.is_signed = IsSigned(r.f3)
    /\ div.state = "START" => rg.v1 = r.v1 /\ rg.v2 = r.v2
    /\ div.state \in {"LOOP1", "LOOP2"} => InLoop(r)
    /\ div.state = "DONE" => div.quo \in Quotient(r) /\ rg.v1 \in Remainder(r)

WorksOn(r) ==
    /\ rg.f3 = r.f3
    /\ rg.state = "DIV" <=> IsDivision(r.f3)
    /\ rg.state = "MUL" => rg.v1 = r.v1 /\ rg.v2 = r.v2
    /\ rg.state = "MUL2" => rg.v1 = Product(r.f3, r.v1, r.v2)
    /\ rg.state = "DIV" => Divides(r)

MBoxInv == TypeOK /\ (pending # NoRequest => WorksOn(pending))

-----------------------------------------------------------------------------
(* Powers of two.                                                          *)
LEMMA OneIsPower == 1 \in PowersOfTwo
  BY WordModType DEF PowersOfTwo, Doubling, Word

LEMMA DoubleIsPower ==
  ASSUME NEW x \in PowersOfTwo, 2 * x \in Word
  PROVE  2 * x \in PowersOfTwo
  BY DEF PowersOfTwo, Doubling

LEMMA PowerIsDouble ==
  ASSUME NEW x \in PowersOfTwo
  PROVE  x = 1 \/ \E y \in PowersOfTwo : x = 2 * y
<1> DEFINE S == {z \in PowersOfTwo : z = 1 \/ \E y \in PowersOfTwo : z = 2 * y}
<1>1. S \in SUBSET Word
  BY DEF PowersOfTwo
<1>2. 1 \in S
  BY OneIsPower
<1>3. ASSUME NEW z \in S, 2 * z \in Word PROVE 2 * z \in S
  <2>1. z \in PowersOfTwo
    OBVIOUS
  <2>2. 2 * z \in PowersOfTwo
    BY <1>3, <2>1, DoubleIsPower
  <2> QED
    BY <2>1, <2>2
<1>4. Doubling(S)
  BY <1>2, <1>3, Zenon DEF Doubling
<1>5. x \in S
  BY <1>1, <1>4, Zenon DEF PowersOfTwo
<1> QED
  BY <1>5

LEMMA PowerFacts ==
  ASSUME NEW x \in PowersOfTwo
  PROVE  /\ x \in Nat \ {0} /\ x \in Word
         /\ x # 1 => x \div 2 \in PowersOfTwo /\ x = 2 * (x \div 2)
<1>1. \A y \in PowersOfTwo : y \in Nat /\ y \in Word
  BY WordModType DEF PowersOfTwo, Word
<1>2. x # 0
  <2> DEFINE S == Word \ {0}
  <2>1. S \in SUBSET Word
    OBVIOUS
  <2>2. Doubling(S)
    BY WordModType, OneIsPower DEF Doubling, Word, PowersOfTwo
  <2>3. x \in S
    BY <2>1, <2>2, Zenon DEF PowersOfTwo
  <2> QED
    BY <2>3
<1>3. ASSUME x # 1 PROVE x \div 2 \in PowersOfTwo /\ x = 2 * (x \div 2)
  <2>1. PICK y \in PowersOfTwo : x = 2 * y
    BY <1>3, PowerIsDouble
  <2>2. y \in Nat
    BY <1>1
  <2>3. (2 * y) \div 2 = y
    BY <2>2
  <2> QED
    BY <2>1, <2>3
<1> QED
  BY <1>1, <1>2, <1>3

-----------------------------------------------------------------------------
(* Division of signed numbers by way of their magnitudes.                  *)
SignedQuo(a, b, quo) == IF (a < 0) # (b < 0) THEN -quo ELSE quo
SignedRem(a, rem) == IF a < 0 THEN -rem ELSE rem

LEMMA SignedDivision ==
  ASSUME NEW a \in Int, NEW b \in Int, b # 0, NEW quo \in Nat, NEW rem \in Nat,
         Magn(a) = quo * Magn(b) + rem, rem < Magn(b)
  PROVE  /\ IsQuotRem(a, b, SignedQuo(a, b, quo), SignedRem(a, rem))
         /\ a - SignedQuo(a, b, quo) * b = SignedRem(a, rem)
<1> DEFINE q == SignedQuo(a, b, quo)
           m == SignedRem(a, rem)
<1>0. /\ q \in Int /\ m \in Int
      /\ q = IF (a < 0) # (b < 0) THEN -quo ELSE quo
      /\ m = IF a < 0 THEN -rem ELSE rem
  BY DEF SignedQuo, SignedRem
<1> HIDE DEF q, m
<1>1. a = q * b + m
  <2>1. CASE a < 0 /\ b < 0
    BY <1>0, <2>1 DEF Magn
  <2>2. CASE a < 0 /\ b > 0
    BY <1>0, <2>2 DEF Magn
  <2>3. CASE a >= 0 /\ b < 0
    BY <1>0, <2>3 DEF Magn
  <2>4. CASE a >= 0 /\ b > 0
    BY <1>0, <2>4 DEF Magn
  <2> QED
    BY <2>1, <2>2, <2>3, <2>4
<1>2. Magn(m) < Magn(b)
  BY <1>0 DEF Magn
<1>3. m # 0 => (m < 0) = (a < 0)
  BY <1>0
<1>4. q * b \in Int
  BY <1>0
<1>5. IsQuotRem(a, b, q, m) /\ a - q * b = m
  BY <1>0, <1>1, <1>2, <1>3, <1>4 DEF IsQuotRem
<1> QED
  BY <1>5 DEF q, m

LEMMA ValueFacts ==
  ASSUME NEW r \in Requests, NEW x \in Word
  PROVE  /\ Value(r, x) \in Int /\ Value(r, x) % WordMod = x
         /\ Mag(IsSigned(r.f3), x) \in Word
         /\ Mag(IsSigned(r.f3), x) = Magn(Value(r, x))
         /\ (Value(r, x) < 0) = (IsSigned(r.f3) /\ x >= Half)
         /\ (Value(r, x) = 0) = (x = 0)
         /\ (Mag(IsSigned(r.f3), x) = 0) = (x = 0)
<1>1. /\ x \in Nat /\ x < WordMod /\ Abs(x) \in Word /\ Signed(x) \in Int
      /\ x % WordMod = x /\ Signed(x) % WordMod = x
  BY WordFacts
<1>2. Abs(x) = IF x >= Half THEN WordMod - x ELSE x
  <2>1. CASE x >= Half
    <3>1. WordMod - x \in 0 .. WordMod - 1
      BY <1>1, <2>1, WordModType
    <3>2. (WordMod - x) % WordMod = WordMod - x
      BY <3>1, WordModType, ModSmall
    <3> QED
      BY <2>1, <3>2 DEF Abs, Neg
  <2>2. CASE ~(x >= Half)
    BY <2>2 DEF Abs
  <2> QED
    BY <2>1, <2>2
<1>3. Signed(x) = IF x >= Half THEN x - WordMod ELSE x
  BY DEF Signed
<1>4. CASE IsSigned(r.f3)
  BY <1>1, <1>2, <1>3, <1>4, WordModType DEF Value, Mag, Magn
<1>5. CASE ~IsSigned(r.f3)
  BY <1>1, <1>5, WordModType DEF Value, Mag, Magn
<1> QED
  BY <1>4, <1>5

(* What the loops leave, with the signs put back, is the result.           *)
LEMMA LoopsEnd ==
  ASSUME NEW r \in Requests, NEW quo \in Word, NEW rem \in Word,
         Mag(IsSigned(r.f3), r.v1) = quo * Mag(IsSigned(r.f3), r.v2) + rem,
         rem < Mag(IsSigned(r.f3), r.v2)
  PROVE  /\ (IF QuotientIsNeg(r) THEN Neg(quo) ELSE quo) \in Quotient(r)
         /\ (IF RemainderIsNeg(r) THEN Neg(rem) ELSE rem) \in Remainder(r)
<1> DEFINE a == Value(r, r.v1)
           b == Value(r, r.v2)
           q == SignedQuo(a, b, quo)
           m == SignedRem(a, rem)
<1>1. /\ r.v1 \in Word /\ r.v2 \in Word
      /\ quo \in Nat /\ rem \in Nat /\ quo < WordMod
  BY WordModType DEF Requests, Word
<1>2. /\ a \in Int /\ Mag(IsSigned(r.f3), r.v1) = Magn(a)
      /\ (a < 0) = RemainderIsNeg(r)
  BY <1>1, ValueFacts DEF RemainderIsNeg
<1>3. /\ b \in Int /\ Mag(IsSigned(r.f3), r.v2) = Magn(b)
      /\ (b < 0) = (IsSigned(r.f3) /\ r.v2 >= Half)
  BY <1>1, ValueFacts
<1>4. b # 0
  BY <1>1, <1>3 DEF Magn
<1>5. QuotientIsNeg(r) = ((a < 0) # (b < 0))
  BY <1>2, <1>3 DEF QuotientIsNeg, RemainderIsNeg
<1>6. /\ q = IF QuotientIsNeg(r) THEN -quo ELSE quo
      /\ m = IF RemainderIsNeg(r) THEN -rem ELSE rem
  BY <1>2, <1>5 DEF SignedQuo, SignedRem
<1>7. IsQuotRem(a, b, q, m) /\ a - q * b = m
  <2>1. Magn(a) = quo * Magn(b) + rem /\ rem < Magn(b)
    BY <1>2, <1>3
  <2>2. a \in Int /\ b \in Int /\ quo \in Nat /\ rem \in Nat
    BY <1>1, <1>2, <1>3
  <2> HIDE DEF a, b
  <2> QED
    BY <1>4, <2>1, <2>2, SignedDivision, ZenonT(30)
<1>8. /\ q % WordMod = IF QuotientIsNeg(r) THEN Neg(quo) ELSE quo
      /\ m % WordMod = IF RemainderIsNeg(r) THEN Neg(rem) ELSE rem
  BY <1>6, WordFacts
<1>9. q % WordMod \in Word /\ m % WordMod \in Word
  BY <1>8, WordFacts
<1>10. q \in -1 * WordMod .. WordMod
  BY <1>1, <1>6, WordModType
<1> HIDE DEF a, b, q, m
<1>11. q % WordMod \in Quotient(r)
  BY <1>10, <1>4, <1>7, <1>9, Zenon DEF Quotient, a, b
<1>12. m % WordMod \in Remainder(r)
  BY <1>10, <1>4, <1>7, <1>9, Zenon DEF Remainder, a, b
<1> QED
  BY <1>8, <1>11, <1>12

-----------------------------------------------------------------------------
(* The results that take one edge.                                         *)
LEMMA ModShift ==
  ASSUME NEW x \in Int, NEW k \in Int
  PROVE  (x + WordMod * k) % WordMod = x % WordMod
<1> DEFINE d == x \div WordMod
           s == x % WordMod
<1>1. d \in Int /\ s \in 0 .. WordMod - 1 /\ s = x - WordMod * d
  BY WordModType, ModFacts
<1> HIDE DEF d, s
<1>2. x + WordMod * k = WordMod * (d + k) + s
  BY <1>1, WordModType
<1>3. \A q \in Int, t \in 0 .. WordMod - 1 : (WordMod * q + t) % WordMod = t
  BY WordModType, ModFacts
<1>4. d + k \in Int
  BY <1>1
<1>5. (x + WordMod * k) % WordMod = s
  BY <1>1, <1>2, <1>3, <1>4, Zenon
<1> QED
  BY <1>5 DEF s

LEMMA ProductRight ==
  ASSUME NEW r \in Requests, ~IsDivision(r.f3)
  PROVE  Product(r.f3, r.v1, r.v2) \in Results(r)
<1> DEFINE v == r.v1
           w == r.v2
           sv == Signed(r.v1)
           sw == Signed(r.v2)
<1>1. r.f3 \in 0 .. 3 /\ r.v1 \in Word /\ r.v2 \in Word
  BY DEF Requests, F3, IsDivision
<1>2. v \in Int /\ w \in Int /\ sv \in Int /\ sw \in Int
  BY <1>1, WordModType, WordFacts DEF Word
<1>3. CASE r.f3 = 0
  <2>1. PICK i \in {0, 1}, j \in {0, 1} :
            sv = v - WordMod * i /\ sw = w - WordMod * j
    BY <1>2, WordModType DEF Signed
  <2> HIDE DEF v, w, sv, sw
  <2>2. sv * sw = v * w + WordMod * (WordMod * i * j - v * j - w * i)
    BY <1>2, <2>1, WordModType
  <2>3. v * w \in Int /\ WordMod * i * j - v * j - w * i \in Int
    BY <1>2, WordModType
  <2>4. (v * w + WordMod * (WordMod * i * j - v * j - w * i)) % WordMod
           = (v * w) % WordMod
    BY <2>3, ModShift, Zenon
  <2>5. (sv * sw) % WordMod = (v * w) % WordMod
    BY <2>2, <2>4
  <2> QED
    BY <1>3, <2>5 DEF Product, Results, Factors, IsDivision, v, w, sv, sw
<1>4. CASE r.f3 = 1
  <2>1. sv * sw \in Int
    BY <1>2
  <2>2. HighWord(sv * sw) = ((sv * sw) \div WordMod) % WordMod
    BY <2>1, HighWordFact, Zenon
  <2> QED
    BY <1>4, <2>2 DEF Product, Results, Factors, IsDivision
<1>5. CASE r.f3 = 2
  <2>1. sv * w \in Int
    BY <1>2
  <2>2. HighWord(sv * w) = ((sv * w) \div WordMod) % WordMod
    BY <2>1, HighWordFact, Zenon
  <2> QED
    BY <1>5, <2>2 DEF Product, Results, Factors, IsDivision
<1>6. CASE r.f3 = 3
  <2>1. v * w \in Int
    BY <1>2
  <2>2. HighWord(v * w) = ((v * w) \div WordMod) % WordMod
    BY <2>1, HighWordFact, Zenon
  <2> QED
    BY <1>6, <2>2 DEF Product, Results, Factors, IsDivision
<1> QED
  BY <1>1, <1>3, <1>4, <1>5, <1>6

LEMMA ByZeroRight ==
  ASSUME NEW r \in Requests, r.v2 = 0
  PROVE  WordMod - 1 \in Quotient(r) /\ r.v1 \in Remainder(r)
<1> DEFINE a == Value(r, r.v1)
           b == Value(r, r.v2)
<1>1. r.v1 \in Word /\ r.v2 \in Word /\ WordMod - 1 \in Word
  BY WordModType DEF Requests, Word
<1>2. a \in Int /\ a % WordMod = r.v1 /\ b = 0
  BY <1>1, ValueFacts
<1>3. -1 \in -1 * WordMod .. WordMod /\ (-1) % WordMod = WordMod - 1
  <2>1. WordMod - 1 \in 0 .. WordMod - 1 /\ (WordMod - 1) - WordMod = -1
    BY WordModType
  <2>2. ((WordMod - 1) - WordMod) % WordMod = WordMod - 1
    BY <2>1, WordModType, ModSmall
  <2> QED
    BY <2>1, <2>2, WordModType
<1>4. IsQuotRem(a, b, -1, a)
  BY <1>2 DEF IsQuotRem
<1> HIDE DEF a, b
<1>5. WordMod - 1 \in Quotient(r)
  <2>1. IsQuotRem(a, b, -1, IF b = 0 THEN a ELSE a - (-1) * b)
    BY <1>2, <1>4
  <2> QED
    BY <1>1, <1>3, <2>1 DEF Quotient, a, b
<1>6. r.v1 \in Remainder(r)
  <2> DEFINE rem == IF b = 0 THEN a ELSE a - (-1) * b
  <2>1. rem = a
    BY <1>2
  <2>2. r.v1 = rem % WordMod /\ IsQuotRem(a, b, -1, rem)
    BY <1>2, <1>4, <2>1
  <2> QED
    BY <1>1, <1>3, <2>2 DEF Remainder, a, b
<1> QED
  BY <1>5, <1>6

LEMMA OverflowRight ==
  ASSUME NEW r \in Requests, IsSigned(r.f3), r.v1 = Half, r.v2 = WordMod - 1
  PROVE  Half \in Quotient(r) /\ 0 \in Remainder(r)
<1>1. Half \in Word /\ 0 \in Word /\ Half \in -1 * WordMod .. WordMod
  BY WordModType DEF Word
<1>2. Value(r, r.v1) = -Half /\ Value(r, r.v2) = -1
  BY WordModType DEF Value, Signed
<1>3. Half % WordMod = Half /\ 0 % WordMod = 0
  BY <1>1, WordModType, ModSmall DEF Word
<1>4. -Half - Half * (-1) = 0 /\ IsQuotRem(-Half, -1, Half, 0)
  BY DEF IsQuotRem, Magn
<1>5. Half \in Quotient(r)
  BY <1>1, <1>2, <1>3, <1>4 DEF Quotient
<1>6. 0 \in Remainder(r)
  BY <1>1, <1>2, <1>3, <1>4 DEF Remainder
<1> QED
  BY <1>5, <1>6

-----------------------------------------------------------------------------
(* One edge, while a division is waited for.                               *)
LEMMA StartKeeps ==
  ASSUME rg \in RgType, div \in DivType, NEW r \in Requests,
         Divides(r), rg.state = "DIV", div.state = "START",
         rg' = RgAfter, div' = DivAfter
  PROVE  Divides(r)' /\ rg'.state = "DIV" /\ rg'.f3 = rg.f3
<1>1. /\ rg.v1 = r.v1 /\ rg.v2 = r.v2 /\ div.is_signed = IsSigned(r.f3)
      /\ r.v1 \in Word /\ r.v2 \in Word /\ ~Blocked
  BY DEF Divides, Requests, Blocked
<1>2. CASE ByZero
  <2>1. ~Overflow /\ r.v2 = 0
    BY <1>1, <1>2, WordModType DEF ByZero, Overflow
  <2>2. div' = [div EXCEPT !.state = "DONE", !.quo = WordMod - 1] /\ rg' = rg
    BY <1>1, <1>2, <2>1 DEF DivAfter, RgAfter
  <2>3. div'.state = "DONE" /\ div'.quo = WordMod - 1 /\ div'.is_signed = div.is_signed
    BY <2>2 DEF DivType
  <2> QED
    BY <1>1, <2>1, <2>2, <2>3, ByZeroRight DEF Divides
<1>3. CASE Overflow
  <2>1. ~ByZero /\ IsSigned(r.f3) /\ r.v1 = Half /\ r.v2 = WordMod - 1
    BY <1>1, <1>3, WordModType DEF ByZero, Overflow
  <2>2. /\ div' = [div EXCEPT !.state = "DONE", !.quo = rg.v1]
        /\ rg' = [rg EXCEPT !.v1 = 0]
    BY <1>1, <1>3, <2>1 DEF DivAfter, RgAfter
  <2>3. /\ div'.state = "DONE" /\ div'.quo = Half /\ div'.is_signed = div.is_signed
        /\ rg'.v1 = 0 /\ rg'.state = "DIV" /\ rg'.f3 = rg.f3
    BY <1>1, <2>1, <2>2 DEF DivType, RgType
  <2> QED
    BY <1>1, <2>1, <2>3, OverflowRight DEF Divides
<1>4. CASE ~ByZero /\ ~Overflow
  <2>1. /\ div' = DivStart
        /\ rg' = [rg EXCEPT !.v1 = Magnitude(rg.v1), !.v2 = Magnitude(rg.v2)]
    BY <1>1, <1>4 DEF DivAfter, RgAfter
  <2>2. /\ rg'.v1 = Mag(IsSigned(r.f3), r.v1) /\ rg'.v2 = Mag(IsSigned(r.f3), r.v2)
        /\ rg'.state = "DIV" /\ rg'.f3 = rg.f3
    BY <1>1, <2>1 DEF RgType, Magnitude, Mag
  <2>3. /\ div'.state = "LOOP1" /\ div'.denom2 = Mag(IsSigned(r.f3), r.v2)
        /\ div'.n = 1 /\ div'.quo = 0 /\ div'.is_signed = IsSigned(r.f3)
        /\ div'.quoIsNeg = QuotientIsNeg(r) /\ div'.remIsNeg = RemainderIsNeg(r)
    BY <1>1, <2>1 DEF DivStart, Magnitude, Mag, QuotientIsNeg, RemainderIsNeg
  <2>4. r.v2 # 0
    BY <1>1, <1>4 DEF ByZero
  <2>5. /\ Mag(IsSigned(r.f3), r.v1) \in Word /\ Mag(IsSigned(r.f3), r.v2) \in Word
        /\ Mag(IsSigned(r.f3), r.v2) # 0
    BY <1>1, <2>4, ValueFacts
  <2>6. InLoop(r)'
    BY <2>2, <2>3, <2>5, OneIsPower, WordModType DEF InLoop, Word
  <2> QED
    BY <2>2, <2>3, <2>6 DEF Divides
<1> QED
  BY <1>2, <1>3, <1>4

(* In the loops everything stays below a word, so nothing is cut off.      *)
LEMMA LoopBounds ==
  ASSUME rg \in RgType, div \in DivType, NEW r \in Requests, InLoop(r)
  PROVE  /\ rg.v1 \in Nat /\ rg.v2 \in Nat \ {0} /\ div.quo \in Nat
         /\ div.denom2 \in Nat \ {0} /\ div.n \in Nat \ {0} /\ div.n <= div.denom2
         /\ rg.v1 < WordMod
         /\ (div.quo + div.n) * rg.v2 = div.quo * rg.v2 + div.denom2
         /\ Mag(IsSigned(r.f3), r.v1) < WordMod
<1>1. /\ rg.v1 \in Nat /\ rg.v2 \in Nat \ {0} /\ div.quo \in Nat /\ rg.v1 < WordMod
      /\ div.n \in Nat \ {0} /\ div.denom2 = div.n * rg.v2
  BY WordModType, PowerFacts DEF InLoop, RgType, DivType, Word
<1>2. div.n * rg.v2 >= div.n
  BY <1>1
<1>3. (div.quo + div.n) * rg.v2 = div.quo * rg.v2 + div.n * rg.v2
  BY <1>1
<1>4. Mag(IsSigned(r.f3), r.v1) < WordMod
  BY ValueFacts, WordModType DEF Requests, Word
<1> QED
  BY <1>1, <1>2, <1>3, <1>4

LEMMA Loop1Keeps ==
  ASSUME rg \in RgType, div \in DivType, NEW r \in Requests,
         Divides(r), rg.state = "DIV", div.state = "LOOP1",
         rg' = RgAfter, div' = DivAfter
  PROVE  Divides(r)' /\ rg'.state = "DIV" /\ rg'.f3 = rg.f3
<1>1. InLoop(r) /\ div.is_signed = IsSigned(r.f3)
  BY DEF Divides
<1>2. rg' = rg /\ div' = DivLoop1
  BY DEF RgAfter, DivAfter, Blocked, Overflow, ByZero
<1>3. CASE Loop1Doubles
  <2>1. 2 * div.denom2 \in Word /\ 2 * div.n \in Word
    BY <1>1, <1>3, LoopBounds, WordModType DEF Loop1Doubles, Word
  <2>2. /\ (2 * div.denom2) % WordMod = 2 * div.denom2
        /\ (2 * div.n) % WordMod = 2 * div.n
    BY <2>1, WordFacts
  <2>3. div' = [div EXCEPT !.denom2 = 2 * div.denom2, !.n = 2 * div.n]
    BY <1>2, <1>3, <2>2 DEF DivLoop1
  <2>4. /\ div'.state = "LOOP1" /\ div'.denom2 = 2 * div.denom2 /\ div'.n = 2 * div.n
        /\ div'.quo = div.quo /\ div'.is_signed = div.is_signed
        /\ div'.quoIsNeg = div.quoIsNeg /\ div'.remIsNeg = div.remIsNeg
    BY <2>3 DEF DivType
  <2>5. div'.n \in PowersOfTwo
    BY <1>1, <2>1, <2>4, DoubleIsPower DEF InLoop
  <2>6. div'.denom2 = div'.n * rg'.v2
    BY <1>1, <1>2, <2>4, LoopBounds DEF InLoop
  <2> QED
    BY <1>1, <1>2, <2>4, <2>5, <2>6 DEF InLoop, Divides
<1>4. CASE ~Loop1Doubles
  <2>1. /\ div'.state = "LOOP2" /\ div'.denom2 = div.denom2 /\ div'.n = div.n
        /\ div'.quo = div.quo /\ div'.is_signed = div.is_signed
        /\ div'.quoIsNeg = div.quoIsNeg /\ div'.remIsNeg = div.remIsNeg
    BY <1>2, <1>4 DEF DivLoop1, DivType
  <2>2. rg.v1 < 2 * div.denom2
    BY <1>1, <1>4, LoopBounds DEF Loop1Doubles
  <2> QED
    BY <1>1, <1>2, <2>1, <2>2 DEF InLoop, Divides
<1> QED
  BY <1>3, <1>4

LEMMA Loop2Keeps ==
  ASSUME rg \in RgType, div \in DivType, NEW r \in Requests,
         Divides(r), rg.state = "DIV", div.state = "LOOP2",
         rg' = RgAfter, div' = DivAfter
  PROVE  Divides(r)' /\ rg'.state = "DIV" /\ rg'.f3 = rg.f3
<1>1. InLoop(r) /\ div.is_signed = IsSigned(r.f3) /\ ~Blocked
  BY DEF Divides, Blocked
<1>2. div' = DivLoop2 /\ ~Overflow /\ ~ByZero
  BY <1>1 DEF DivAfter, Overflow, ByZero
<1>3. CASE Loop2Ends
  <2>1. /\ div'.state = "DONE" /\ div'.is_signed = div.is_signed
        /\ div'.quo = IF QuotientIsNeg(r) THEN Neg(div.quo) ELSE div.quo
    BY <1>1, <1>2, <1>3 DEF DivLoop2, DivType, Loop2Subtracts, InLoop
  <2>2. rg' = IF RemainderIsNeg(r) THEN [rg EXCEPT !.v1 = Neg(rg.v1)] ELSE rg
    BY <1>1, <1>2, <1>3 DEF RgAfter, Loop2Subtracts, InLoop
  <2>3. /\ rg'.v1 = IF RemainderIsNeg(r) THEN Neg(rg.v1) ELSE rg.v1
        /\ rg'.state = "DIV" /\ rg'.f3 = rg.f3
    BY <2>2 DEF RgType
  <2>4. div'.quo \in Quotient(r) /\ rg'.v1 \in Remainder(r)
    <3>1. div.quo \in Word /\ rg.v1 \in Word
      BY DEF DivType, RgType
    <3>2. /\ Mag(IsSigned(r.f3), r.v1) = div.quo * Mag(IsSigned(r.f3), r.v2) + rg.v1
          /\ rg.v1 < Mag(IsSigned(r.f3), r.v2)
      BY <1>1, <1>3 DEF InLoop, Loop2Ends
    <3>3. /\ (IF QuotientIsNeg(r) THEN Neg(div.quo) ELSE div.quo) \in Quotient(r)
          /\ (IF RemainderIsNeg(r) THEN Neg(rg.v1) ELSE rg.v1) \in Remainder(r)
      BY <3>1, <3>2, LoopsEnd, Zenon
    <3> QED
      BY <2>1, <2>3, <3>3
  <2> QED
    BY <1>1, <2>1, <2>3, <2>4 DEF Divides
<1>4. CASE Loop2Subtracts
  <2>1. ~Loop2Ends /\ rg.v1 >= div.denom2
    BY <1>4 DEF Loop2Subtracts
  <2>2. (div.quo + div.n) * rg.v2 < WordMod
    <3>1. /\ (div.quo + div.n) * rg.v2 = div.quo * rg.v2 + div.denom2
          /\ div.quo * rg.v2 + rg.v1 < WordMod /\ div.quo * rg.v2 \in Nat
          /\ rg.v1 \in Nat /\ div.denom2 \in Nat
      BY <1>1, LoopBounds DEF InLoop
    <3> QED
      BY <2>1, <3>1, WordModType
  <2>3. div.quo + div.n <= (div.quo + div.n) * rg.v2
    BY <1>1, LoopBounds
  <2>4. div.quo + div.n \in Word
    BY <1>1, <2>2, <2>3, LoopBounds, WordModType DEF Word
  <2>5. (div.quo + div.n) % WordMod = div.quo + div.n
    BY <2>4, WordFacts
  <2>6. /\ div'.state = "LOOP2" /\ div'.denom2 = div.denom2 /\ div'.n = div.n
        /\ div'.quo = div.quo + div.n /\ div'.is_signed = div.is_signed
        /\ div'.quoIsNeg = div.quoIsNeg /\ div'.remIsNeg = div.remIsNeg
    BY <1>2, <1>4, <2>1, <2>5 DEF DivLoop2, DivType
  <2>7. rg' = [rg EXCEPT !.v1 = rg.v1 - div.denom2]
    BY <1>1, <1>2, <1>4, <2>1 DEF RgAfter
  <2>8. /\ rg'.v1 = rg.v1 - div.denom2 /\ rg'.v2 = rg.v2
        /\ rg'.state = "DIV" /\ rg'.f3 = rg.f3
    BY <2>7 DEF RgType
  <2>9. div'.quo * rg'.v2 + rg'.v1 = div.quo * rg.v2 + rg.v1
    BY <1>1, <2>6, <2>8, LoopBounds
  <2>10. rg'.v1 < 2 * div'.denom2
    BY <1>1, <2>6, <2>8, LoopBounds DEF InLoop
  <2> QED
    BY <1>1, <2>6, <2>8, <2>9, <2>10 DEF InLoop, Divides
<1>5. CASE ~Loop2Ends /\ ~Loop2Subtracts
  <2>1. rg.v2 <= rg.v1 /\ rg.v1 < div.denom2
    BY <1>1, <1>5, LoopBounds DEF Loop2Ends, Loop2Subtracts
  <2>2. div.n # 1
    BY <1>1, <2>1, LoopBounds DEF InLoop
  <2>3. div.n \div 2 \in PowersOfTwo /\ div.n = 2 * (div.n \div 2)
    BY <1>1, <2>2, PowerFacts DEF InLoop
  <2>4. /\ div.denom2 \div 2 = (div.n \div 2) * rg.v2
        /\ div.denom2 = 2 * (div.denom2 \div 2)
    <3> DEFINE h == div.n \div 2
    <3>1. h \in Nat /\ div.n = 2 * h
      BY <2>3, PowerFacts
    <3> HIDE DEF h
    <3>2. div.denom2 = 2 * (h * rg.v2) /\ h * rg.v2 \in Nat
      BY <1>1, <3>1, LoopBounds DEF InLoop
    <3>3. \A k \in Nat : (2 * k) \div 2 = k
      OBVIOUS
    <3>4. div.denom2 \div 2 = h * rg.v2
      BY <3>2, <3>3
    <3> QED
      BY <3>2, <3>4 DEF h
  <2>5. /\ div'.state = "LOOP2" /\ div'.denom2 = div.denom2 \div 2
        /\ div'.n = div.n \div 2
        /\ div'.quo = div.quo /\ div'.is_signed = div.is_signed
        /\ div'.quoIsNeg = div.quoIsNeg /\ div'.remIsNeg = div.remIsNeg
    BY <1>2, <1>5 DEF DivLoop2, DivType
  <2>6. rg' = rg
    BY <1>1, <1>2, <1>5 DEF RgAfter
  <2> QED
    BY <1>1, <2>1, <2>3, <2>4, <2>5, <2>6 DEF InLoop, Divides
<1> QED
  BY <1>3, <1>4, <1>5

-----------------------------------------------------------------------------
(* The invariant.                                                          *)
LEMMA EdgeKeeps ==
  ASSUME rg \in RgType, div \in DivType, NEW r \in Requests,
         WorksOn(r), ~valid, rg' = RgAfter, div' = DivAfter
  PROVE  WorksOn(r)'
<1>1. rg.state \in {"MUL", "MUL2", "DIV"} /\ rg.state # "MUL2"
  BY DEF RgType, valid
<1>2. CASE rg.state = "MUL"
  <2>1. rg' = [rg EXCEPT !.state = "MUL2", !.v1 = Product(rg.f3, rg.v1, rg.v2)]
    BY <1>2, Zenon DEF RgAfter, Blocked, Overflow, rl_mul
  <2>2. /\ rg'.state = "MUL2" /\ rg'.f3 = rg.f3
        /\ rg'.v1 = Product(rg.f3, rg.v1, rg.v2)
    BY <2>1 DEF RgType
  <2> QED
    BY <1>2, <2>2 DEF WorksOn
<1>3. CASE rg.state = "DIV"
  <2>1. Divides(r) /\ IsDivision(r.f3) /\ rg.f3 = r.f3
    BY <1>3 DEF WorksOn
  <2>2. div.state \in {"START", "LOOP1", "LOOP2"}
    BY <1>3, <2>1 DEF Divides, valid, DivType
  <2>3. Divides(r)' /\ rg'.state = "DIV" /\ rg'.f3 = rg.f3
    BY <1>3, <2>1, <2>2, StartKeeps, Loop1Keeps, Loop2Keeps
  <2> QED
    BY <2>1, <2>3 DEF WorksOn
<1> QED
  BY <1>1, <1>2, <1>3

LEMMA ReqStarts ==
  ASSUME rg \in RgType, div \in DivType, NEW r \in Requests, req(r)
  PROVE  WorksOn(r)'
<1>1. /\ rg'.state = (IF IsDivision(r.f3) THEN "DIV" ELSE "MUL")
      /\ rg'.f3 = r.f3 /\ rg'.v1 = r.v1 /\ rg'.v2 = r.v2
  BY DEF req
<1>2. CASE IsDivision(r.f3)
  <2>1. div'.state = "START" /\ div'.is_signed = IsSigned(r.f3)
    BY <1>2, DivAfterType DEF req, DivType
  <2> QED
    BY <1>1, <1>2, <2>1 DEF WorksOn, Divides
<1>3. CASE ~IsDivision(r.f3)
  BY <1>1, <1>3 DEF WorksOn
<1> QED
  BY <1>2, <1>3

LEMMA InvHolds == Spec => []MBoxInv
<1>1. Init => MBoxInv
  BY InitType DEF MBoxInv, Init
<1>2. MBoxInv /\ [Next]_vars => MBoxInv'
  <2> SUFFICES ASSUME MBoxInv, [Next]_vars PROVE MBoxInv'
    OBVIOUS
  <2>1. TypeOK' /\ rg \in RgType /\ div \in DivType /\ pending \in Asked \cup {NoRequest}
    BY NextType DEF MBoxInv, TypeOK, RgType, DivType
  <2>2. CASE Edge
    <3>1. CASE valid
      BY <2>1, <2>2, <3>1 DEF Edge, MBoxInv
    <3>2. CASE ~valid /\ pending # NoRequest
      <4>1. /\ pending \in Requests /\ WorksOn(pending) /\ pending' = pending
            /\ rg' = RgAfter /\ div' = DivAfter
        BY <2>1, <2>2, <3>2 DEF Edge, MBoxInv
      <4>2. PICK r \in Requests : r = pending
        BY <4>1
      <4>3. WorksOn(r)'
        <5>1. WorksOn(r)
          BY <4>1, <4>2
        <5> QED
          BY <2>1, <3>2, <4>1, <5>1, EdgeKeeps
      <4> QED
        BY <2>1, <4>1, <4>2, <4>3 DEF MBoxInv
    <3>3. CASE ~valid /\ pending = NoRequest
      BY <2>1, <2>2, <3>3 DEF Edge, MBoxInv
    <3> QED
      BY <3>1, <3>2, <3>3
  <2>3. CASE Abandon
    BY <2>1, <2>3 DEF Abandon, MBoxInv
  <2>4. ASSUME NEW r \in Asked, req(r) PROVE MBoxInv'
    <3>1. r \in Requests /\ pending' = r
      BY <2>4 DEF req
    <3>2. WorksOn(r)'
      BY <2>1, <2>4, <3>1, ReqStarts
    <3> QED
      BY <2>1, <3>1, <3>2 DEF MBoxInv
  <2>5. CASE UNCHANGED vars
    BY <2>1, <2>5 DEF vars, MBoxInv, WorksOn, Divides, InLoop
  <2> QED
    BY <2>2, <2>3, <2>4, <2>5 DEF Next
<1> QED
  BY <1>1, <1>2, PTL DEF Spec

(* A division in progress has taken off the dividend what its quotient     *)
(* stands for, and cannot lose a bit of it (rules rl_loop1, rl_loop2).     *)
THEOREM LoopCorrect == Spec => []LoopInvariant
<1>1. MBoxInv => LoopInvariant
  <2> SUFFICES ASSUME MBoxInv, rg.state = "DIV", pending # NoRequest,
                      div.state \in {"LOOP1", "LOOP2"}
               PROVE  /\ rg.v2 = Magnitude(pending.v2) /\ rg.v2 > 0
                      /\ Magnitude(pending.v1) = div.quo * rg.v2 + rg.v1
                      /\ div.denom2 = div.n * rg.v2 /\ div.n > 0
                      /\ div.state = "LOOP2" => rg.v1 < 2 * div.denom2
                      /\ div.state = "LOOP1" => div.quo = 0
    BY DEF LoopInvariant, Dividing
  <2>1. InLoop(pending) /\ div.is_signed = IsSigned(pending.f3)
    BY DEF MBoxInv, WorksOn, Divides
  <2>2. div.n \in Nat \ {0}
    BY <2>1, PowerFacts DEF InLoop
  <2> QED
    BY <2>1, <2>2 DEF InLoop, Magnitude, Mag
<1> QED
  BY <1>1, InvHolds, PTL

(* The answer is the result of the request that is waited for.             *)
THEOREM AnswerCorrect == Spec => []ResultRight
<1>1. MBoxInv => ResultRight
  <2> SUFFICES ASSUME MBoxInv, pending # NoRequest, valid
               PROVE  word \in Results(pending)
    BY DEF ResultRight
  <2>1. WorksOn(pending) /\ pending \in Requests
    BY DEF MBoxInv, TypeOK
  <2>2. CASE rg.state = "MUL2"
    BY <2>1, <2>2, ProductRight DEF WorksOn, word
  <2>3. CASE rg.state = "DIV" /\ div.state = "DONE"
    BY <2>1, <2>3 DEF WorksOn, Divides, word, Results
  <2> QED
    BY <2>2, <2>3 DEF valid
<1> QED
  BY <1>1, InvHolds, PTL
=============================================================================
