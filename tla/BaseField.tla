------------------------------ MODULE BaseField ------------------------------
(***************************************************************************)
(* algebra/fields/base_field_element.*, algebra/field_operations.*: the    *)
(* prime field of Rescue.  An element is kept in one word, as x times the  *)
(* word's size modulo kModulus (Montgomery form).                          *)
(***************************************************************************)
EXTENDS Integers

CONSTANTS
  kModulus,         \* 2^61 + 20 * 2^32 + 1 in the code
  WordBits,         \* 64 in the code, so that there is room for a sign bit
  GeneratorUint,    \* 3 in the code
  kMontgomeryR, kMontgomeryRSquared, kMontgomeryRCubed, kMontgomeryMPrime

Word == 2 ^ WordBits
Words == 0 .. Word - 1

ASSUME FieldAssumption ==
  /\ kModulus \in Nat \ {0, 1} /\ kModulus % 2 = 1
  /\ WordBits \in Nat /\ Word \in Nat /\ Word % 2 = 0 /\ 2 * kModulus < Word \div 2
  /\ kMontgomeryR = Word % kModulus
  /\ kMontgomeryRSquared = (kMontgomeryR * kMontgomeryR) % kModulus
  /\ kMontgomeryRCubed = (kMontgomeryRSquared * kMontgomeryR) % kModulus
  /\ kMontgomeryMPrime \in Words /\ (kMontgomeryMPrime * kModulus) % Word = Word - 1

-----------------------------------------------------------------------------
(* Arithmetic on words. *)

BaseZero == 0
BaseOne == kMontgomeryR

TopBit(val) == val >= Word \div 2
IsNegative(val) == TopBit(val)

ReduceIfNeeded(val) ==
  IF IsNegative((val - kModulus) % Word) THEN val ELSE (val - kModulus) % Word

MontgomeryMul(x, y) ==
  LET mul_res == x * y
      u == ((mul_res % Word) * kMontgomeryMPrime) % Word
  IN  ReduceIfNeeded((kModulus * u + mul_res) \div Word)

BaseAdd(x, y) == ReduceIfNeeded((x + y) % Word)

BaseSub(x, y) ==
  LET val == (x - y) % Word IN
  IF IsNegative(val) THEN (val + kModulus) % Word ELSE val

BaseMinus(x) == BaseSub(BaseZero, x)

FromUint(val) == MontgomeryMul(val, kMontgomeryRSquared)

ToStandardForm(x) == MontgomeryMul(x, 1)

BaseGenerator == FromUint(GeneratorUint)

-----------------------------------------------------------------------------
(* Inverse: a binary greatest common divisor of the element and kModulus.   *)

\* Mutant: reduced on a carry only.
DoubledWithCarry(coef) ==
  IF TopBit(coef) THEN (coef + coef - kModulus) % Word ELSE (coef + coef) % Word

DoubledCoef(coef) ==
  IF TopBit(coef) \/ (coef + coef) % Word >= kModulus THEN (coef + coef - kModulus) % Word
  ELSE (coef + coef) % Word

\* Pairs are <<val, coef>>, where val is coef times the element.  The inner loop doubles u
\* for as long as its value stays below v's.
DoubledBelow(u, v) ==
  LET double[val \in Words, coef \in Words] ==
        IF TopBit(val) \/ (val + val) % Word >= v[1] THEN <<val, coef>>
        ELSE double[(val + val) % Word, DoubledCoef(coef)]
  IN  double[u[1], u[2]]

Subtract(v, shifted) ==
  LET res == (v[2] - shifted[2]) % Word IN
  <<v[1] - shifted[1], IF v[2] < res THEN (res + kModulus) % Word ELSE res>>

\* The larger one is reduced by the smaller one, with which it is exchanged if it is not v.
GcdCoef(value) ==
  LET reduce[u \in Words \X Words, v \in Words \X Words] ==
        IF v[1] <= 1 THEN v[2]
        ELSE IF u[1] >= v[1] THEN reduce[v, Subtract(u, DoubledBelow(v, u))]
        ELSE reduce[u, Subtract(v, DoubledBelow(u, v))]
  IN  reduce[<<value, 1>>, <<kModulus, 0>>]

BaseInverse(x) == MontgomeryMul(GcdCoef(x), kMontgomeryRCubed)

-----------------------------------------------------------------------------
(* Powers, of any elements that Times multiplies. *)

PowOf(elements, Times(_, _), one, base, exponent) ==
  LET pow[exp \in Nat, power \in elements, res \in elements] ==
        IF exp = 0 THEN res
        ELSE pow[exp \div 2, Times(power, power), IF exp % 2 = 1 THEN Times(res, power) ELSE res]
  IN  pow[exponent, base, one]

BasePow(base, exp) == PowOf(Words, MontgomeryMul, BaseOne, base, exp)

GetSubGroupGenerator(n) == BasePow(BaseGenerator, (kModulus - 1) \div n)
=============================================================================
