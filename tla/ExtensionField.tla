--------------------------- MODULE ExtensionField ---------------------------
(***************************************************************************)
(* algebra/fields/extension_field_element.*: pairs <<coef0, coef1>> for    *)
(* coef0 + coef1 * phi with phi^2 = phi + 1, over BaseField.  Templates of *)
(* the code over both fields are modelled over this one, where a base      *)
(* field element is its embedding.                                         *)
(***************************************************************************)
EXTENDS BaseField

Elements == Words \X Words

Embed(x) == <<x, BaseZero>>
Zero == Embed(BaseZero)
One == Embed(BaseOne)
Uint(val) == Embed(FromUint(val))

Add(a, b) == <<BaseAdd(a[1], b[1]), BaseAdd(a[2], b[2])>>

Sub(a, b) == <<BaseSub(a[1], b[1]), BaseSub(a[2], b[2])>>

\* Three multiplications of the base field; the first one is used twice.
MulFrom(coef0_mul, a, b) ==
  <<BaseAdd(coef0_mul, MontgomeryMul(a[2], b[2])),
    BaseSub(MontgomeryMul(BaseAdd(a[1], a[2]), BaseAdd(b[1], b[2])), coef0_mul)>>

Mul(a, b) == MulFrom(MontgomeryMul(a[1], b[1]), a, b)

\* By an element of the base field.
Scale(x, a) == <<MontgomeryMul(a[1], x), MontgomeryMul(a[2], x)>>

GetFrobenius(a) == <<BaseAdd(a[1], a[2]), BaseMinus(a[2])>>

Norm(a) ==
  BaseSub(BaseAdd(MontgomeryMul(a[1], a[1]), MontgomeryMul(a[1], a[2])),
          MontgomeryMul(a[2], a[2]))

\* The conjugate, divided by the norm.
InverseFrom(a, denom_inv) ==
  <<MontgomeryMul(BaseAdd(a[1], a[2]), denom_inv), MontgomeryMul(BaseMinus(a[2]), denom_inv)>>

InverseOf(a) == InverseFrom(a, BaseInverse(Norm(a)))

Div(a, b) == Mul(a, InverseOf(b))

Pow(base, exp) == PowOf(Elements, Mul, One, base, exp)

\* The sum of term(1), ..., term(n), and the product of factor(1), ..., factor(n).
SumOf(n, term(_)) ==
  LET sum[k \in 1 .. n + 1, acc \in Elements] ==
        IF k > n THEN acc ELSE sum[k + 1, Add(acc, term(k))]
  IN  sum[1, Zero]

ProductOf(n, factor(_)) ==
  LET product[k \in 1 .. n + 1, acc \in Elements] ==
        IF k > n THEN acc ELSE product[k + 1, Mul(acc, factor(k))]
  IN  product[1, One]
=============================================================================
