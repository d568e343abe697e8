---------------------------- MODULE UsageDecimals ----------------------------
(***************************************************************************)
(* The decimal numbers of metering (models.py, _decimal.py, _canonical.py) *)
(* and what Python's decimal arithmetic makes of them: a number is a       *)
(* coefficient c and an exponent e and stands for c * 10^e, so that 2.00   *)
(* and 2 are one quantity and two decimals.                                *)
(***************************************************************************)
EXTENDS Integers

CONSTANTS MaxDigits,                \* of an input, 1000 in the code
          StoreInteger, StoreScale  \* Decimal(76, 18): 58 and 18

ASSUME DecimalsAssumption ==
  /\ MaxDigits \in Nat \ {0}
  /\ {StoreInteger, StoreScale} \subseteq Nat

Decimal == [c : Int, e : Int]

Zero == [c |-> 0, e |-> 0]

Abs(n) == IF n < 0 THEN -n ELSE n

Larger(m, n) == IF m > n THEN m ELSE n

Smaller(m, n) == IF m < n THEN m ELSE n

\* The powers of ten.
TenTo[n \in Nat] == IF n = 0 THEN 1 ELSE 10 * TenTo[n - 1]

\* The digits of a coefficient; zero has one.
Digits(c) ==
  CHOOSE n \in 1 .. Abs(c) + 1 :
    Abs(c) < TenTo[n] /\ \A m \in 1 .. n - 1 : Abs(c) >= TenTo[m]

\* Decimal.adjusted: the place of the first digit.
Adjusted(d) == d.e + Digits(d.c) - 1

\* decimal_value: every zero becomes the plain one.
Canonical(d) == IF d.c = 0 THEN Zero ELSE d

\* decimal_value accepts the number.
Bounded(d) == Digits(d.c) <= MaxDigits /\ Abs(Adjusted(d)) <= MaxDigits

Times(a, b) == [c |-> a.c * b.c, e |-> a.e + b.e]

Plus(a, b) ==
  LET e == Smaller(a.e, b.e) IN
  [c |-> a.c * TenTo[a.e - e] + b.c * TenTo[b.e - e], e |-> e]

\* Two decimals are numerically equal.
Equals(a, b) ==
  LET e == Smaller(a.e, b.e) IN
  a.c * TenTo[a.e - e] = b.c * TenTo[b.e - e]

\* The coefficient of the number at a scale, where it has one.
Integral(d, scale) == d.e + scale >= 0 \/ d.c % TenTo[-(d.e + scale)] = 0

AtScale(d, scale) ==
  IF d.e + scale >= 0 THEN d.c * TenTo[d.e + scale]
                      ELSE d.c \div TenTo[-(d.e + scale)]

\* The digits before the point, of which a number has at least one.
IntegerDigits(d) == IF d.c = 0 THEN 1 ELSE Larger(1, Adjusted(d) + 1)

\* storage_decimal: the number fits the columns of the events resource.
Storable(d) ==
  Integral(d, StoreScale) /\ IntegerDigits(d) <= StoreInteger
=============================================================================
