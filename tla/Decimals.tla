------------------------------ MODULE Decimals ------------------------------
(***************************************************************************)
(* The canonical encoding of source numbers that content hashes are taken  *)
(* of (identity.decimal_text), and the check that BigQuery's NUMERIC can   *)
(* store them unchanged (warehouse.model.numeric). A Decimal is a sign, a  *)
(* coefficient and an exponent of ten, as Python's; a text is its digits   *)
(* before the point, as a number, and its places after the point.          *)
(***************************************************************************)
EXTENDS Integers

CONSTANTS
    Decimal,    \* the finite decimals considered
    Precision,  \* no value has more places than this
    Whole,      \* NUMERIC(38,9): 29 digits before the point
    Places      \* and 9 after it

ASSUME DecimalAssumption ==
    /\ Precision \in Nat /\ Whole \in Nat /\ Places \in 0..Precision
    /\ \A x \in Decimal : /\ x.neg \in BOOLEAN
                          /\ x.coefficient \in Nat
                          /\ x.exponent \in Int
                          /\ -x.exponent <= Precision

PowerOfTen[n \in Nat] == IF n = 0 THEN 1 ELSE 10 * PowerOfTen[n - 1]

\* format(value, "f").
Fixed(x) ==
    IF x.exponent >= 0
    THEN [neg |-> x.neg, whole |-> x.coefficient * PowerOfTen[x.exponent], places |-> 0, part |-> 0]
    ELSE LET scale == PowerOfTen[-x.exponent]
         IN  [neg |-> x.neg, whole |-> x.coefficient \div scale,
              places |-> -x.exponent, part |-> x.coefficient % scale]

\* rstrip("0") after the point.
Stripped(text) ==
    LET zeros == CHOOSE k \in 0..text.places :
                     /\ text.part % PowerOfTen[k] = 0
                     /\ \A j \in 0..text.places : text.part % PowerOfTen[j] = 0 => j <= k
    IN  [text EXCEPT !.places = @ - zeros, !.part = @ \div PowerOfTen[zeros]]

Zero == [neg |-> FALSE, whole |-> 0, places |-> 0, part |-> 0]

\* Mutant: the sign of a zero and its places survive.
PlainText(x) == Stripped(Fixed(x))

decimal_text(x) == IF x.coefficient = 0 THEN Zero ELSE Stripped(Fixed(x))

\* numeric() accepts at most Whole digits before and Places after the point.
Numeric(x) ==
    LET text == decimal_text(x)
    IN  text.whole < PowerOfTen[Whole] /\ text.places <= Places

----------------------------------------------------------------------------

\* The value of a decimal, and of a text, in units of the last place.
Scaled(x) == (IF x.neg THEN -1 ELSE 1) * x.coefficient * PowerOfTen[x.exponent + Precision]
Read(text) ==
    (IF text.neg THEN -1 ELSE 1)
        * (text.whole * PowerOfTen[Precision] + text.part * PowerOfTen[Precision - text.places])

\* The one text of a number: no trailing zero, no negative zero.
IsNormal(text) ==
    /\ text.part \in 0..(PowerOfTen[text.places] - 1)
    /\ text.places > 0 => text.part % 10 # 0
    /\ text.whole = 0 /\ text.part = 0 => ~text.neg

\* The encoding of x is exact and normal, and numeric() accepts x exactly if
\* NUMERIC represents it.
EncodedExactly(x) ==
    /\ IsNormal(decimal_text(x))
    /\ Read(decimal_text(x)) = Scaled(x)
    /\ Numeric(x) <=> /\ Scaled(x) % PowerOfTen[Precision - Places] = 0
                      /\ Scaled(x) < PowerOfTen[Whole + Precision]
                      /\ -Scaled(x) < PowerOfTen[Whole + Precision]
=============================================================================
