------------------------------- MODULE Money -------------------------------
(***************************************************************************)
(* The money arithmetic of common/utils/money.ts.  Amounts are integer     *)
(* cents (bigint in the code, so no width applies); a `numeric(12,2)`      *)
(* column is read and written as a decimal string, modelled here as its    *)
(* sign, its whole part and the sequence of its fraction digits.           *)
(***************************************************************************)
EXTENDS Integers, Sequences

\* A decimal string as parseMoneyToCents takes it apart.
Decimal == [negative : BOOLEAN, whole : Nat, fraction : Seq(0..9)]

\* The value parseMoneyToCents throws with instead of returning cents.
NotMoney == "NotMoney"

\* padEnd(2, '0') and BigInt: one digit is tenths, none is zero.
FractionCents(fraction) ==
    CASE Len(fraction) = 0 -> 0
      [] Len(fraction) = 1 -> 10 * fraction[1]
      [] OTHER             -> 10 * fraction[1] + fraction[2]

ParseMoneyToCents(d) ==
    LET cents == 100 * d.whole + FractionCents(d.fraction)
    IN  IF Len(d.fraction) > 2 THEN NotMoney
        ELSE IF d.negative THEN -cents ELSE cents

\* Always two fraction digits (padStart) and a sign only below zero.
FormatCentsToMoney(cents) ==
    LET abs == IF cents < 0 THEN -cents ELSE cents
    IN  [ negative |-> cents < 0,
          whole    |-> abs \div 100,
          fraction |-> << (abs % 100) \div 10, abs % 10 >> ]

MultiplyCentsByQuantity(unitPriceCents, quantity) == unitPriceCents * quantity

\* Mutant: the plain bigint division.
RoundHalfUpDivide_Truncated(numerator, denominator) == numerator \div denominator

\* Integer division of non-negative amounts, the half cent going up.
RoundHalfUpDivide(numerator, denominator) ==
    LET quotient  == numerator \div denominator
        remainder == numerator % denominator
    IN  IF remainder * 2 >= denominator THEN quotient + 1 ELSE quotient

\* A rate such as "10.00" parses to 1000 hundredths of a percent.
ApplyPercent(cents, percentHundredths) ==
    RoundHalfUpDivide(cents * percentHundredths, 10000)

\* amount * numerator / denominator; zero when there is nothing to split.
ApplyRatio(amount, numerator, denominator) ==
    IF denominator = 0 THEN 0
    ELSE RoundHalfUpDivide(amount * numerator, denominator)
=============================================================================
