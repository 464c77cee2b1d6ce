------------------------------ MODULE MCMoney ------------------------------
(* Money for TLC: every amount, rate and split up to a bound is a state, so *)
(* that the arithmetic is compared with its definition at each of them.     *)
EXTENDS Money, FiniteSets

CONSTANTS MaxCents, Rates

\* A commission is between nothing and the whole of an amount.
ASSUME MoneyShape == MaxCents \in Nat /\ Rates \subseteq 0..10000

VARIABLES
    cents,      \* an amount, in cents
    total,      \* what it is a share of
    rate        \* hundredths of a percent

moneyVars == <<cents, total, rate>>

MoneyInit == cents = 0 /\ total = 0 /\ rate \in Rates

MoneyNext ==
    \/ total < MaxCents /\ total' = total + 1 /\ UNCHANGED <<cents, rate>>
    \/ cents < total /\ cents' = cents + 1 /\ UNCHANGED <<total, rate>>

MoneySpec == MoneyInit /\ [][MoneyNext]_moneyVars

\* n is numerator / denominator rounded to the nearest whole, a tie upwards.
IsNearest(n, numerator, denominator) ==
    /\ 2 * (n * denominator - numerator) <= denominator
    /\ 2 * (numerator - n * denominator) < denominator

\* A column that formatCentsToMoney wrote is read back as the same amount by
\* parseMoneyToCents, on either side of zero.
FormatParses ==
    /\ ParseMoneyToCents(FormatCentsToMoney(cents)) = cents
    /\ ParseMoneyToCents(FormatCentsToMoney(cents - total)) = cents - total

\* The commission is the nearest cent to the seller's rate of the subtotal
\* (applyPercent), and a refund's share of it the nearest cent to the stored
\* ratio (applyRatio).
SplitIsNearest ==
    LET commission == ApplyPercent(total, rate)
    IN  /\ IsNearest(commission, total * rate, 10000)
        /\ total > 0 =>
              IsNearest(ApplyRatio(cents, commission, total),
                        cents * commission, total)

\* Two refunds that complete a line give the seller's commission back up to
\* the one cent that the two roundings may differ by.
TwoRefundsDriftOneCent ==
    LET commission == ApplyPercent(total, rate)
        drift == ApplyRatio(cents, commission, total)
                   + ApplyRatio(total - cents, commission, total) - commission
    IN  total > 0 => drift \in 0..1

\* The cents that are computed are the cents that are stored and those that are
\* given back (money.ts): FormatParses, SplitIsNearest, TwoRefundsDriftOneCent.
MoneyExact == FormatParses /\ SplitIsNearest /\ TwoRefundsDriftOneCent
=============================================================================
