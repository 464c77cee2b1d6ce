----------------------------- MODULE Purchases ------------------------------
(***************************************************************************)
(* What checkout promises: a customer's idempotency key buys at most once, *)
(* each purchase is one indivisible step, and every unit in a purchase was *)
(* available when it was taken.  Checkout implements this specification.   *)
(***************************************************************************)
EXTENDS Naturals

CONSTANTS Customers, Keys, Products, OrderIds,
          MaxQuantity,   \* a bound on the units of one line
          InitialStock

VARIABLES
    receipts,   \* the orders of each customer and key: [id, lines]
    available   \* units of each product left

pvars == <<receipts, available>>

Lines == [Products -> 0..MaxQuantity]

PInit ==
    /\ receipts = [c \in Customers |-> [k \in Keys |-> {}]]
    /\ available = InitialStock

Buy(c, k, id, lines) ==
    /\ receipts[c][k] = {}
    /\ \A p \in Products : lines[p] <= available[p]
    /\ receipts' = [receipts EXCEPT ![c][k] = {[id |-> id, lines |-> lines]}]
    /\ available' = [p \in Products |-> available[p] - lines[p]]

PNext ==
    \E c \in Customers, k \in Keys, id \in OrderIds, lines \in Lines :
        Buy(c, k, id, lines)

PSpec == PInit /\ [][PNext]_pvars
=============================================================================
