----------------------------- MODULE MCCheckout -----------------------------
(***************************************************************************)
(* Two customers compete for two products; one of them sends two requests, *)
(* under the same or different keys, and changes the cart meanwhile.       *)
(***************************************************************************)
EXTENDS Checkout, TLC

CONSTANTS alice, bob, lamp, vase, k1, k2, r1, r2, r3

MCCustomerOf == (r1 :> alice) @@ (r2 :> alice) @@ (r3 :> bob)
MCInitialCart == (alice :> ((lamp :> 1) @@ (vase :> 0)))
                   @@ (bob :> ((lamp :> 1) @@ (vase :> 1)))
\* The names of the keys do not matter, only which requests share one.
MCKeysOf == (r1 :> {k1}) @@ (r2 :> {k1, k2}) @@ (r3 :> {k1})
MCInitialStock == (lamp :> 2) @@ (vase :> 1)
MCLockOrder == (lamp :> 1) @@ (vase :> 2)
=============================================================================
