----------------------------- MODULE MCAccounts -----------------------------
(***************************************************************************)
(* One user, whose browser has two tabs, and three things that go wrong or *)
(* that the user does: a token is issued for each at most twice, and for   *)
(* the activation in each tab.                                             *)
(***************************************************************************)
EXTENDS Accounts

CONSTANTS ann, tab1, tab2

MCTokens == 1..8
=============================================================================
