----------------------------- MODULE MCAccounts -----------------------------
(***************************************************************************)
(* Instances of Accounts for TLC; alice may be written ALICE.              *)
(***************************************************************************)
EXTENDS Accounts, TLC

CONSTANTS alice, ALICE, bob, carol, b1, b2, pw1, pw2

MCLower == (alice :> alice) @@ (ALICE :> alice) @@ (bob :> bob) @@ (carol :> carol)
MCRank == (ALICE :> 1) @@ (alice :> 2) @@ (bob :> 3) @@ (carol :> 4)
============================================================================
