------------------------------ MODULE MCCalls -------------------------------
(***************************************************************************)
(* Instances of Calls for TLC: alice and bob.                              *)
(***************************************************************************)
EXTENDS Calls, TLC

CONSTANTS alice, bob

MCOther == (alice :> bob) @@ (bob :> alice)
MCSymmetry == Permutations({alice, bob})
============================================================================
