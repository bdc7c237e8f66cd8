----------------------------- MODULE MCContacts -----------------------------
(***************************************************************************)
(* Instances of Contacts for TLC.                                          *)
(***************************************************************************)
EXTENDS Contacts, TLC

MCSymmetry == Permutations(Relays)
============================================================================
