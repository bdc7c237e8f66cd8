--------------------------- MODULE MCLocalAccount ---------------------------
(***************************************************************************)
(* Instances of LocalAccount for TLC.                                      *)
(***************************************************************************)
EXTENDS LocalAccount, TLC

CONSTANTS p1, p2, f1, f2

MCSymmetry == Permutations(Passwords) \cup Permutations(BackupFiles)
============================================================================
