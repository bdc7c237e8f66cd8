------------------------------ MODULE MCGroups ------------------------------
(***************************************************************************)
(* Instances of Groups for TLC: alice creates the group.                   *)
(***************************************************************************)
EXTENDS Groups, TLC

CONSTANTS alice, bob, carol

MayDo(alices, bobs) ==
  [p \in Peers |-> IF p = alice THEN alices ELSE IF p = bob THEN bobs ELSE {}]

\* alice adds, removes and sends, bob removes and sends.
MCBusy == MayDo({"add", "remove", "send"}, {"remove", "send"})
MCQuiet == MayDo({}, {})
MCRemoval == MayDo({"remove"}, {"send"})
============================================================================
