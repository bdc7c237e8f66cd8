----------------------------- MODULE MCSession -----------------------------
(***************************************************************************)
(* Instances of Session for TLC.                                           *)
(***************************************************************************)
EXTENDS Session, TLC

CONSTANTS alice, bob, carol

\* Who calls whom: both once, bob only ever answers, or alice calls again.
MCToBob == {<<alice, bob>>, <<carol, bob>>} \cap Pairs
MCCallBothWays == [c \in Pairs |-> 1]
MCCallTwice == [c \in Pairs |-> IF c[1] = alice THEN 2 ELSE 0]
MCCallBob == [c \in Pairs |-> IF c \in MCToBob THEN 1 ELSE 0]

MCSendAlice == [c \in Pairs |-> IF c[1] = alice THEN 2 ELSE 0]
MCSendOne == [c \in Pairs |-> 1]
MCSendBob == [c \in Pairs |-> IF c \in MCToBob THEN 2 ELSE 0]

MCFaults == [f \in FaultKinds |-> 1]
MCNoFaults == [f \in FaultKinds |-> 0]
============================================================================
