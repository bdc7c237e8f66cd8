----------------------------- MODULE LossyFifo -----------------------------
(***************************************************************************)
(* What a ratchet session promises the two histories it connects: messages *)
(* may be lost, but those that appear do so once and in the order in which *)
(* they were sent.                                                         *)
(***************************************************************************)
EXTENDS Naturals, Sequences

CONSTANT Pairs   \* the one-way conversations

VARIABLES
  sent,    \* sent[c]: how many messages were sent in conversation c
  shown    \* shown[c]: the numbers of those that appeared, as they did

Init ==
  /\ sent = [c \in Pairs |-> 0]
  /\ shown = [c \in Pairs |-> <<>>]

Send(c) ==
  /\ sent' = [sent EXCEPT ![c] = @ + 1]
  /\ UNCHANGED shown

Show(c) ==
  \E n \in 1..sent[c] :
    /\ \A i \in DOMAIN shown[c] : shown[c][i] < n
    /\ shown' = [shown EXCEPT ![c] = Append(@, n)]
    /\ UNCHANGED sent

Next == \E c \in Pairs : Send(c) \/ Show(c)

vars == <<sent, shown>>

Spec == Init /\ [][Next]_vars
============================================================================
