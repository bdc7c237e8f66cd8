-------------------------- MODULE StoreAndForward --------------------------
(***************************************************************************)
(* What a relay promises its users: at-least-once delivery.  An envelope   *)
(* it has accepted is kept until its recipient's client has handled it,    *)
(* and only then forgotten; a client that crashes between handling and     *)
(* acknowledging may handle it again, which changes nothing here.          *)
(***************************************************************************)
VARIABLES
  stored,   \* the envelopes the relay keeps
  done      \* the envelopes their recipients have handled

vars == <<stored, done>>

Init == stored = {} /\ done = {}

\* A new envelope: never one that was stored or handled before.
Accept(e) ==
  /\ e \notin stored \cup done
  /\ stored' = stored \cup {e}
  /\ UNCHANGED done

Handle(e) ==
  /\ e \in stored
  /\ done' = done \cup {e}
  /\ UNCHANGED stored

Forget(e) ==
  /\ e \in stored \cap done
  /\ stored' = stored \ {e}
  /\ UNCHANGED done

\* The envelopes a step adds or removes are bound by the sets it changes.
Next ==
  \/ \E e \in stored' : Accept(e)
  \/ \E e \in stored : Handle(e) \/ Forget(e)

Spec == Init /\ [][Next]_vars
============================================================================
