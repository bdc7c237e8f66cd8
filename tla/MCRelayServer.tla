--------------------------- MODULE MCRelayServer ---------------------------
(***************************************************************************)
(* Instances of RelayServer for TLC: alice connects once and sends, bob's  *)
(* connections come and go.                                                *)
(***************************************************************************)
EXTENDS RelayServer, TLC

CONSTANTS alice, bob, a1

MCOwner == [k \in Conns |-> IF k = a1 THEN alice ELSE bob]
MCMaxSend == (alice :> 2) @@ (bob :> 0)
MCMaxSendBacklog == (alice :> 3) @@ (bob :> 0)

\* The connection at whose client end c is up is the one the relay routes to.
Routed(c) ==
  \E k \in Conns : clients[c] = k /\ cphase[k] \in {"up", "acking"}

Waiting(i) == \E r \in queue : r.id = i /\ Routed(r.to)

\* A queued envelope whose recipient has a route leaves the queue (it was
\* handled, by AtLeastOnce) or the recipient loses that route: none waits
\* forever for a connected recipient (_flush_queue and _try_deliver).
QueueDrains == \A i \in 1..MaxSend[alice] : Waiting(i) ~> ~Waiting(i)

\* The relay hands a sender's envelopes to a recipient in the order they were
\* sent: "The relay preserves send order for queued messages" (README.md:321).
SendOrder ==
  [][\A r \in handled' \ handled : \A q \in handled :
       (q.from = r.from /\ q.to = r.to) => q.n < r.n]_handled

\* A client that believes it is connected is routed to, or finds out that it
\* is not and reconnects (relay_client.py:1-3, "automatic reconnect").
ConnectedIsRouted ==
  \A k \in Conns :
    cphase[k] = "up" ~> (clients[Owner[k]] = k \/ cphase[k] = "closed")
============================================================================
