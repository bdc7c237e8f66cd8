---------------------------- MODULE RelayServer ----------------------------
(***************************************************************************)
(* The store-and-forward relay (haven/relay_server.py) with the desktop    *)
(* client end of each connection (haven/relay_client.py).                  *)
(*                                                                         *)
(* Every accepted connection has a handler of its own: a thread for TCP, a *)
(* coroutine for a WebSocket.  The handlers share the SQLite queue (under  *)
(* _db_lock) and the routing table `clients` (under _clients_lock); a      *)
(* critical section is one action here, and a handler's own code between   *)
(* two of them is folded into the one that follows.  A connection is a     *)
(* pair of FIFO channels: `up` to the handler, `down` to the client.       *)
(***************************************************************************)
EXTENDS Naturals, Sequences, Functions

CONSTANTS
  Clients,      \* identities (public keys)
  Conns,        \* connections, each used once
  Owner,        \* Owner[k]: the identity that connection k registers
  WsConns,      \* the connections made over the WebSocket listener
  NoConn,       \* no handle: dict.get() returned None
  Cap,          \* frames a socket's buffers hold before a blocking send waits
  MaxSend,      \* bound: relay frames each identity sends
  MaxRestarts   \* bound: crashes of the relay process

ASSUME ConstAssumption ==
  /\ Owner \in [Conns -> Clients]
  /\ WsConns \subseteq Conns
  /\ NoConn \notin Conns
  /\ Cap \in Nat \ {0}
  /\ MaxSend \in [Clients -> Nat]
  /\ MaxRestarts \in Nat

VARIABLES
  queue,      \* the SQLite table `queue`: the rows not yet acknowledged
  lastId,     \* the AUTOINCREMENT counter of that table
  clients,    \* self.clients: identity -> connection, or NoConn
  hphase,     \* where connection k's handler stands
  closed,     \* the relay has closed its end of connection k
  work,       \* the rows k's handler still has to _try_deliver
  target,     \* the handle k's handler looked up and is about to send on
  cphase,     \* where the client end of connection k stands
  handled,    \* rows that reached their recipient's on_deliver (history)
  sent,       \* relay frames each identity has sent
  up, down,   \* frames in flight on k, to the handler and to the client
  restarts

serverVars == <<queue, lastId, clients, hphase, closed, work, target>>
clientVars == <<cphase, handled, sent>>
vars == <<serverVars, clientVars, up, down, restarts>>

----------------------------------------------------------------------------
\* Rows and frames.  A row's payload is opaque; `n`, the number its sender
\* gave it, tells two payloads apart and plays no part in the relay.

Row == [id: Nat, from: Clients, to: Clients, n: Nat]
RelayFrame == [type: {"relay"}, to: Clients, n: Nat]
AckFrame == [type: {"ack"}, id: Nat]
Registered == [type |-> "registered"]
Delivery(r) == [type |-> "relay", row |-> r]
UpFrame == RelayFrame \cup AckFrame
DownFrame == {Registered} \cup [type: {"relay"}, row: Row]

HandlerPhases == {"unused", "handshake", "registered", "select", "deliver",
                  "send", "serve", "frame", "done"}
ClientPhases == {"unused", "registering", "up", "acking", "closed"}

IsFirst(r, rows) == \A q \in rows : r.id <= q.id

RowsFor(c) == {r \in queue : r.to = c}

\* Where a handler goes once it has `rows` left to deliver.
AfterDelivery(rows) == IF rows = {} THEN "serve" ELSE "deliver"

TypeOK ==
  /\ queue \in SUBSET Row
  /\ lastId \in Nat
  /\ clients \in [Clients -> Conns \cup {NoConn}]
  /\ hphase \in [Conns -> HandlerPhases]
  /\ closed \in [Conns -> BOOLEAN]
  /\ work \in [Conns -> SUBSET Row]
  /\ target \in [Conns -> Conns \cup {NoConn}]
  /\ cphase \in [Conns -> ClientPhases]
  /\ handled \in SUBSET Row
  /\ sent \in [Clients -> Nat]
  /\ up \in [Conns -> Seq(UpFrame)]
  /\ down \in [Conns -> Seq(DownFrame)]
  /\ restarts \in Nat

Init ==
  /\ queue = {}
  /\ lastId = 0
  /\ clients = [c \in Clients |-> NoConn]
  /\ hphase = [k \in Conns |-> "unused"]
  /\ closed = [k \in Conns |-> FALSE]
  /\ work = [k \in Conns |-> {}]
  /\ target = [k \in Conns |-> NoConn]
  /\ cphase = [k \in Conns |-> "unused"]
  /\ handled = {}
  /\ sent = [c \in Clients |-> 0]
  /\ up = [k \in Conns |-> <<>>]
  /\ down = [k \in Conns |-> <<>>]
  /\ restarts = 0

----------------------------------------------------------------------------
\* The client end.  A RelayClient has one connection at a time.

\* _connect_and_serve up to its wait for "registered"; the relay accepts the
\* socket and starts a handler.
Connect(k) ==
  /\ cphase[k] = "unused"
  /\ \A j \in Conns : Owner[j] = Owner[k] => cphase[j] \in {"unused", "closed"}
  /\ cphase' = [cphase EXCEPT ![k] = "registering"]
  /\ hphase' = [hphase EXCEPT ![k] = "handshake"]
  /\ UNCHANGED <<queue, lastId, clients, closed, work, target, handled, sent,
                 up, down, restarts>>

\* The client's end of k is gone, and with it what it had not read.
CloseClient(k) ==
  /\ cphase' = [cphase EXCEPT ![k] = "closed"]
  /\ down' = [down EXCEPT ![k] = <<>>]

\* The frame after the proof: "registered", or anything else, on which the
\* client hangs up.
ReadReply(k) ==
  /\ cphase[k] = "registering"
  /\ down[k] # <<>>
  /\ \/ /\ Head(down[k]) = Registered
        /\ cphase' = [cphase EXCEPT ![k] = "up"]
        /\ down' = [down EXCEPT ![k] = Tail(@)]
     \/ /\ Head(down[k]) # Registered
        /\ CloseClient(k)
  /\ UNCHANGED <<serverVars, handled, sent, up, restarts>>

\* on_deliver(sender, payload), before the acknowledgement.
OnDeliver(k) ==
  /\ cphase[k] = "up"
  /\ down[k] # <<>>
  /\ handled' = handled \cup {Head(down[k]).row}
  /\ cphase' = [cphase EXCEPT ![k] = "acking"]
  /\ UNCHANGED <<serverVars, sent, up, down, restarts>>

\* A blocking socket takes a frame while its buffers have room; the websocket
\* transports buffer without bound.
CanWrite(k, channel) == k \in WsConns \/ Len(channel[k]) < Cap

\* The acknowledgement of the frame just handled.
SendAck(k) ==
  /\ cphase[k] = "acking"
  /\ CanWrite(k, up)
  /\ up' = [up EXCEPT ![k] =
              Append(@, [type |-> "ack", id |-> Head(down[k]).row.id])]
  /\ down' = [down EXCEPT ![k] = Tail(@)]
  /\ cphase' = [cphase EXCEPT ![k] = "up"]
  /\ UNCHANGED <<serverVars, handled, sent, restarts>>

\* send_to, from any thread of the client, to a contact.
SendTo(k, to) ==
  /\ cphase[k] \in {"up", "acking"}
  /\ to # Owner[k]
  /\ CanWrite(k, up)
  /\ sent[Owner[k]] < MaxSend[Owner[k]]
  /\ sent' = [sent EXCEPT ![Owner[k]] = @ + 1]
  /\ up' = [up EXCEPT ![k] =
              Append(@, [type |-> "relay", to |-> to, n |-> sent[Owner[k]] + 1])]
  /\ UNCHANGED <<serverVars, cphase, handled, down, restarts>>

\* The client stops, crashes, times out or loses its network.
Drop(k) ==
  /\ cphase[k] \in {"registering", "up", "acking"}
  /\ CloseClient(k)
  /\ UNCHANGED <<serverVars, handled, sent, up, restarts>>

\* recv or send fails because the relay's end is gone.
ConnectionLost(k) ==
  /\ hphase[k] = "done"
  /\ Drop(k)

----------------------------------------------------------------------------
\* The relay's handlers.

\* _do_handshake_* returns None or raises: nothing was registered.
HandshakeFails(k) ==
  /\ hphase[k] = "handshake"
  /\ hphase' = [hphase EXCEPT ![k] = "done"]
  /\ closed' = [closed EXCEPT ![k] = TRUE]
  /\ UNCHANGED <<queue, lastId, clients, work, target, clientVars, up, down,
                 restarts>>

\* Mutant: the queued rows are read first, and the handle installed after.
RegisterAfterSelect(k) ==
  /\ \/ /\ hphase[k] = "handshake"
        /\ work' = [work EXCEPT ![k] = RowsFor(Owner[k])]
        /\ hphase' = [hphase EXCEPT ![k] = "selected"]
        /\ UNCHANGED <<clients, closed, down>>
     \/ /\ hphase[k] = "selected"
        /\ clients' = [clients EXCEPT ![Owner[k]] = k]
        /\ closed' = [j \in Conns |-> closed[j] \/ j = clients[Owner[k]]]
        /\ down' = [down EXCEPT ![k] = Append(@, Registered)]
        /\ hphase' = [hphase EXCEPT ![k] = AfterDelivery(work[k])]
        /\ UNCHANGED work
  /\ UNCHANGED <<queue, lastId, target, clientVars, up, restarts>>

\* The proof is right: _register_client closes the identity's previous handle
\* and installs this one.
Register(k) ==
  /\ hphase[k] = "handshake"
  /\ LET old == clients[Owner[k]]
     IN  closed' = [j \in Conns |-> closed[j] \/ j = old]
  /\ clients' = [clients EXCEPT ![Owner[k]] = k]
  /\ hphase' = [hphase EXCEPT ![k] = "registered"]
  /\ UNCHANGED <<queue, lastId, work, target, clientVars, up, down, restarts>>

\* A write on k reaches the client unless either end has closed the socket.
Reachable(k) == ~closed[k] /\ cphase[k] # "closed"

\* The "registered" reply.  To a client that has just gone, the write may
\* still succeed.
SendRegistered(k) ==
  /\ hphase[k] = "registered"
  /\ ~closed[k]
  /\ \/ /\ Reachable(k)
        /\ CanWrite(k, down)
        /\ down' = [down EXCEPT ![k] = Append(@, Registered)]
     \/ ~Reachable(k) /\ UNCHANGED down
  /\ hphase' = [hphase EXCEPT ![k] = "select"]
  /\ UNCHANGED <<queue, lastId, clients, closed, work, target, clientVars, up,
                 restarts>>

\* Mutant: only the oldest row is fetched.
SelectOldest(k) ==
  /\ hphase[k] = "select"
  /\ LET rows == {r \in RowsFor(Owner[k]) : IsFirst(r, RowsFor(Owner[k]))}
     IN  /\ work' = [work EXCEPT ![k] = rows]
         /\ hphase' = [hphase EXCEPT ![k] = AfterDelivery(rows)]
  /\ UNCHANGED <<queue, lastId, clients, closed, target, clientVars, up, down,
                 restarts>>

\* The SELECT of _flush_queue.
SelectQueued(k) ==
  /\ hphase[k] = "select"
  /\ work' = [work EXCEPT ![k] = RowsFor(Owner[k])]
  /\ hphase' = [hphase EXCEPT ![k] = AfterDelivery(RowsFor(Owner[k]))]
  /\ UNCHANGED <<queue, lastId, clients, closed, target, clientVars, up, down,
                 restarts>>

\* _try_deliver of the oldest row in hand: the lookup, under _clients_lock.
Lookup(k) ==
  /\ hphase[k] = "deliver"
  /\ \E r \in work[k] :
       /\ IsFirst(r, work[k])
       /\ \/ /\ clients[r.to] = NoConn
             /\ work' = [work EXCEPT ![k] = @ \ {r}]
             /\ hphase' = [hphase EXCEPT ![k] = AfterDelivery(work[k] \ {r})]
             /\ UNCHANGED target
          \/ /\ clients[r.to] # NoConn
             /\ target' = [target EXCEPT ![k] = clients[r.to]]
             /\ hphase' = [hphase EXCEPT ![k] = "send"]
             /\ UNCHANGED work
  /\ UNCHANGED <<queue, lastId, clients, closed, clientVars, up, down, restarts>>

\* _try_deliver: the send, outside the lock, on a handle that may have been
\* closed since; OSError is swallowed.
Send(k) ==
  /\ hphase[k] = "send"
  /\ \E r \in work[k] :
       /\ IsFirst(r, work[k])
       /\ LET t == target[k]
          IN  \/ /\ Reachable(t)
                 /\ CanWrite(t, down)
                 /\ down' = [down EXCEPT ![t] = Append(@, Delivery(r))]
              \/ ~Reachable(t) /\ UNCHANGED down
       /\ work' = [work EXCEPT ![k] = @ \ {r}]
       /\ hphase' = [hphase EXCEPT ![k] = AfterDelivery(work[k] \ {r})]
  /\ target' = [target EXCEPT ![k] = NoConn]
  /\ UNCHANGED <<queue, lastId, clients, closed, clientVars, up, restarts>>

\* _recv_frame returns a frame; the handler has it in hand.
Recv(k) ==
  /\ hphase[k] = "serve"
  /\ ~closed[k]
  /\ up[k] # <<>>
  /\ hphase' = [hphase EXCEPT ![k] = "frame"]
  /\ UNCHANGED <<queue, lastId, clients, closed, work, target, clientVars, up,
                 down, restarts>>

\* Mutant: INTEGER PRIMARY KEY without AUTOINCREMENT: one more than the
\* largest id still in the table.
ReusedId ==
  IF queue = {} THEN 1 ELSE 1 + (CHOOSE r \in queue : \A q \in queue : q.id <= r.id).id

\* The id SQLite gives a new row: AUTOINCREMENT never gives one twice, even
\* once the row that had it is deleted.
NextId == lastId + 1

\* _handle_frame of a "relay" frame: the committed INSERT of _enqueue.
Enqueue(k) ==
  /\ hphase[k] = "frame"
  /\ Head(up[k]).type = "relay"
  /\ LET r == [id |-> NextId, from |-> Owner[k],
               to |-> Head(up[k]).to, n |-> Head(up[k]).n]
     IN  /\ queue' = queue \cup {r}
         /\ work' = [work EXCEPT ![k] = {r}]
  /\ lastId' = NextId
  /\ hphase' = [hphase EXCEPT ![k] = "deliver"]
  /\ up' = [up EXCEPT ![k] = Tail(@)]
  /\ UNCHANGED <<clients, closed, target, clientVars, down, restarts>>

\* _handle_frame of an "ack" frame: _delete_queued.
DeleteQueued(k) ==
  /\ hphase[k] = "frame"
  /\ Head(up[k]).type = "ack"
  /\ queue' = {r \in queue : r.id # Head(up[k]).id}
  /\ up' = [up EXCEPT ![k] = Tail(@)]
  /\ hphase' = [hphase EXCEPT ![k] = "serve"]
  /\ UNCHANGED <<lastId, clients, closed, work, target, clientVars, down, restarts>>

\* Mutant: whatever handle is on file is removed.
UnregisterAny(k) == clients' = [clients EXCEPT ![Owner[k]] = NoConn]

\* Mutant: the key is deleted and later read without a default.
UnregisterKey(k) ==
  clients' = [c \in {d \in DOMAIN clients : clients[d] # k} |-> clients[c]]

\* _unregister_client: only the handle on file is removed.
Unregister(k) ==
  clients' = IF clients[Owner[k]] = k
             THEN [clients EXCEPT ![Owner[k]] = NoConn] ELSE clients

\* What makes the handler's next socket call raise.  close() from another
\* thread does not wake a recv already blocked on a TCP socket: that one
\* returns only when a frame or the client's FIN arrives.
SocketFails(k) ==
  \/ cphase[k] = "closed"
  \/ hphase[k] = "registered" /\ closed[k]
  \/ hphase[k] = "serve" /\ closed[k] /\ (k \in WsConns \/ up[k] # <<>>)

\* The except and finally clauses of the handler.
HandlerExit(k) ==
  /\ hphase[k] \in {"registered", "serve"}
  /\ SocketFails(k)
  /\ Unregister(k)
  /\ hphase' = [hphase EXCEPT ![k] = "done"]
  /\ closed' = [closed EXCEPT ![k] = TRUE]
  /\ up' = [up EXCEPT ![k] = <<>>]
  /\ UNCHANGED <<queue, lastId, work, target, clientVars, down, restarts>>

\* The relay process dies and is started again on the same database file.
Restart ==
  /\ restarts < MaxRestarts
  /\ restarts' = restarts + 1
  /\ clients' = [c \in Clients |-> NoConn]
  /\ hphase' = [k \in Conns |-> IF hphase[k] = "unused" THEN "unused" ELSE "done"]
  /\ closed' = [k \in Conns |-> hphase[k] # "unused"]
  /\ work' = [k \in Conns |-> {}]
  /\ target' = [k \in Conns |-> NoConn]
  /\ up' = [k \in Conns |-> <<>>]
  /\ UNCHANGED <<queue, lastId, clientVars, down>>

----------------------------------------------------------------------------
ClientStep(k) ==
  ReadReply(k) \/ OnDeliver(k) \/ SendAck(k) \/ ConnectionLost(k)

HandlerStep(k) ==
  \/ Register(k) \/ SendRegistered(k) \/ SelectQueued(k)
  \/ Lookup(k) \/ Send(k)
  \/ Recv(k) \/ Enqueue(k) \/ DeleteQueued(k)
  \/ HandlerExit(k)

Next ==
  \/ \E k \in Conns :
       \/ Connect(k)
       \/ ClientStep(k)
       \/ \E to \in Clients : SendTo(k, to)
       \/ Drop(k)
       \/ HandshakeFails(k)
       \/ HandlerStep(k)
  \/ Restart

Spec == Init /\ [][Next]_vars

\* Threads that can run do run: the relay's handlers and the client's loop.
\* Nothing makes a client connect, send or fail.
Fairness ==
  \A k \in Conns : WF_vars(HandlerStep(k)) /\ WF_vars(ClientStep(k))

FairSpec == Spec /\ Fairness

----------------------------------------------------------------------------
\* What the relay guarantees.

\* Row r is on its way to the client at the end of connection k: in its
\* channel, or with a handler that will send it there, or its
\* acknowledgement is on its way back.
OnItsWay(r, k) ==
  \/ Delivery(r) \in Range(down[k])
  \/ [type |-> "ack", id |-> r.id] \in Range(up[k])
  \/ \E h \in Conns :
       /\ r \in work[h]
       /\ \/ hphase[h] = "deliver"
          \/ hphase[h] = "send" /\ (IsFirst(r, work[h]) => target[h] = k)

\* No stored envelope is stranded: once the connection on file for an identity
\* has finished its SELECT, every row queued for that identity is on its way
\* there, whatever the interleaving of the sender's enqueue-then-look-up with
\* the recipient's register-then-select (relay_server.py:195-197, 343-344).
NoStranded ==
  \A k \in Conns :
    (/\ hphase[k] \in {"deliver", "send", "serve", "frame"}
     /\ clients[Owner[k]] = k
     /\ cphase[k] # "closed")
    => \A r \in RowsFor(Owner[k]) : OnItsWay(r, k)

\* A live registration is never lost to another connection's cleanup: a
\* handler that registered, and that no later registration has closed, is the
\* one on file (the comment at relay_server.py:332-334).
RegistrationSurvives ==
  \A k \in Conns :
    (hphase[k] \notin {"unused", "handshake", "done"} /\ ~closed[k])
    => clients[Owner[k]] = k

\* At-least-once delivery, as StoreAndForward states it: the queue holds the
\* kept envelopes, on_deliver is their handling.  An envelope leaves the queue
\* only after its recipient has handled it (relay_client.py:98-100,
\* relay_server.py:345-346), across crashes of either side, lost connections,
\* duplicates and acknowledgements that arrive late.
Contract == INSTANCE StoreAndForward WITH stored <- queue, done <- handled
AtLeastOnce == Contract!Spec
============================================================================
