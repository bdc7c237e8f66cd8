----------------------------- MODULE WebSession -----------------------------
(***************************************************************************)
(* One direction of a session between two browsers, from the moment its    *)
(* responder has registered it: NetworkManager and RelayClient of          *)
(* static/js/network.js, RatchetSession of static/js/crypto.js.            *)
(*                                                                         *)
(* A browser runs one piece of code at a time, from one await to the next; *)
(* WebCrypto and IndexedDB resume the waiting ones in any order.  So every *)
(* call of sendText and every frame that onmessage was called with is a    *)
(* job that has got as far as its next await.                              *)
(*                                                                         *)
(* The relay between the two keeps a row until it is acknowledged.  It     *)
(* hands a row over live as it comes, and after a reconnect all it has     *)
(* left once more, in a flush, and nothing orders the one against the      *)
(* other (relay_server.py:343-344, 365-382).  Browsers are served by one   *)
(* loop, which runs the flush as a whole; a responder on the desktop       *)
(* client, whose protocol is the same, is served by a thread of its own,   *)
(* whose live row may come before, in or after the flush.  The rows of the *)
(* one responder go live in the order they came in: its own reconnects are *)
(* only frames that it loses.                                              *)
(***************************************************************************)
EXTENDS Naturals, Sequences

CONSTANTS
  MaxSend,    \* bound: messages sent
  MaxLosses,  \* bound: frames of the responder lost with its connection
  MaxLinks    \* bound: connections the initiator has to the relay

ASSUME WebAssumption == MaxSend \in Nat /\ MaxLosses \in Nat /\ MaxLinks \in Nat \ {0}

VARIABLES
  greeted,    \* the responder's onConnect ran, and its hello_ack was sent
  sent,       \* how many calls of sendText there were
  sending,    \* those that have not sent their frame
  sendKey,    \* sendChainKey, as the number of steps from the first
  sendIndex,
  losses,
  rows,       \* what reached the relay; a row's id is its position
  deleted,    \* the ids of the rows that are no longer there
  link,       \* the number of the initiator's connection to the relay
  routed,     \* the rows before this id, and it, were handed over live, or not at all
  due,        \* the flush of the connection has not read the queue
  flush,      \* the ids it read and has not handed over
  handed,     \* the ids that were handed over on the connection
  acks,       \* the acknowledgements sent on it and not processed
  hello,      \* _pendingEphemeral has the key of the initiator's hello
  connected,  \* the initiator's `connections` has the session
  receiving,  \* the frames it has not finished with
  recvKey, recvIndex,
  sealed,     \* every message encrypted (history)
  seen,       \* the ids that were handed over on any connection (history)
  shown,      \* the messages saved and shown, in order (history)
  causes      \* what went wrong (history)

responder == <<greeted, sent, sending, sendKey, sendIndex, losses>>
relay == <<rows, deleted, link, routed, due, flush, handed, acks>>
initiator == <<hello, connected, receiving, recvKey, recvIndex>>
history == <<sealed, seen, shown, causes>>
vars == <<responder, relay, initiator, history>>

----------------------------------------------------------------------------
\* A call of sendText is in ratchetStep, with the chain key it read, or past
\* it, with an index.
Sending == [n: 1..MaxSend, key: Nat, at: {"ratchet", "seal"}, index: Nat]

HelloAck == [type |-> "hello_ack"]
Msg == [type: {"msg"}, n: 1..MaxSend, key: Nat, index: Nat]

\* A frame in a handler: a hello_ack's session is being derived, a message's
\* handler awaits the fingerprint, the ratchet step or the plaintext.
Receiving == [id: Nat, link: 1..MaxLinks,
              at: {"derive", "fingerprint", "ratchet", "open"}, key: Nat]

Causes == {"sent together", "sent out of order", "lost", "before its session",
           "overtaken", "received together", "saved out of order", "in hand twice"}
Cause(condition, kind) == IF condition THEN {kind} ELSE {}

TypeOK ==
  /\ greeted \in BOOLEAN /\ hello \in BOOLEAN /\ connected \in BOOLEAN /\ due \in BOOLEAN
  /\ sent \in 0..MaxSend /\ losses \in 0..MaxLosses /\ link \in 1..MaxLinks
  /\ sending \subseteq Sending /\ receiving \subseteq Receiving
  /\ sendKey \in Nat /\ sendIndex \in Nat /\ recvKey \in Nat /\ recvIndex \in Nat
  /\ rows \in Seq(Msg \cup {HelloAck}) /\ routed \in 0..Len(rows)
  /\ deleted \subseteq 1..Len(rows) /\ flush \subseteq 1..Len(rows)
  /\ handed \subseteq seen /\ seen \subseteq 1..Len(rows) /\ acks \in Seq(handed)
  /\ \A r \in receiving : r.id \in 1..Len(rows)
  /\ sealed \subseteq [n: 1..MaxSend, key: Nat, index: Nat]
  /\ shown \in Seq(1..MaxSend) /\ causes \subseteq Causes

\* The initiator has sent its hello and the responder has derived its session
\* and put it into `connections`.
Init ==
  /\ greeted = FALSE /\ sent = 0 /\ sending = {} /\ sendKey = 0 /\ sendIndex = 0
  /\ losses = 0
  /\ rows = <<>> /\ deleted = {} /\ link = 1 /\ acks = <<>>
  /\ routed = 0 /\ due = FALSE /\ flush = {} /\ handed = {} /\ seen = {}
  /\ hello = TRUE /\ connected = FALSE /\ receiving = {} /\ recvKey = 0 /\ recvIndex = 0
  /\ sealed = {} /\ shown = <<>> /\ causes = {}

----------------------------------------------------------------------------
\* The responder.

\* relay.sendTo, whose result nobody looks at.
SendTo(frame) ==
  \/ /\ rows' = Append(rows, frame)
     /\ UNCHANGED <<losses, deleted, link, routed, due, flush, handed, acks>>
  \/ /\ losses < MaxLosses
     /\ losses' = losses + 1
     /\ UNCHANGED relay

Lost == losses' # losses
InRatchet == \E j \in sending : j.at = "ratchet"

\* k calls of sendText, each up to the await of its ratchetStep: they have
\* read the same chain key, and so has any other that is there.
Start(k) ==
  /\ sent + k <= MaxSend
  /\ sent' = sent + k
  /\ sending' = sending \cup
       {[n |-> sent + i, key |-> sendKey, at |-> "ratchet", index |-> 0] : i \in 1..k}

\* _registerConnection ends: onConnect sends the presence, and an avatar if the
\* user has one, and does not wait for either (app.js:387-388); then the
\* hello_ack is sent.  (With the bound used up, it is sent alone.)
Greet(k) ==
  /\ ~greeted
  /\ greeted' = TRUE
  /\ k = 0 => sent = MaxSend
  /\ Start(k)
  /\ SendTo(HelloAck)
  /\ causes' = causes \cup Cause(k > 1 \/ (k = 1 /\ InRatchet), "sent together")
                      \cup Cause(Lost, "lost")
  /\ UNCHANGED <<sendKey, sendIndex, initiator, sealed, seen, shown>>

\* The user, a typing ping, a read receipt, a group or a call sends.
SendText ==
  /\ Start(1)
  /\ causes' = causes \cup Cause(InRatchet, "sent together")
  /\ UNCHANGED <<greeted, sendKey, sendIndex, losses, relay, initiator, sealed, seen, shown>>

\* A version that keeps the chain key it had.
SameKey(key) == key

\* ratchetStep.
NextKey(key) == key + 1

\* encrypt goes on with what its ratchetStep returned.
Ratchet(j) ==
  /\ j.at = "ratchet"
  /\ sendKey' = NextKey(j.key)
  /\ sendIndex' = sendIndex + 1
  /\ sending' = (sending \ {j}) \cup {[j EXCEPT !.at = "seal", !.index = sendIndex]}
  /\ sealed' = sealed \cup {[n |-> j.n, key |-> j.key, index |-> sendIndex]}
  /\ UNCHANGED <<greeted, sent, losses, relay, initiator, seen, shown, causes>>

\* The message is encrypted, the session saved, and the frame is sent.
Transmit(j) ==
  /\ j.at = "seal"
  /\ SendTo([type |-> "msg", n |-> j.n, key |-> j.key, index |-> j.index])
  /\ sending' = sending \ {j}
  /\ causes' = causes \cup Cause(Lost, "lost")
                      \cup Cause(~greeted, "before its session")
                      \cup Cause(\E i \in sending : i.at = "seal" /\ i.index < j.index,
                                 "sent out of order")
  /\ UNCHANGED <<greeted, sent, sendKey, sendIndex, initiator, sealed, seen, shown>>

----------------------------------------------------------------------------
\* The initiator.

\* A version that acknowledges on whatever connection there is by now.
FinishedAnywhere(j, rest) ==
  /\ receiving' = rest
  /\ acks' = Append(acks, j.id)
  /\ UNCHANGED <<rows, deleted, link, routed, due, flush, handed>>

\* A handler is done: it acknowledges on the connection its frame came on, if
\* that is still the one there is.
Finished(j, rest) ==
  /\ receiving' = rest
  /\ acks' = IF j.link = link THEN Append(acks, j.id) ELSE acks
  /\ UNCHANGED <<rows, deleted, link, routed, due, flush, handed>>

Goes(j, to) == receiving' = (receiving \ {j}) \cup {to}

\* _try_deliver, called as a row comes in; it does not look whether the flush is
\* done with the rows before.
NextLive == {routed + 1} \cap 1..Len(rows)

\* _flush_queue reads what is left, once for a connection.
Select ==
  /\ due
  /\ due' = FALSE
  /\ flush' = 1..Len(rows) \ deleted
  /\ UNCHANGED <<responder, rows, deleted, link, routed, handed, acks, initiator, history>>

\* What it read goes out in order.
NextFlushed == {id \in flush : \A i \in flush : id <= i}

\* onmessage is called; it waits for no earlier call.  A hello_ack that no hello
\* waits for is acknowledged at once (network.js:250-252).
Deliver(id, live) ==
  LET job == [id |-> id, link |-> link, key |-> 0,
              at |-> IF rows[id] = HelloAck THEN "derive" ELSE "fingerprint"]
      taken == rows[id] = HelloAck => hello
  IN  /\ id \in IF live THEN NextLive ELSE NextFlushed
      /\ routed' = IF live THEN id ELSE routed
      /\ flush' = IF live THEN flush ELSE flush \ {id}
      /\ handed' = handed \cup {id}
      /\ seen' = seen \cup {id}
      /\ receiving' = IF taken THEN receiving \cup {job} ELSE receiving
      /\ acks' = IF taken THEN acks ELSE Append(acks, id)
      /\ hello' = (hello /\ rows[id] # HelloAck)
      /\ causes' = causes \cup Cause(taken /\ \E j \in receiving : j.id = id, "in hand twice")
                          \cup Cause(\E i \in 1..id - 1 : i \notin seen, "overtaken")
      /\ UNCHANGED <<responder, rows, deleted, link, due, connected, recvKey, recvIndex,
                     sealed, shown>>

\* _handleHelloAck has derived the session and registers it.
Register(j) ==
  /\ j.at = "derive"
  /\ connected' = TRUE
  /\ recvKey' = 0 /\ recvIndex' = 0
  /\ Finished(j, receiving \ {j})
  /\ UNCHANGED <<responder, hello, history>>

\* decrypt's check of the index.
Expected(frame) == frame.index = recvIndex

\* A version that derives the key of whatever index comes.
LookUpAnyIndex(j) ==
  /\ j.at = "fingerprint"
  /\ \/ /\ connected
        /\ Goes(j, [j EXCEPT !.at = "ratchet", !.key = rows[j.id].index])
        /\ UNCHANGED relay
     \/ /\ ~connected
        /\ Finished(j, receiving \ {j})
  /\ UNCHANGED <<responder, hello, connected, recvKey, recvIndex, history>>

\* _handleMsg looks the session up, and decrypt checks the index and reads the
\* chain key: without a session, or with another index, the message is dropped,
\* and acknowledged all the same.
LookUp(j) ==
  /\ j.at = "fingerprint"
  /\ \/ /\ connected /\ Expected(rows[j.id])
        /\ Goes(j, [j EXCEPT !.at = "ratchet", !.key = recvKey])
        /\ UNCHANGED relay
     \/ /\ ~(connected /\ Expected(rows[j.id]))
        /\ Finished(j, receiving \ {j})
  /\ causes' = causes \cup Cause(~connected, "before its session")
                      \cup Cause(\E i \in receiving :
                                   i.id < j.id /\ i.at \in {"fingerprint", "ratchet"},
                                 "received together")
  /\ UNCHANGED <<responder, hello, connected, recvKey, recvIndex, sealed, seen, shown>>

\* A version that moves the key on and not the index.
IndexKept(j) == recvIndex

\* decrypt moves the chain on before it knows whether the message opens.
IndexAfter(j) == recvIndex + 1

\* decrypt goes on with what its ratchetStep returned.
Advance(j) ==
  /\ j.at = "ratchet"
  /\ recvKey' = NextKey(j.key)
  /\ recvIndex' = IndexAfter(j)
  /\ Goes(j, [j EXCEPT !.at = "open"])
  /\ UNCHANGED <<responder, relay, hello, connected, history>>

\* The message is saved and shown, or its tag fails and _onRelayFrame drops it.
Open(j) ==
  /\ j.at = "open"
  /\ shown' = IF j.key = rows[j.id].key THEN Append(shown, rows[j.id].n) ELSE shown
  /\ Finished(j, receiving \ {j})
  /\ causes' = causes \cup Cause(\E i \in receiving :
                                   i.at = "open" /\ rows[i.id].index < rows[j.id].index,
                                 "saved out of order")
  /\ UNCHANGED <<responder, hello, connected, recvKey, recvIndex, sealed, seen>>

\* The connection is replaced after the relay has processed the first k
\* acknowledgements, and it reads none before its flush is out: the rows it has
\* left come again, whatever the handlers of the first connection are doing.
\* The rows up to m had come before the new one was registered.
Reconnect(k, m) ==
  /\ link < MaxLinks
  /\ due => k = 0
  /\ link' = link + 1
  /\ deleted' = deleted \cup {acks[i] : i \in 1..k}
  /\ routed' = m
  /\ due' = TRUE
  /\ flush' = {} /\ handed' = {} /\ acks' = <<>>
  /\ UNCHANGED <<responder, rows, initiator, history>>

----------------------------------------------------------------------------
SenderSteps == \/ \E k \in 0..2 : Greet(k)
               \/ \E j \in sending : Ratchet(j) \/ Transmit(j)
ReceiverSteps == \E j \in receiving : Register(j) \/ LookUp(j) \/ Advance(j) \/ Open(j)
Handover == Select \/ \E id \in 1..Len(rows), live \in BOOLEAN : Deliver(id, live)

Next ==
  \/ SendText
  \/ SenderSteps
  \/ Handover
  \/ ReceiverSteps
  \/ \E k \in 0..Len(acks), m \in routed..Len(rows) : Reconnect(k, m)

\* What a browser awaits comes, and the relay hands over what it has.
Spec == Init /\ [][Next]_vars
             /\ WF_vars(SenderSteps) /\ WF_vars(Handover) /\ WF_vars(ReceiverSteps)

----------------------------------------------------------------------------
\* Every message gets a key of its own (haven/crypto.py:20-22), unless a message
\* was sent while another was in its ratchetStep (crypto.js:335-337).
BrowserKeyUsedOnce ==
  \A e, f \in sealed : e.key = f.key => e = f \/ "sent together" \in causes

\* Histories show each message once and in the order of sending, whatever is
\* redelivered, lost or sent at once (README.md:321-327), unless a row came again
\* while it was in hand, or the plaintext of a later message before that of an
\* earlier one (network.js:64, 276-287).
BrowserShowsOnceInOrder ==
  \/ \A i, k \in 1..Len(shown) : i < k => shown[i] < shown[k]
  \/ causes \cap {"in hand twice", "saved out of order"} # {}

\* A message that was sent is shown, unless one of the causes came up: a
\* reconnect on its own loses nothing (README.md:80-81), as long as no live row
\* gets ahead of the flush it leads to (relay_server.py:343-344, 375-382).
Arrived(n) == \E i \in 1..Len(shown) : shown[i] = n
MessagesArrive ==
  \A n \in 1..MaxSend : sent >= n ~> Arrived(n) \/ causes # {}

\* The same without the exceptions: what these lines say.
FreshKeys == \A e, f \in sealed : e.key = f.key => e = f
ShownAtMostOnce == \A i, k \in 1..Len(shown) : shown[i] = shown[k] => i = k
AllArrive == \A n \in 1..MaxSend : sent >= n ~> Arrived(n)
============================================================================
