------------------------------ MODULE Session ------------------------------
(***************************************************************************)
(* Sessions over a relay: NetworkManager's handshake and the in-order      *)
(* ratchet it sets up (haven/network.py, haven/crypto.py).                 *)
(*                                                                         *)
(* Each desktop runs one relay thread, which hands it the rows the relay   *)
(* keeps for it one at a time, and any number of other threads (the window,*)
(* group fan-out) that connect and send.  The relay appears here as module *)
(* RelayServer shows it: per recipient, a list of rows in id order, each   *)
(* kept until the recipient's acknowledgement is processed and handed out  *)
(* again from the oldest when the recipient's connection is replaced.      *)
(* Nobody removes the relay: the handlers' early return for one that has   *)
(* been detached (network.py:156-158, 194-196) never comes.                *)
(***************************************************************************)
EXTENDS Naturals, Sequences, FiniteSets, Functions

CONSTANTS
  Peers,       \* accounts
  MaxCalls,    \* bound: MaxCalls[<<p, q>>], times p's threads go past the checks
               \* of connect_relay(q)
  MaxSend,     \* bound: MaxSend[<<p, q>>], messages p sends q
  MaxFaults    \* bound: faults of each kind

FaultKinds == {"loss", "reconnect", "restart"}

\* The one-way conversations.
Pairs == {c \in Peers \X Peers : c[1] # c[2]}

ASSUME SessionAssumption ==
  /\ MaxCalls \in [Pairs -> Nat]
  /\ MaxSend \in [Pairs -> Nat]
  /\ MaxFaults \in [FaultKinds -> Nat]

VARIABLES
  calls,     \* calls[p][q]: how often a thread of p passed connect_relay's checks
  callers,   \* callers[p][q]: p's threads between those checks and the pending entry
  offers,    \* offers[p][q]: the keys whose hello such a thread is about to send
  pending,   \* _pending_relay_ephemeral: the key p offered q, or NoEph
  conn,      \* connections: p's sessions with q, a set of at most one
  task,      \* what p's relay thread has still to do for a row, a set of at most one
  dead,      \* p's relay thread was ended by an exception nothing catches
  inbox,     \* the relay's rows for p, oldest first
  got,       \* how many of them p has handled
  ephs,      \* how many ephemeral keys were generated
  out,       \* every message encrypted (history)
  shown,     \* shown[p][q]: the numbers of q's messages that p showed (history)
  faults     \* faults so far, of each kind

threads == <<calls, callers, offers, task, dead>>
sessions == <<pending, conn, ephs>>
relay == <<inbox, got>>
history == <<out, shown>>
vars == <<threads, sessions, relay, history, faults>>

----------------------------------------------------------------------------
\* Keys.  An ephemeral key pair is a number, and a root key what went into it.

NoEph == 0
Ephs == Nat \ {NoEph}

Root == [init: Peers, resp: Peers, ie: Ephs, re: Ephs]

\* Mutant: the order of the first two Diffie-Hellman terms ignores the role.
RootIgnoringRole(p, q, isInitiator, mine, theirs) ==
  [init |-> p, resp |-> q, ie |-> mine, re |-> theirs]

\* compute_shared_root_key, called by p.
RootKey(p, q, isInitiator, mine, theirs) ==
  IF isInitiator
  THEN [init |-> p, resp |-> q, ie |-> mine, re |-> theirs]
  ELSE [init |-> q, resp |-> p, ie |-> theirs, re |-> mine]

\* The message key number i of the chain on which `by` sends under `root`.
MessageKey(root, by, i) == [root |-> root, by |-> by, index |-> i]

\* A RatchetSession as it starts.
NewSession(p, q, isInitiator, mine, theirs) ==
  [root |-> RootKey(p, q, isInitiator, mine, theirs), send |-> 0, recv |-> 0]

Session == [root: Root, send: Nat, recv: Nat]
Key == [root: Root, by: Peers, index: Nat]
Hello == [type: {"hello", "hello_ack"}, from: Peers, eph: Ephs]
Msg == [type: {"msg"}, from: Peers, key: Key, n: Nat]

\* A hello_ack to send, or an initiator's session to register.
Reply == [do: {"reply"}, to: Peers, eph: Ephs]
Install == [do: {"install"}, to: Peers, session: Session]

\* What p sent q, as [key, to, n]: n counts p's calls of send_text to q.
SentTo(p, q) == {e \in out : e.key.by = p /\ e.to = q}

AtMostOne(S) == \A x, y \in S : x = y

TypeOK ==
  /\ calls \in [Peers -> [Peers -> Nat]]
  /\ callers \in [Peers -> [Peers -> Nat]]
  /\ pending \in [Peers -> [Peers -> Ephs \cup {NoEph}]]
  /\ conn \in [Peers -> [Peers -> SUBSET Session]]
  /\ \A p, q \in Peers : AtMostOne(conn[p][q])
  /\ offers \in [Peers -> [Peers -> SUBSET Ephs]]
  /\ task \in [Peers -> SUBSET (Reply \cup Install)]
  /\ \A p \in Peers : AtMostOne(task[p])
  /\ dead \in [Peers -> BOOLEAN]
  /\ inbox \in [Peers -> Seq(Hello \cup Msg)]
  /\ got \in [Peers -> Nat]
  /\ \A p \in Peers : got[p] <= Len(inbox[p])
  /\ ephs \in Nat
  /\ out \subseteq [key: Key, to: Peers, n: Nat]
  /\ shown \in [Peers -> [Peers -> Seq(Nat)]]
  /\ faults \in [FaultKinds -> Nat]
  /\ \A f \in FaultKinds : faults[f] <= MaxFaults[f]

Init ==
  /\ calls = [p \in Peers |-> [q \in Peers |-> 0]]
  /\ callers = [p \in Peers |-> [q \in Peers |-> 0]]
  /\ pending = [p \in Peers |-> [q \in Peers |-> NoEph]]
  /\ conn = [p \in Peers |-> [q \in Peers |-> {}]]
  /\ offers = [p \in Peers |-> [q \in Peers |-> {}]]
  /\ task = [p \in Peers |-> {}]
  /\ dead = [p \in Peers |-> FALSE]
  /\ inbox = [p \in Peers |-> <<>>]
  /\ got = [p \in Peers |-> 0]
  /\ ephs = 0
  /\ out = {}
  /\ shown = [p \in Peers |-> [q \in Peers |-> <<>>]]
  /\ faults = [f \in FaultKinds |-> 0]

----------------------------------------------------------------------------
Fault(kind) ==
  /\ faults[kind] < MaxFaults[kind]
  /\ faults' = [faults EXCEPT ![kind] = @ + 1]

\* RelayClient.send_to(q, frame): the frame reaches the relay; or it is lost
\* with the connection, which send_to may (ok) or may not have noticed.
SendTo(q, frame, ok) ==
  \/ /\ ok
     /\ inbox' = [inbox EXCEPT ![q] = Append(@, frame)]
     /\ UNCHANGED <<got, faults>>
  \/ /\ Fault("loss")
     /\ UNCHANGED relay

\* connect_relay, the checks: no session, and no hello on its way.
CheckConnect(p, q) ==
  /\ p # q
  /\ calls[p][q] < MaxCalls[<<p, q>>]
  /\ conn[p][q] = {}
  /\ pending[p][q] = NoEph
  /\ calls' = [calls EXCEPT ![p][q] = @ + 1]
  /\ callers' = [callers EXCEPT ![p][q] = @ + 1]
  /\ UNCHANGED <<offers, task, dead, sessions, relay, history, faults>>

\* connect_relay, the pending entry; another thread's may be there by now.
Offer(p, q) ==
  /\ callers[p][q] > 0
  /\ ephs' = ephs + 1
  /\ pending' = [pending EXCEPT ![p][q] = ephs']
  /\ offers' = [offers EXCEPT ![p][q] = @ \cup {ephs'}]
  /\ callers' = [callers EXCEPT ![p][q] = @ - 1]
  /\ UNCHANGED <<calls, task, dead, conn, relay, history, faults>>

\* connect_relay, the hello; whatever entry is pending is removed if send_to
\* says the hello was not sent.
SendHello(p, q) ==
  /\ \E eph \in offers[p][q], ok \in BOOLEAN :
       /\ SendTo(q, [type |-> "hello", from |-> p, eph |-> eph], ok)
       /\ pending' = IF ok THEN pending ELSE [pending EXCEPT ![p][q] = NoEph]
       /\ offers' = [offers EXCEPT ![p][q] = @ \ {eph}]
  /\ UNCHANGED <<calls, callers, task, dead, conn, ephs, history>>

\* The row p's relay thread takes next; the thread does one row at a time.
NextRow(p) == inbox[p][got[p] + 1]

Receives(p, type) ==
  /\ ~dead[p]
  /\ task[p] = {}
  /\ got[p] < Len(inbox[p])
  /\ NextRow(p).type = type

Handled(p) == got' = [got EXCEPT ![p] = @ + 1] /\ UNCHANGED inbox

\* _handle_relay_hello up to its reply: whatever session there was, and
\* whether or not this hello came before, the responder's new session is
\* registered.  Other threads can use it from here on.
OnHello(p) ==
  /\ Receives(p, "hello")
  /\ ephs' = ephs + 1
  /\ LET q == NextRow(p).from
     IN  /\ conn' = [conn EXCEPT ![p][q] =
                       {NewSession(p, q, FALSE, ephs', NextRow(p).eph)}]
         /\ task' = [task EXCEPT ![p] = {[do |-> "reply", to |-> q, eph |-> ephs']}]
  /\ UNCHANGED <<calls, callers, offers, dead, pending, relay, history, faults>>

\* _handle_relay_hello, the reply, whose failure goes unnoticed; the row is
\* now handled.
SendHelloAck(p) ==
  /\ \E r \in task[p], ok \in BOOLEAN :
       /\ r.do = "reply"
       /\ \/ /\ ok
             /\ inbox' = [inbox EXCEPT ![r.to] =
                            Append(@, [type |-> "hello_ack", from |-> p, eph |-> r.eph])]
             /\ UNCHANGED faults
          \/ /\ ~ok
             /\ Fault("loss")
             /\ UNCHANGED inbox
  /\ task' = [task EXCEPT ![p] = {}]
  /\ got' = [got EXCEPT ![p] = @ + 1]
  /\ UNCHANGED <<calls, callers, offers, dead, sessions, history>>

\* Mutant: an acknowledgement is taken whether or not a hello is pending.
OnUnexpectedAck(p) ==
  /\ Receives(p, "hello_ack")
  /\ LET q == NextRow(p).from
     IN  /\ task' = [task EXCEPT ![p] =
              {[do |-> "install", to |-> q,
                session |-> NewSession(p, q, TRUE, pending[p][q], NextRow(p).eph)]}]
         /\ pending' = [pending EXCEPT ![p][q] = NoEph]
  /\ UNCHANGED <<calls, callers, offers, dead, conn, ephs, relay, history, faults>>

\* _handle_relay_hello_ack takes the pending entry: without one it ignores the
\* acknowledgement.
OnHelloAck(p) ==
  /\ Receives(p, "hello_ack")
  /\ LET q == NextRow(p).from
     IN  \/ /\ pending[p][q] = NoEph
            /\ Handled(p)
            /\ UNCHANGED <<pending, task>>
         \/ /\ pending[p][q] # NoEph
            /\ pending' = [pending EXCEPT ![p][q] = NoEph]
            /\ task' = [task EXCEPT ![p] =
                 {[do |-> "install", to |-> q,
                   session |-> NewSession(p, q, TRUE, pending[p][q], NextRow(p).eph)]}]
            /\ UNCHANGED relay
  /\ UNCHANGED <<calls, callers, offers, dead, conn, ephs, history, faults>>

\* _handle_relay_hello_ack registers the initiator's session.
RegisterSession(p) ==
  /\ \E i \in task[p] :
       /\ i.do = "install"
       /\ conn' = [conn EXCEPT ![p][i.to] = {i.session}]
  /\ task' = [task EXCEPT ![p] = {}]
  /\ Handled(p)
  /\ UNCHANGED <<calls, callers, offers, dead, pending, ephs, history, faults>>

\* Mutant: the receiving chain is not advanced.
NotAdvanced(s) == s

\* RatchetSession.decrypt of an envelope that has the index it expects: the
\* receiving chain moves on whether or not the tag then verifies.
Advanced(s) == [s EXCEPT !.recv = @ + 1]

\* _handle_incoming_msg.  Without a session the message is dropped, with
\* another index than expected too (ValueError); with another key the tag
\* fails, and InvalidTag, which no caller catches, ends the relay thread with
\* the row unacknowledged.
OnMsg(p) ==
  /\ Receives(p, "msg")
  /\ LET m == NextRow(p)
         q == m.from
         expected(s) == MessageKey(s.root, q, s.recv)
     IN  \/ /\ \A s \in conn[p][q] : m.key.index # s.recv
            /\ Handled(p)
            /\ UNCHANGED <<conn, shown, dead>>
         \/ \E s \in conn[p][q] :
              /\ m.key.index = s.recv
              /\ conn' = [conn EXCEPT ![p][q] = {Advanced(s)}]
              /\ \/ /\ m.key = expected(s)
                    /\ shown' = [shown EXCEPT ![p][q] = Append(@, m.n)]
                    /\ Handled(p)
                    /\ UNCHANGED dead
                 \/ /\ m.key # expected(s)
                    /\ dead' = [dead EXCEPT ![p] = TRUE]
                    /\ UNCHANGED <<shown, relay>>
  /\ UNCHANGED <<calls, callers, offers, task, pending, ephs, out, faults>>

\* Mutant: the index is used up only by a send that succeeds.
IndexAfter(s, ok) == IF ok THEN s.send + 1 ELSE s.send

\* encrypt comes first: its index is used up whether or not send_raw then
\* raises.
NextIndex(s, ok) == s.send + 1

\* send_text, by any thread: encrypt and send under the connection's lock.
SendText(p, q) ==
  /\ p # q
  /\ Cardinality(SentTo(p, q)) < MaxSend[<<p, q>>]
  /\ \E s \in conn[p][q], ok \in BOOLEAN :
       LET n == Cardinality(SentTo(p, q)) + 1
           key == MessageKey(s.root, p, s.send)
       IN  /\ out' = out \cup {[key |-> key, to |-> q, n |-> n]}
           /\ SendTo(q, [type |-> "msg", from |-> p, key |-> key, n |-> n], ok)
           /\ conn' = [conn EXCEPT ![p][q] = {[s EXCEPT !.send = NextIndex(s, ok)]}]
  /\ UNCHANGED <<threads, pending, ephs, shown>>

\* The relay processes the acknowledgement of p's oldest handled row.
Acknowledged(p) ==
  /\ got[p] > 0
  /\ inbox' = [inbox EXCEPT ![p] = Tail(@)]
  /\ got' = [got EXCEPT ![p] = @ - 1]
  /\ UNCHANGED <<threads, sessions, history, faults>>

\* p's connection to the relay is replaced, the acknowledgements still on it
\* are lost, and the rows they were for come again.
Reconnect(p) ==
  /\ ~dead[p] /\ task[p] = {}
  /\ got[p] > 0
  /\ Fault("reconnect")
  /\ got' = [got EXCEPT ![p] = 0]
  /\ UNCHANGED <<threads, sessions, inbox, history>>

\* p's application ends and is started again: nothing of the NetworkManager
\* survives (the saved ratchet states are never read back).
RestartApp(p) ==
  /\ Fault("restart")
  /\ callers' = [callers EXCEPT ![p] = [q \in Peers |-> 0]]
  /\ pending' = [pending EXCEPT ![p] = [q \in Peers |-> NoEph]]
  /\ conn' = [conn EXCEPT ![p] = [q \in Peers |-> {}]]
  /\ offers' = [offers EXCEPT ![p] = [q \in Peers |-> {}]]
  /\ task' = [task EXCEPT ![p] = {}]
  /\ dead' = [dead EXCEPT ![p] = FALSE]
  /\ got' = [got EXCEPT ![p] = 0]
  /\ UNCHANGED <<calls, inbox, ephs, history>>

----------------------------------------------------------------------------
RelayThread(p) ==
  \/ OnHello(p) \/ SendHelloAck(p)
  \/ OnHelloAck(p) \/ RegisterSession(p)
  \/ OnMsg(p)

Next ==
  \E p \in Peers :
    \/ \E q \in Peers :
         CheckConnect(p, q) \/ Offer(p, q) \/ SendHello(p, q) \/ SendText(p, q)
    \/ RelayThread(p)
    \/ Acknowledged(p)
    \/ Reconnect(p)
    \/ RestartApp(p)

Spec == Init /\ [][Next]_vars

\* A relay thread that has a row takes it.  Nobody need connect, send or fail.
FairSpec == Spec /\ \A p \in Peers : WF_vars(RelayThread(p))

----------------------------------------------------------------------------
\* No message key encrypts two messages, whatever fails after the encryption
\* and whatever is redelivered (network.py:413-431, crypto.py:178-185).
KeyUsedOnce == \A e, f \in out : e.key = f.key => e.n = f.n /\ e.to = f.to

\* A history shows what was sent to it once and in order, or not at all:
\* redelivered rows, replaced sessions and restarts duplicate and reorder
\* nothing (README.md:320-326).
History == INSTANCE LossyFifo WITH
  sent <- [c \in Pairs |-> Cardinality(SentTo(c[1], c[2]))],
  shown <- [c \in Pairs |-> shown[c[2]][c[1]]]
ShownOnceInOrder == History!Spec

\* Both sides of a session derive the same root key (network.py:5-7): when
\* every row was handled and no handshake is under way, two peers that each
\* have a session with the other have the same one.
Settled ==
  \A p, q \in Peers :
    /\ got[p] = Len(inbox[p]) /\ task[p] = {}
    /\ callers[p][q] = 0 /\ offers[p][q] = {} /\ pending[p][q] = NoEph
SameRoot ==
  Settled =>
    \A p, q \in Peers : \A s \in conn[p][q], t \in conn[q][p] : s.root = t.root

\* A message that was sent is shown in the end (network.py:409-433).
MessagesArrive ==
  \A c \in Pairs : \A n \in 1..MaxSend[c] :
    (\E e \in SentTo(c[1], c[2]) : e.n = n) ~> n \in Range(shown[c[2]][c[1]])

\* The same of a caller's messages while nothing fails and its calls do not
\* overlap: the hello it was answered by is the only one there was.
Undisturbed(p, q) ==
  /\ \A f \in FaultKinds : faults[f] = 0
  /\ calls[p][q] = 1 /\ calls[q][p] = 0
CallersMessagesArrive ==
  \A c \in Pairs : \A n \in 1..MaxSend[c] :
    (\E e \in SentTo(c[1], c[2]) : e.n = n) /\ Undisturbed(c[1], c[2])
      ~> n \in Range(shown[c[2]][c[1]]) \/ ~Undisturbed(c[1], c[2])
============================================================================
