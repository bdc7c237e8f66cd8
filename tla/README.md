# Haven: formal model

Haven is an end-to-end encrypted messenger: a Python desktop application
(`src/haven/`), a browser client that is wire-compatible with it
(`src/webapp/static/js/`), a store-and-forward relay that both use
(`src/haven/relay_server.py`), and an accounts server for the browser client
(`src/webapp/`). This directory holds TLA+ modules for the parts of it whose
correctness depends on the order in which threads, processes and messages act,
TLC configurations that check them on small instances, and proofs that TLAPS
checks for every value of the constants.

* [Inventory](#inventory): the parts, their state, how they interact, what is hard
* [Modules](#modules): which module models what, and how it corresponds to the code
* [What is checked](#what-is-checked): runs, bounds, fairness
* [What is proved](#what-is-proved)
* [What the checks found](#what-the-checks-found)
* [Plan](#plan): what comes next
* [Not modelled](#not-modelled): what stays out, and why

`PROJECT.json` is the index: runs, mutants, the source lines each definition
models, hazards, findings, theorems.

## Inventory

### Message path

**Relay server** (`haven/relay_server.py`). State: the SQLite table `queue`
(under `_db_lock`), whose ids are AUTOINCREMENT; the routing table `clients`,
one handle per identity (under `_clients_lock`); a handler thread per TCP
connection and a coroutine per WebSocket. Operations: challenge-response
handshake, register (closing the identity's previous handle), flush the queue,
then one frame at a time: `relay` (insert a row, try to deliver it) and `ack`
(delete the row); unregister on exit. Hard: the sender's *insert then look up*
races the recipient's *register then select*; a handle is used after the lock
that yielded it was released; cleanup of an old connection races its successor;
blocking sends in both directions of a connection; a crash anywhere. Correct
means: at-least-once delivery, no envelope stranded while its recipient is
connected, a live registration never lost, envelopes of one sender in order.

**Relay client** (`haven/relay_client.py`; `RelayClient` in
`static/js/network.js`). State: the socket, `connected`. A loop that connects,
proves its identity, waits for `registered`, then for each delivered envelope
calls `on_deliver` and acknowledges; reconnects with back-off. `send_to` is
called from any thread and reports success as soon as the kernel took the bytes.

**Sessions** (`haven/network.py`, `RatchetSession` and the 3-DH of
`haven/crypto.py`). State: `connections` (under `_conn_lock`),
`_pending_relay_ephemeral` (under no lock), and per session two chains with an
index each. Operations: `connect_relay` (hello), `_handle_relay_hello` (new
responder session, hello_ack), `_handle_relay_hello_ack` (initiator session),
`send_text`, `_handle_incoming_msg`, `send_when_ready` (poll for a session, then
send). Hard: check-then-act without a lock; two hellos that cross; a session that
is usable before its acknowledgement was sent; redelivered frames; a ratchet that
is strictly in order; an exception (`InvalidTag`) that no caller catches. Correct
means: a message key encrypts one message, histories show what was sent once and
in order, both ends agree on the root key, and a message that was sent arrives.

**Direct LAN transport** (`haven/network.py`: `start_server`, `connect_to_peer`,
`_read_loop`; `haven/discovery.py`). The same sessions over a TCP connection per
pair, found by UDP broadcast. Hard: two peers that dial each other at the same
time replace and close each other's sockets; the read loop of a replaced
connection must not remove its successor.

**Groups** (`haven/groups.py`, `static/js/groups.js`). State per group: members,
my sender-key chain, one chain per peer, `removed`. Control messages (invite,
sender key, member added or removed) and group messages are JSON texts sent over
the pairwise sessions, each from a thread of its own. Hard: a group message that
overtakes the sender key it needs, a delayed sender key that overwrites a newer
chain, re-keying after a removal, concurrent membership changes by two members,
partial fan-out. A group is changed by the window's thread and by the relay client's
with no lock between them. Correct means: a sender-key message key encrypts one
message, a newcomer cannot read what is older and a removed member what is newer,
and every member gets every other's chain.

**Calls** (`haven/calls.py` and the call dialogs of `haven/gui.py`,
`static/js/calls.js`, `static/js/groupcalls.js`). One call per contact: ringing out,
ringing in, active; offer, answer, reject, end, sent as messages. The window takes
call events from a queue and asks the user in a dialog, a capture thread per call
reads the microphone. Hard: accept racing the caller's hang-up, two offers that
cross, signals of an earlier call, state set before a send that fails, capture
threads that outlive their call, events that wait while a dialog is open.
Correct means: both peers are in the same call or in none, nobody is heard in a call they did not join,
and an active call has a window to end it with.

**Web client sessions and contact gate** (`static/js/network.js`,
`static/js/crypto.js`, `static/js/storage.js`, `static/js/app.js`). The same
handshake and ratchet in one thread, with `await` between steps: hellos of unknown
people wait for the user's acceptance, key derivation, encryption and decryption are
asynchronous, and a frame's handler does not wait for the one before it. Hard: state
read before an `await` and used after it, by two calls at once. Correct means what
it means for the desktop's sessions.

### Accounts and local data

**Accounts server** (`webapp/accounts_server.py`, `webapp/accounts_db.py`,
`static/js/auth.js`). Rows of accounts: for the password and for the recovery
phrase each a salt, a scrypt cost, a hash and an encrypted identity; a directory of
identity keys; edges between contacts. Sign-up, login (which re-hashes old secrets),
identity update, contact sync, mutual friends, recovery, reset. A threading HTTP
server over SQLite, a lock per statement. Hard: whatever runs between a handler's
statements, and between the request for a salt and the request that uses it. Correct
means: the secret a user has opens what is stored, the phrase recovers for ever, and
a name belongs to one identity.

**Identity and backup** (`haven/identity.py`, `haven/recovery.py`,
`haven/backup.py`, the sign-in screen of `haven/gui.py`). Two encrypted copies of
one key, `identity.enc` and `recovery.enc`, a message table, backup files. Hard: the
process ends between two writes that belong together; a restore made twice. Correct
means: the user keeps a secret that opens a copy of the key, and the history is
in order.

**Contacts and routes** (`haven/storage.py`, `haven/config.py`,
`haven/discovery.py`, the contact list of `haven/gui.py`). A row per contact with its
verified flag and relay, the window's `peer_meta` of it, the configured relays, the
beacons heard. Hard: the list is rebuilt from beacons every two seconds, rows are
stored by network threads, cards are added again, relays removed. Correct means: a
confirmation lasts, the list agrees with the table, and a contact is tried where it is.

**Outgoing queue** (`_send_content`, `_flush_pending`, `pending_sends` and the
timers of `haven/gui.py`). Hard: network threads register and drop connections in
the middle of it, several timers may exist for one queue, sending a queue may fail
midway. Correct means: a message is sent once and in order, or the user is told.

**The rest** (layout, pickers and group windows of `haven/gui.py`,
`static/js/app.js`, attachments, avatars, translation, GIF search, AI assistant,
deployment scripts). They drive the parts above; the user's choice of what to do next
appears in the models as nondeterminism.

### How the parts interact

The window's threads call `connect_relay`, `send_text`, the group and call
managers. A relay client has one thread, which calls `_on_relay_frame` for each
envelope, and through `on_message` the group and call managers, before it
acknowledges. So everything a handler does on receipt happens before the relay may
delete the row, and an exception there keeps the row. Group and call signals
travel as pairwise messages, so each of their hazards includes those of the
session under it, and each session's those of the relay under it.

## Modules

| module | what it models |
| --- | --- |
| `RelayServer` | `haven/relay_server.py` with the client end of each connection, `haven/relay_client.py` |
| `StoreAndForward` | what a relay promises: an envelope is kept until it was handled (abstract) |
| `Session` | the handshake and the ratchet over a relay: `haven/network.py`, `haven/crypto.py` |
| `LossyFifo` | what a session promises: each message at most once, in order (abstract) |
| `Groups` | membership, sender-key chains and their copies: `haven/groups.py`, `SenderKeyChain` |
| `Accounts` | the accounts service and its browsers: `webapp/accounts_*.py`, `static/js/auth.js` |
| `Calls` | a call between two contacts: `haven/calls.py`, call dialogs of `haven/gui.py` |
| `LocalAccount` | keys, messages and backups of one account: `haven/identity.py`, `recovery.py`, `backup.py`, sign-in screen |
| `Contacts` | one contact, in the table, the window and on the network: `haven/storage.py`, `config.py`, `discovery.py`, `gui.py` |
| `Outbox` | what becomes of typed messages: the queue of `haven/gui.py` over `haven/network.py` |
| `WebSession` | a session of the browser, await by await: `static/js/network.js`, `static/js/crypto.js` |
| `MCRelayServer`, `MCSession`, `MCGroups`, `MCAccounts`, `MCCalls`, `MCLocalAccount`, `MCContacts` | instances for TLC; `Outbox` and `WebSession` have numbers for constants and need none |
| `RelayServerProofs`, `SessionProofs`, `WindowProofs` (of `Contacts` and `Outbox`), `WebSessionProofs`, `AccountsProofs`, `LocalAccountProofs`, `GroupsProofs`, `CallsProofs` | the theorems |

In every module a variable marked "(history)" is read by properties only. `causes`
(`partings` in `Contacts`), in the newer ones, collects the events a property excepts: such a property says that
nothing but the named events can break what follows, and each event is a line of the
code that does break it.

### RelayServer

A connection `k` is used once and belongs to the identity `Owner[k]`; `up[k]` and
`down[k]` are its two directions. `hphase[k]` is where its handler stands, and one
action is one critical section or one socket call:

| `hphase` | the handler is about to | action |
| --- | --- | --- |
| `handshake` | register, under `_clients_lock` (or give up) | `Register`, `HandshakeFails` |
| `registered` | send `registered` | `SendRegistered` |
| `select` | read the queued rows, under `_db_lock` | `SelectQueued` |
| `deliver` | look up the recipient of its oldest row in hand | `Lookup` |
| `send` | send on the handle it looked up, under no lock | `Send` |
| `serve` | receive a frame | `Recv` |
| `frame` | insert a row, or delete one | `Enqueue`, `DeleteQueued` |

`cphase[k]` is the same for the client's loop: `ReadReply`, `OnDeliver`, `SendAck`;
`SendTo` is any other thread of the client. `handled` records the rows whose
`on_deliver` was called: it is history, read by no action.

Abstractions. A payload is a number. The three handshake frames are one step that
succeeds or not, since nothing is shared until `_register_client`. A TCP socket
holds `Cap` frames before a blocking send waits; a WebSocket transport buffers
without bound (`run_coroutine_threadsafe`, result not awaited), and its event loop
runs handlers one at a time, which the interleaving of all handlers includes.
`close()` by another thread does not wake a thread that blocks in `recv` on that
TCP socket (there is no `shutdown`): such a handler runs on until its client's
next frame or FIN arrives (`SocketFails`). A blocked `sendall` whose peer has gone
returns an error and is the second disjunct of `Send`. Frames of two handlers that
write to one TCP handle at the same time are not split: `sendall` is one step.

### Session

Each peer has one relay thread, which handles a row of its `inbox` at a time and
may leave a step of it for later (`task`: a reply to send, a session to register),
and any number of others that run `connect_relay` and `send_text`. `connect_relay`
is three steps (`CheckConnect`, `Offer`, `SendHello`), because two threads can be
inside it; `callers` and `offers` count them. The relay underneath is the one
`RelayServer` shows: rows in id order, kept until acknowledged (`Acknowledged`),
handed out again from the oldest after a reconnect (`Reconnect`). Faults: a frame
lost with its connection, noticed by `send_to` or not (`loss`); a reconnect; a
restart of the application, which keeps nothing of the NetworkManager. The handlers'
early returns for a relay that is no longer attached (`network.py:156-158, 194-196`)
are not there: nobody removes the relay in this module.

Keys are symbolic. An ephemeral is a fresh number, a root key is the record of what
went into the three Diffie-Hellman terms, in the order of the role, and a message
key is a root, the sender's chain and an index: two keys are equal exactly when the
derivations are. A message decrypts when its key is the one the receiver expects.

Abstractions. Each account uses one relay (relays are keyed, and a contact has
one). `connect_relay` reads `connections` and the pending entries at one instant.
`send_text`'s lookup of the connection and the lock it then takes are one step, so
a session replaced between the two is not shown. The relay hands rows over in id
order; that it may not is shown by `RelayServer` (run `relay_send_order`).

### Groups

One group of the desktop client. `group[p]` is p's entry of `self.groups`; `gens`
stands for the random chain keys, so that a chain is a generation, the key it
stands at and its index. Each handler and each window operation changes the group
in one step and leaves what it sends to a second (`task`, `Send`), which reads
members and chain as they are by then: that is the order of every one of them, and
the other thread of the same application may act in between. `encrypt` is two steps
(`Ratchet`, `Encrypt`), because the relay thread may read a chain for a newcomer
between the assignments to its key and its index (`Seen`). An announcement still to
be made of a chain that is replaced meanwhile is of its last state (`Held`): the
thread holds the object, which no longer changes. The network is a bag of
messages: each is sent by a thread of its own (`send_when_ready`), arrives once or
never, in any order. `dead` is a relay thread ended by an `InvalidTag`. `told`,
`out` and `listed` are histories that no action reads.

Abstractions: one group; user names, stored messages and the display flag's effect
are left out; the thread that receives is the relay client's (a direct connection's
read loop would be a third). A rotation between the two reads of a chain, a change
of the members while `_on_invite` iterates over them, and a restart that loads what
was saved are not shown.

### Accounts

`accounts[u]` is a row; a key is named by what it is derived from (secret, salt,
cost), and a blob opens with one key and one spelling of the name, as the
browser's associated data makes it. A browser has one request in flight (`request`):
it asks for a salt (`AskLoginSalt`, `AskRecoverySalt`), derives its key from what it
was told, and sends it; the handler reads a row and compares (`Verify`), may store a
new hash (`Upgrade`), and has its effect in one more statement (`LogIn`,
`UpdateIdentityPub`, `SyncContact`, `MutualFriends`, `VerifyPhrase`,
`ResetPassword`). `Signup` is one step: its check and its insert are redundant, the
column is unique, and only the insert counts. Abstractions: the rate limiter's
counts (any request may end early, `EndEarly`), the ranking of suggestions, search,
transcription. One request at a time is an abstraction too: after a login the page
sends `update-identity-pub` and does not wait for it (`auth.js:139`). In the module it
comes at any time after the login, or not at all, but not beside another request of
the same browser; beside those of other browsers it does.

`putBack` collects the logins (salt, cost, hash, blob) into which an upgrade put
another key's hash than it found, because a reset came between the upgrade's check
and its UPDATE. It is a history, and the exception of two properties. What it excepts
is a state of one account, which the next reset ends: `NewAccountsOpen` holds of an
old account before the race and after that reset. `LoginOpens` needs it because in
that state a browser that was told the salt before the reset is accepted by the old
hash and is sent the new blob, which it cannot open: with three browsers and without
the exception TLC finds this. It is part of finding 10.

### Calls

A call is a dictionary in `dicts[p]`, never removed from there, as threads may keep
it after the table has another; `calls[p]` points to the table's. The window's thread
(`Poll`, `TakeEvent`, `Polled`, `Accept`, `AcceptMedia`, `Reject`, `Hangup`,
`StartCall`), the relay client's (`OnOffer`, `OnAnswer`, `AnswerMedia`, `OnReject`,
`OnEnd`) and the capture threads (`CaptureBegin`, `CaptureEnd`) interleave without a
lock. Accepting and being answered are two steps each, because the send, the state
and the media are not one. Signals arrive in order or are lost (`Lose`); a send may
fail (`Fail`). `Heard(p)` is the set of calls in which a running capture loop of p
sends. A window is dead once its polling has ended with an exception: events are
handled no more, and its buttons still call and hang up (`Free`). Abstractions: video, muting, captions, playing; two peers.

### LocalAccount

The operation under way is what it has left to write (`op.left`, from `Steps`); each
write is a step, opening a file for writing empties it first (`EmptyIdentity`,
`WriteIdentity`, ...), and `CutShort` ends the process between any two. A blob is
whole, torn or absent, and whole ones name the secret that opens them. Backups may
have been made elsewhere, for an identity of the same name. `typed` and `read` are
the secrets the user has: what was typed, and the phrases that were shown. The
exceptions of the properties are kept one by one: `displaced` has the keys in whose
place another key's `identity.enc` is being or was written (a key leaves it when its
own is written again), `repeated` the rows that a restore stores after others it found
(`StoredAfter`). A restore of the same identity displaces nothing, and a restore into
a table with messages takes only its own rows out of the order. An empty file and a
torn one are the same here, and open with nothing; the code raises another exception
for the empty one.
Abstractions: the messages of all contacts are one sequence; restored contacts; the
avatar.

### Contacts

One contact and the relays it may be assigned to. `row` is its row, `meta` the
window's entry, `peers` whether discovery has it, `reach` how the network reaches it.
Each handler of the window, of the discovery threads and of the network thread that
stores a connected contact is one action. `route` records the way an attempt took.
`RemoveRelay` takes the relay out of the window's set at once; a `relay_status` event
that is still queued may put its key back there, which changes what is displayed and
nothing that is routed.
Abstractions: names, avatars, ports; a relay is its `host:port`.

### Outbox

One contact. `pending` is its queue, `timers` the timers set for it (several are
possible), `events` the "connect" events queued. `Timer` and `ConnectEvent` are
`_flush_pending` from either caller, whose outcomes are actions of their own
(`NothingQueued`, `Delivered`, `BrokeOff`, `GaveUp`, `TimerAgain`); network threads
change `conn` at any moment. Abstractions: what is handed to a live connection counts
as sent (what follows is `Session`'s); times, but for the order of the timers.

### WebSession

One direction of one session, from the moment its responder has registered it. A
call of `sendText` and a frame's handler are jobs that stand at an await:

| job | awaits | next |
| --- | --- | --- |
| `sending`, `ratchet` | `ratchetStep`, with the chain key it read | `Ratchet` |
| `sending`, `seal` | encryption, and saving the session | `Transmit` |
| `receiving`, `derive` | the hello_ack's session | `Register` |
| `receiving`, `fingerprint` | the sender's fingerprint | `LookUp` |
| `receiving`, `ratchet` | `ratchetStep`, with the chain key it read | `Advance` |
| `receiving`, `open` | the plaintext, and saving session and message | `Open` |

`Greet` is `onConnect`, which starts none, one or two sends, and the hello_ack after
it. The relay hands a row over in two ways, as `RelayServer` has them
(`relay_server.py:343-344, 365-382`): live as it comes in (`NextLive`), and, after the
initiator's connection was replaced (`Reconnect`), from a flush, which reads what is
left (`Select`) and hands it over in order (`NextFlushed`). Nothing orders the two:
`Deliver` takes either, so a row may come before older ones, and twice on one
connection. A browser responder is served by the same event loop as the initiator,
which runs a flush as a whole; a responder on the desktop client, whose protocol is
the same, has a handler thread of its own, and its row may come before, in or after
the flush. `Reconnect` chooses which of the rows not yet handed over came in before the
new connection was registered: only a flush brings those. Reconnects of the responder
show as frames it loses.

Chain keys are counted in steps, so that the same number is the same key. `causes`
has "overtaken" for a row handed over before an older one ever was: such a row fails
the index check, is acknowledged, and is lost. Without this exception TLC violates
`MessagesArrive` by a reconnect and nothing else. Abstractions: the awaits between two
accesses to shared state are one; the other direction, the hello, the contact gate, a
page reload.

## What is checked

| run | expects | shows |
| --- | --- | --- |
| `relay_safety` | pass | types; no envelope is stranded; a live registration survives; `StoreAndForward` is implemented, with a crash of the relay, takeovers and lost connections |
| `relay_liveness` | pass | a queued envelope does not wait forever for a routed recipient |
| `relay_send_order` | violation | a live delivery overtakes the flush of older rows |
| `session_safety` | pass | types; no message key is used twice; `LossyFifo` is implemented, with a loss, a reconnect and a restart; what an undisturbed caller sends arrives |
| `groups_safety` | pass | types; a sender-key message key is used once; who can read a message was a member, as its sender saw it, by the time it was sent |
| `groups_rotation` | violation | a removed member can read what members who handled the removal send next |
| `accounts_safety` | pass | types; every account opens with one password, but for a hash put back after a reset of an old one, and with its phrase; who is answered can open the answer, with the same exception; one identity per name |
| `calls_safety` | pass | types; an active call was joined by both; only four events part the peers, and only four leave one heard where it should not be; a call can be hung up |
| `local_account_safety` | pass | types; whenever the process ends, the user has a way into each account not displaced, with the named exceptions; the history is in order but for rows restored after others |
| `contacts_safety` | pass | types; confirmations last; list and table agree; a contact never seen on the LAN is tried over its relay |
| `outbox_safety` | pass | types; sent once, in order, or told; queues have a timer, are given all attempts, and empty |
| `web_session_safety` | pass | types; a key is used once, messages are shown once and in order, and arrive, but for the interleavings named, a live row that overtakes the flush among them |

Other configurations reproduce the counterexamples the findings cite, and one a
larger liveness check; run them by hand with `tlc -config X.cfg M`:

| configuration | module | checks |
| --- | --- | --- |
| `RelayTakeover.cfg` | `MCRelayServer` | `ConnectedIsRouted`, violated |
| `RelayBacklog.cfg` | `MCRelayServer` | `QueueDrains` with buffers of one frame, violated |
| `SessionGlare.cfg` | `MCSession` | `SameRoot`, violated |
| `SessionOvertake.cfg` | `MCSession` | `MessagesArrive` with a responder that sends, violated |
| `SessionLiveness.cfg` | `MCSession` | `MessagesArrive` with two callers of one responder, holds |
| `GroupsLostKey.cfg` | `MCGroups` | `EveryoneHasEveryKey`, violated |
| `AccountsReset.cfg` | `MCAccounts` | `AccountsOpen`, violated |
| `CallsUnasked.cfg` | `MCCalls` | `HeardWhenJoined`, violated without any failure |
| `LocalAccountEither.cfg` | `MCLocalAccount` | `EitherOneAlone`, violated |
| `ContactsFallback.cfg` | `MCContacts` | `FallsBack`, violated |
| `WebSessionGreeting.cfg` | `WebSession` | `FreshKeys`, violated |
| `WebSessionTwice.cfg` | `WebSession` | `ShownAtMostOnce`, violated |
| `WebSessionEarly.cfg` | `WebSession` | `AllArrive`, violated |

Bounds. *Relay*: a sender with one connection and two or three envelopes, a
recipient with two connections (one TCP, one WebSocket), one crash. Each race in
question is between a sender's handler, the old and the new connection of one
recipient, and the second envelope shows order and id reuse; a third connection
repeats the second. `Cap` = 4 holds every frame of a run but in `RelayBacklog.cfg`,
where 1 makes three envelopes a backlog larger than both buffers, as a few hundred
KB of queued rows are to real ones. *Session*: two peers, two overlapping
`connect_relay` calls, two messages in a direction, one fault of each kind. The two
directions of a session use separate chains and indices, so the run sends one way;
the handshake runs in both. *Groups*: three peers, the creator who adds, removes and
sends and a member who removes and sends, two such operations in all (`MaxOps`)
beside creating the group and joining it: enough for each pair of operations whose
order matters (a message and an addition, a message and a removal, two messages, an
addition and a removal of the same member), with every order of the messages they
cause. *Accounts*: two browsers with two requests each, four spellings of three
names, one of them an account of the old kind, two passwords, four salts: a race is
between two requests, and the second one of a browser is what follows it. *Calls*:
two peers, two calls, one failure: the second call is the one an old signal, event
or thread meets. *LocalAccount*: two passwords, two backup files, three keys and
phrases, two rows before a restore, two interruptions: the second may hit the
repair of the first. *Contacts*: two relays, five steps of the user. *Outbox*: two attempts, four
messages, three connections, two faults: two queues one after the other, each with a
timer. *WebSession*: two messages, one loss, two
connections: a row that overtakes needs a reconnect and an older row.
A third message was checked by hand with one connection. A third connection makes
millions of states and was not checked to the end: for safety the theorems cover it,
for `MessagesArrive` two are what is shown.

Fairness. `RelayServer`: every handler and every client loop that can take a step
does (weak fairness per connection): they are threads and coroutines of a running
process. `Session`: each relay thread that has a row takes it. `Outbox`: a timer that was set
fires, as `after` of the window's loop does. `WebSession`: what a browser awaits comes
(a WebCrypto or IndexedDB promise settles), and the relay hands over what it has.
Nothing is assumed of users: no one need connect, send, accept or fail. The remaining
modules state no fairness: their properties are about safety.

Deadlock checking is off in every run: a messenger with nothing to do has stopped,
and the bounds stop it too. That the relay's own waiting ends is what the liveness
runs ask.

Every property of a passing run comes with a mutant, a plausible bug in one
definition under which TLC finds the property violated: they are the definitions
commented "Mutant" or "A version that ..." in the modules.

## What is proved

For any number of identities, connections, envelopes, crashes, peers, relays,
messages, attempts, accounts, passwords, keys, group operations, calls and faults, under the
assumptions on the constants that the modules name. `ConstAssumption`,
`SessionAssumption` and `GroupsAssumption` only give the constants their types.
`OutboxAssumption` and `WebAssumption` also ask that `Attempts` and `MaxLinks` are
positive, `ContactsAssumption` that no relay is called "none" or "direct",
`AccountsAssumption` that users are names in the spelling the server stores and that
the alphabetical order tells names apart, `LocalAccountAssumption` that passwords are not
numbers (phrases are) and that the key and the two messages of the backups made
elsewhere are within the bounds, `CallsAssumption` that `Other` pairs the peers.

| theorem | module | states |
| --- | --- | --- |
| `TypeCorrect` | `RelayServerProofs` | `Spec => []TypeOK` |
| `LiveRegistrationSurvives` | `RelayServerProofs` | `Spec => []RegistrationSurvives` |
| `RelayIsStoreAndForward` | `RelayServerProofs` | `Spec => AtLeastOnce`: the relay implements `StoreAndForward` |
| `NothingStranded` | `RelayServerProofs` | `Spec => []NoStranded` |
| `SessionTypeCorrect` | `SessionProofs` | `Spec => []TypeOK` |
| `KeysUsedOnce` | `SessionProofs` | `Spec => []KeyUsedOnce` |
| `SessionIsLossyFifo` | `SessionProofs` | `Spec => ShownOnceInOrder`: sessions implement `LossyFifo` |
| `ContactsTypeCorrect` | `WindowProofs` | `ContactsSpec => []ContactsTypeOK` |
| `ConfirmationStays` | `WindowProofs` | `ContactsSpec => []ConfirmationLasts` |
| `TheListAgrees` | `WindowProofs` | `ContactsSpec => []ListAgrees` |
| `RelayIsTried` | `WindowProofs` | `ContactsSpec => FallsBackIfNeverSeen` |
| `OutboxTypeCorrect` | `WindowProofs` | `Spec => []TypeOK` |
| `NothingIsLostQuietly` | `WindowProofs` | `Spec => []NothingLostQuietly` |
| `QueuesAreServed` | `WindowProofs` | `Spec => []QueueIsServed` |
| `QueuesArePatient` | `WindowProofs` | `Spec => []Patient` |
| `MessagesKeepTheirOrder` | `WindowProofs` | `Spec => []SentInOrder` |
| `MessagesAreSentOnce` | `WindowProofs` | `Spec => []SentOnce` |
| `WebTypeCorrect` | `WebSessionProofs` | `Spec => []TypeOK` |
| `WebKeysUsedOnce` | `WebSessionProofs` | `Spec => []BrowserKeyUsedOnce` |
| `WebShownOnceInOrder` | `WebSessionProofs` | `Spec => []BrowserShowsOnceInOrder` |
| `AccountsTypeCorrect` | `AccountsProofs` | `Spec => []TypeOK` |
| `NewAccountsStayOpen` | `AccountsProofs` | `Spec => []NewAccountsOpen` |
| `PhraseAlwaysRecovers` | `AccountsProofs` | `Spec => []PhraseRecovers` |
| `LoginsAlwaysOpen` | `AccountsProofs` | `Spec => []LoginOpens` |
| `OneIdentityEach` | `AccountsProofs` | `Spec => []OneIdentity` |
| `LocalAccountTypeCorrect` | `LocalAccountProofs` | `Spec => []TypeOK` |
| `AlwaysAWayIn` | `LocalAccountProofs` | `Spec => []LocalWayIn` |
| `HistoryStaysInOrder` | `LocalAccountProofs` | `Spec => []HistoryInOrder` |
| `GroupsTypeCorrect` | `GroupsProofs` | `Spec => []TypeOK` |
| `NoGroupKeyUsedTwice` | `GroupsProofs` | `Spec => []GroupKeyUsedOnce` |
| `NewcomersReadNothingOlder` | `GroupsProofs` | `Spec => []NothingOlderIsReadable` |
| `CallsTypeCorrect` | `CallsProofs` | `Spec => []TypeOK` |
| `ActiveCallsAreJoint` | `CallsProofs` | `Spec => []ActiveIsJoint` |
| `PeersAgree` | `CallsProofs` | `Spec => []AgreementBreaks` |
| `HeardOnlyWhenJoined` | `CallsProofs` | `Spec => []HeardWhenJoinedBreaks` |
| `ActiveCallsHaveAWindow` | `CallsProofs` | `Spec => []CanHangUp` |

*The relay.* Types are not inductive alone: a handler in phase `frame` reads the
head of `up[k]`, a client in `acking` the head of `down[k]`, and a first frame that
is not `registered` is a delivery. `TypeInv` adds that the frame is there (`InHand`),
that an unused connection is empty (`Fresh`) and that the first frame is
`registered` (`Greeting`). `RouteInv` relates the routing table to the handlers:
what is on file for an identity is a connection of that identity whose handler
registered and has not exited (`Route`); `RegistrationSurvives` then follows from
`Unregister` removing only its own handle. `DataInv` relates rows to frames: ids
are unique and at most `lastId` (`Ids`), a row in a handler's hand or in a channel
is one that was stored, and is in the queue or was handled (`Known`), and an
acknowledgement on its way is for a row that was handled (`AckSound`,
`AckingSound`). That an id is never given twice is what makes a late
acknowledgement harmless, so each step that deletes a row is a `Forget` of the
abstract specification. `NothingStranded` follows the row: the enqueueing handler
keeps it in hand until it has looked the recipient up, and the recipient's
connection is on file before it selects.

*Sessions.* `TypeInv` adds the shape of what the relay thread has left to do.
`KeyInv` says where each ephemeral is: every ephemeral in use was generated
(`Known`), a responder's root contains an ephemeral of its own that no other root
has, an initiator's the one it took from its pending entry (`Offered`,
`Installs`), so that a root registered later is new or is one under which this
peer has sent nothing (`Ahead`: what it sent under the root it holds has smaller
indices). `KeyUsedOnce` follows, with failed sends, redelivered hellos, overlapping
calls and restarts. That a session implements `LossyFifo` needs to know what can
still be decrypted: `OrderInv` says that the next index a session expects
(`Expected`), and the first one a session would expect that is about to be registered
(`ToInstall`) or that an acknowledgement on its way would make (`AwaitedNewer`), is
of a message sent after all those the peer was shown. An answer goes into one root
key (`Unique`); `AckOrder` and `ReplyOrder` order the messages around the
acknowledgement, `Taken` covers one that is redelivered. A step that changes neither
what was sent nor what was shown is a stutter of `LossyFifo`; each other step is its
`Send` or its `Show`.

*Contacts.* `ListAgrees` speaks of a contact that has a row and an entry; either may
appear after the other, so the invariant says it of blank ones too (`Badge`, `Route`),
which needs that a row that is not there is neither marked nor assigned (`Blank`).
One step per action, each a case of what it stores over what.

*The outgoing queue.* `OneTimer` counts: as long as no timer outlived its queue there
is at most one, and the attempts left to it and those made since the queue began add
up to `Attempts`, so a timer at zero has made them all; that is why no queue is given
up early. `Served` and `Waited` are `QueueIsServed` and `Patient` with their
exceptions named one by one. `SentInOrder` and `SentOnce` need that what is queued is
in order, newer than what was sent (`InOrder`) and distinct from it (`Once`).

*The browser's session.* The sender's chain may lag behind its index, never lead it
(`Chain`); as long as no two sends were in their `ratchetStep` at once, key and index
agree (`Alone`), which is `WebKeysUsedOnce`. A message whose key and index agree is
on its chain, and those are in the order of sending whatever else happens. `Carried`
says that an index is in one row at most, `Once` that the session is registered once
and nothing is decrypted before, `Follows` that at most one handler is in its
`ratchetStep`, with the right key and index, and that whatever is being opened has an
index the receiver has passed. So what is opened is on the chain and behind
nothing that was shown (`InOrder`), unless a row was in two handlers at once.

*Accounts.* `Rows` says which secrets fit each row's hashes and open its blobs,
`Requests` what a request in flight has verified, of the row it has read and no longer
of the row there is. The two agree in the recovery blob, which no handler replaces,
and so in the identity; a handler answers with the row it read, whose parts fit each
other whatever was stored since. Only an upgrade writes a part of a row, and only an
old account has one. If the key it verified is the one whose hash is there, the row
stays sound; otherwise the login it makes is in `putBack`. So each row, in the table
or in a handler's hand, is sound or its login is in `putBack` (`RowSound`):
`NewAccountsOpen` says this of the table, `LoginOpens` of the row a handler answers from.

*The local account.* `WayInv` follows the two copies of the key through every write
of an operation: what sign-up, recovery, restore or export has left to do tells which
copy is whole (`Stage`); the keys that are not displaced (`Here`) are the one that is
on file or being rewritten (`Current`), the passwords of whole files were typed
(`PasswordsTyped`), and an account that is here has a recovery copy whose phrase was
shown (`PhraseShown`), unless a sign-up or a restore was interrupted.
`HistoryInOrder` needs to know what a restore has left to store: its rows are in order
and newer than the table's (`RestInOrder`), or all among `repeated` (`RestRepeated`).
A message written after them is newer than any row, so it needs no exception.

*Groups.* `KeysAt` says of each peer that it holds a chain only if it joined with it
(`Joined`), where the window stands in `encrypt` (`Encrypting`), that keys behind the
chain, and no others, were used (`KeysSpent`), and that an announcement still to be
made, or on its way, is of a state the chain had after its receiver was a member
(`Announced`, `Addressed`). An announcement delayed past a
rotation is of the old chain as it was last used (`Held`): `groups_safety` is too
small to reach the case, the theorems cover it.

*Calls.* The two tables differ whenever a signal is on its way, so the invariant is
about tables and signals together. `SignalInv`: an id is drawn once and a peer has one
dictionary for it (`Distinct`), nothing about a call is ahead of its offer (`Ordered`,
`OffersNew`), the two ends of a call do not ring the same way (`RingsApart`), who said
that a call ended is never in it again (`EndsGone`), and who answered has made the call
active, or a thread of its has the call in hand and is about to (`AnswersMade`).
`AgreeInv` says that what the peers differ in is only what those signals will settle: who is
in a call has the other in it too, or its offer is still to arrive there, or its end here
(`OfferStands`, `CallStands`); where one starts the call, the other does or has the answer
to come (`AnswerStands`). With no signal left that is `Agree`. A step either leaves a call
(`LeavesStand`), enters one from none (`EntersStand`) or stays (`StaysStand`); leaving
one for another, and a signal that fails, is lost or is about another call, are the
exceptions. `JoinInv` carries who joined along the same path, from the offer through the
answer to the thread that has the call in hand (`Committed`), which is where an accept of
the peer's own call breaks it. `MediaInv` says that media run for the call the table has;
`HangInv` looks into the event queue: an active call has its window open and no `ended`
waiting, or an `active` waiting that no `ended` follows.

Every invariant, action property and refinement that a run expects to hold has its
theorem. Only model-checked: the liveness properties (`QueueDrains`, `MessagesArrive` and
their like: temporal reasoning under fairness is out of the prover's reach), and everything
the violated configurations show.

## What the checks found

Each is a disagreement between the code and what the repository says of it; the
counterexamples of the run or configuration named are the evidence.

1. `relay_send_order`. A handle is registered before the flush selects, and both
   deliver under no common lock: an envelope that arrives in between is delivered
   live, before the older queued ones. The session's ratchet rejects what arrives
   out of order, and acknowledges it, so it is lost, and what is sent after it is
   rejected as well. The browser loses it in the same way (cause "overtaken" in
   `WebSession`).
2. `RelayTakeover.cfg`. A connection whose handshake was accepted earlier may register
   later than its successor: it closes the successor's handle, and its own exit
   leaves no handle on file, while the successor's client still waits in `recv`.
3. `RelayBacklog.cfg`. The handler flushes before it reads, the client acknowledges
   between reads; with a backlog larger than the buffers both block in `sendall`.
4. `SessionGlare.cfg`. Each side that has sent a hello also answers the other's; both
   then replace the session they registered as responder by the one they get as
   initiator, and the roots differ from then on.
5. By reading: ratchet states are saved after every message and never
   loaded: the other end goes on using a session that no longer exists here.
6. `SessionOvertake.cfg`. The responder's session is usable by its other threads
   before the hello_ack is sent; a message sent there arrives before the
   acknowledgement and is dropped, and the indices never agree again.
7. `groups_rotation`. Only the member that removes somebody moves to a new chain;
   the others, told of it, keep the chain the removed member has.
8. `GroupsLostKey.cfg`. Members invited together announce their chains to each other
   at once; who is not yet in the group drops the key, and it is not sent again.
9. By reading: a group message whose index agrees and whose key does not raises
   `InvalidTag`, which nothing catches, and ends the relay thread (`dead` in
   `Groups`); a rotation overtaking a message is enough.
10. `AccountsReset.cfg`. A login that re-hashes an old account's password stores the
    hash after a reset has replaced salt and blob: neither password opens it then, and
    a browser that was told the old salt is accepted and sent a blob it cannot open.
11. `CallsUnasked.cfg`. A new offer, a reject or a late accept leaves a capture thread
    that sends in a call its user never took; call ids are sent and never compared.
12. By reading: what `accept_call` or `_flush_pending` raises leaves `_poll_events`
    before it sets its next run; the window handles no event from then on (window
    `dead` in `Calls`, `polling` in `Outbox`).
13. `LocalAccountEither.cfg`. Sign-up and restore write the two copies of the key one
    after the other; ended in between, the account has no phrase that opens it.
14. `ContactsFallback.cfg`. The list entry of a contact seen on the LAN loses its relay
    and keeps its address: attempts dial the old address until a restart.
15. `Contacts`, exception `unstored`: a contact marked as verified before it has a row
    is not, after a restart.
16. `Outbox`, the exceptions of its properties: a queue whose sending broke off stays
    without a timer and is later sent again from the start; a message typed between
    registration and flush overtakes the queue; a queue is given up early, or
    silently.
17. `WebSessionGreeting.cfg`. The avatar and the presence that a browser sends on every
    connection read the same chain key across an await: one key encrypts both, and
    the receiver opens nothing after the first.
18. `WebSessionTwice.cfg`. A frame redelivered while the first is being decrypted
    passes the same index check, and is shown twice.
19. `WebSessionEarly.cfg`. A message that arrives while the hello_ack's session is
    being derived is dropped and acknowledged, and every later one is rejected.

Two overlapping `connect_relay` calls (the checks and the pending entry are under
no common lock) end in the same state as 6: the second hello replaces the peer's
session after messages under the first were sent.

## Plan

What is left, in this order:

1. The browser's hello and contact gate (`_handleHello`, `acceptContactRequest`,
   requests kept over a page reload) before `WebSession`'s first state, and
   `groups.js` over it.
2. The four frames of the LAN handshake and two peers that dial each other at once
   (`network.py:230-385`): `Contacts` and `Outbox` have only its outcome.
3. `Groups` with a restart between two saves.

## Not modelled

* Group calls and the browser's calls. Neither uses WebRTC (`calls.js:3`,
  `groupcalls.js:2`): media are recorded in chunks that the pairwise sessions carry, and
  what is left is set-up that awaits the browser's media devices.
* The browser's storage and backups, and what it keeps for its next visit.
* Bytes: a `sendall` that is split by another thread's (a hazard in `PROJECT.json`
  without a property), malformed frames, sizes.
* The counts of the rate limiter, the ranking of suggestions, search and
  transcription in the accounts server; `send_when_ready`'s deadline.
* Video, muting, captions and playback in calls; restored contacts; saved groups.
* Layout and pickers (`gui.py`, `app.js` beyond the flows above), the AI assistant,
  translation, GIF search, attachments' encodings, avatars, the scrypt worker, static
  file serving, test-vector generation and deployment scripts: they keep no state
  another part relies on, or call external services.

The cryptographic primitives are external: a model takes them to be perfect.
