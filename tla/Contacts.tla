------------------------------ MODULE Contacts ------------------------------
(***************************************************************************)
(* What the desktop client knows of one contact: its row of the contacts   *)
(* table (haven/storage.py), its entry in the window's peer_meta (gui.py), *)
(* the relays of config.json (config.py), the LAN beacons heard            *)
(* (discovery.py), and the way the window takes to reach the contact.      *)
(*                                                                         *)
(* The window's thread runs its handlers one at a time.  The discovery     *)
(* threads write Discovery.peers, a network thread stores a contact that   *)
(* has connected and queues a "connect" event.  The contact comes to the   *)
(* LAN and leaves it, and relays go up and down, as they please.           *)
(*                                                                         *)
(* A relay stands for its (host, port) pair and its key "host:port".       *)
(* Names, avatars and groups' own members are left out.                    *)
(***************************************************************************)
EXTENDS Naturals

CONSTANTS
  Relays,
  MaxSteps   \* bound: what the user does, and the window's restarts

ASSUME ContactsAssumption == {"none", "direct"} \cap Relays = {} /\ MaxSteps \in Nat

VARIABLES
  row,       \* the contact's row
  meta,      \* the contact's entry in peer_meta
  config,    \* "relays" of config.json
  relays,    \* the relays that have a client; NetworkManager.relays has the same
  connected, \* the relays whose client is connected
  onLan,     \* the contact listens on the LAN (the contact's doing)
  peers,     \* Discovery.peers has the contact
  reach,     \* how NetworkManager.connections reaches the contact
  queued,    \* there is a "connect" event in the queue
  offered,   \* the relays an open "Assign relay" dialog lists, or Closed
  steps,     \* how often the user did something
  route,     \* the latest way tried, for the how manieth time (history)
  confirmed, \* the user confirmed the contact's safety number (history)
  partings   \* what may part the window from the table (history)

stored == <<row, config>>
network == <<relays, connected, reach>>
lan == <<onLan, peers>>
contactWindow == <<meta, queued, offered>>
contactHistory == <<route, confirmed, partings>>
contactVars == <<stored, network, lan, contactWindow, steps, contactHistory>>

----------------------------------------------------------------------------
None == "none"
Closed == {None}
MaybeRelay == Relays \cup {None}

\* known: there is a row, or an entry.  host: there is an address.  A row's host
\* is "" whoever stores it; only a backup has another.  identity: "identity_pub".
NoRow == [known |-> FALSE, verified |-> FALSE, relay |-> None]
NoMeta == [known |-> FALSE, verified |-> FALSE, relay |-> None, host |-> FALSE]

\* What parts the entry from the row: its relay, its verified flag.  A
\* confirmation without a row is not remembered even by a restart.
RelayCauses == {"discovered", "card", "no row"}
BadgeCauses == {"card again", "unstored"}
Parted(kinds) == partings \cap kinds # {}
Parting(condition, kind) == IF condition THEN {kind} ELSE {}

ContactsInit ==
  /\ row = NoRow /\ config = {}
  /\ relays = {} /\ connected = {} /\ reach = None
  /\ onLan = FALSE /\ peers = FALSE
  /\ meta = NoMeta /\ queued = FALSE /\ offered = Closed
  /\ steps = 0
  /\ route = [via |-> "none", count |-> 0] /\ confirmed = FALSE /\ partings = {}

User == steps < MaxSteps /\ steps' = steps + 1

----------------------------------------------------------------------------
\* A version that starts the row anew.
UpsertedAnew(relay) == [known |-> TRUE, verified |-> FALSE, relay |-> relay]

\* Store.upsert_contact: an existing row keeps its verified flag, and keeps its
\* relay when none is given.
Upserted(relay) ==
  [row EXCEPT !.known = TRUE, !.relay = IF relay = None THEN @ ELSE relay]

\* UPDATE contacts: nothing happens when there is no row.
WithRelay(relay) == IF row.known THEN [row EXCEPT !.relay = relay] ELSE row
WithVerified == IF row.known THEN [row EXCEPT !.verified = TRUE] ELSE row

\* config.add_relay and remove_relay.
Configured(relay) == config' = config \cup {relay}
Unconfigured(relay) == config' = config \ {relay}

\* add_relay and _start_relay.
StartRelay(relay) ==
  /\ Configured(relay)
  /\ relays' = relays \cup {relay}
  /\ connected' = connected \ {relay}

AddRelay(relay) ==
  /\ User /\ StartRelay(relay)
  /\ UNCHANGED <<row, reach, lan, contactWindow, contactHistory>>

\* A version that forgets a relay's client without stopping it.
RemoveRelayConnected(relay) ==
  /\ User /\ relay \in config
  /\ Unconfigured(relay)
  /\ relays' = relays \ {relay}
  /\ UNCHANGED <<row, connected, reach, lan, contactWindow, contactHistory>>

\* _stop_relay: its client is stopped, so it is not connected.  (A "relay_status"
\* event still in the queue can bring the key back to the window's
\* relay_connected, which is only counted for the status line.)
RemoveRelay(relay) ==
  /\ User /\ relay \in config
  /\ Unconfigured(relay)
  /\ relays' = relays \ {relay}
  /\ connected' = connected \ {relay}
  /\ UNCHANGED <<row, reach, lan, contactWindow, contactHistory>>

\* The user is asked whether to add a card's relay that is not configured.
CardRelay(relay, added) ==
  IF relay = None \/ relay \in config THEN ~added ELSE TRUE
CardRelays(relay, added) ==
  IF added THEN StartRelay(relay) ELSE UNCHANGED <<config, relays, connected>>
\* The relay_key that the window keeps: none if the user declined.
KeyOf(relay, added) == IF added \/ relay \in config THEN relay ELSE None

\* _add_contact_by_card replaces the entry, whatever it said.
AddByCard(relay, added) ==
  /\ User /\ CardRelay(relay, added)
  /\ CardRelays(relay, added)
  /\ row' = Upserted(relay)
  /\ meta' = [known |-> TRUE, verified |-> FALSE, host |-> FALSE, relay |-> KeyOf(relay, added)]
  /\ partings' = (partings \ RelayCauses)
       \cup Parting(row.verified \/ meta.verified, "card again")
       \cup Parting(KeyOf(relay, added) # row'.relay, "card")
  /\ UNCHANGED <<reach, lan, queued, offered, route, confirmed>>

\* do_add of "Manage members", for a card with a relay.
AddMember(relay, added) ==
  /\ User /\ relay # None /\ CardRelay(relay, added)
  /\ CardRelays(relay, added)
  /\ row' = WithRelay(relay)
  /\ meta' = [meta EXCEPT !.known = TRUE, !.relay = KeyOf(relay, added)]
  /\ partings' = (partings \ RelayCauses)
       \cup Parting(KeyOf(relay, added) # relay, "card")
       \cup Parting(~row.known, "no row")
  /\ UNCHANGED <<reach, lan, queued, offered, route, confirmed>>

\* _assign_relay_to_current: the dialog lists the relays of when it was opened.
OpenAssign ==
  /\ User /\ meta.known /\ config # {}
  /\ offered' = config
  /\ UNCHANGED <<stored, network, lan, meta, queued, contactHistory>>
SaveAssign(relay) ==
  /\ offered # Closed /\ relay \in offered \cup {None}
  /\ row' = WithRelay(relay)
  /\ meta' = [meta EXCEPT !.relay = relay]
  /\ offered' = Closed
  /\ partings' = (partings \ RelayCauses) \cup Parting(~row.known, "no row")
  /\ UNCHANGED <<config, network, lan, queued, steps, route, confirmed>>

\* _verify_current, when the user says that the numbers match.
Verify ==
  /\ User /\ meta.known
  /\ row' = WithVerified
  /\ meta' = [meta EXCEPT !.verified = TRUE]
  /\ confirmed' = TRUE
  /\ partings' = (partings \ BadgeCauses) \cup Parting(~row.known, "unstored")
  /\ UNCHANGED <<config, network, lan, queued, offered, route>>

----------------------------------------------------------------------------
\* Discovery._listen_loop and _reap_loop.
Beacon ==
  /\ onLan /\ ~peers /\ peers' = TRUE
  /\ UNCHANGED <<stored, network, contactWindow, onLan, steps, contactHistory>>
Reap ==
  /\ peers /\ ~onLan /\ peers' = FALSE
  /\ UNCHANGED <<stored, network, contactWindow, onLan, steps, contactHistory>>

\* A version that carries nothing over.
RefreshPeerListAnew ==
  /\ peers
  /\ meta' = [known |-> TRUE, verified |-> FALSE, host |-> TRUE, relay |-> None]
  /\ meta' # meta
  /\ partings' = partings \cup {"discovered"}
  /\ UNCHANGED <<stored, network, lan, queued, offered, steps, route, confirmed>>

\* _refresh_peer_list builds the entry anew: "verified" is carried over,
\* "relay_key" is not.  Nothing takes the address out again.
RefreshPeerList ==
  /\ peers
  /\ meta' = [known |-> TRUE, verified |-> meta.verified, host |-> TRUE, relay |-> None]
  /\ meta' # meta
  /\ partings' = partings \cup {"discovered"}
  /\ UNCHANGED <<stored, network, lan, queued, offered, steps, route, confirmed>>

\* A connection is registered, and _on_connect_threaded called for it.
Registered(how) ==
  /\ reach' = how
  /\ row' = Upserted(None)
  /\ queued' = TRUE

\* The contact dials this client, or says hello through a relay.
Inbound(how) ==
  /\ how \in connected \/ (how = "direct" /\ onLan)
  /\ Registered(how)
  /\ UNCHANGED <<config, relays, connected, lan, meta, offered, steps, contactHistory>>

\* _read_loop ends.  A relay's connection is never taken out.
Disconnected ==
  /\ reach = "direct"
  /\ reach' = None
  /\ UNCHANGED <<stored, relays, connected, lan, contactWindow, steps, contactHistory>>

\* _poll_events: setdefault fills in what is missing.
PollConnect ==
  /\ queued
  /\ queued' = FALSE
  /\ meta' = [meta EXCEPT !.known = TRUE]
  /\ UNCHANGED <<stored, network, lan, offered, steps, contactHistory>>

\* A version that takes "" for an address.
AttemptAnyAddress ==
  /\ User /\ meta.known /\ reach = None
  /\ LET via == IF meta.known THEN "direct"
                ELSE IF meta.relay \in connected THEN "relay"
                ELSE "none"
     IN /\ route' = [via |-> via, count |-> steps']
        /\ \/ via = "direct" /\ onLan /\ Registered("direct")
           \/ via = "relay" /\ Registered(meta.relay)
           \/ UNCHANGED <<reach, row, queued>>
  /\ UNCHANGED <<config, relays, connected, lan, meta, offered, confirmed, partings>>

\* _open_chat and _send_content, when there is no connection: _attempt_connect.
\* A direct attempt succeeds if the contact listens; one through a relay is a
\* hello, which the contact may answer.
Attempt ==
  /\ User /\ meta.known /\ reach = None
  /\ LET via == IF meta.host THEN "direct"
                ELSE IF meta.relay \in connected THEN "relay"
                ELSE "none"
     IN /\ route' = [via |-> via, count |-> steps']
        /\ \/ via = "direct" /\ onLan /\ Registered("direct")
           \/ via = "relay" /\ Registered(meta.relay)
           \/ UNCHANGED <<reach, row, queued>>
  /\ UNCHANGED <<config, relays, connected, lan, meta, offered, confirmed, partings>>

RelayUp(relay) ==
  /\ relay \in relays \ connected
  /\ connected' = connected \cup {relay}
  /\ UNCHANGED <<stored, relays, reach, lan, contactWindow, steps, contactHistory>>
RelayDown(relay) ==
  /\ relay \in connected
  /\ connected' = connected \ {relay}
  /\ UNCHANGED <<stored, relays, reach, lan, contactWindow, steps, contactHistory>>
ContactMoves ==
  /\ onLan' = ~onLan
  /\ UNCHANGED <<stored, network, contactWindow, peers, steps, contactHistory>>

\* _refresh_contacts
Loaded ==
  IF row.known
  THEN [known |-> TRUE, verified |-> row.verified, relay |-> row.relay, host |-> FALSE]
  ELSE NoMeta

\* The window is closed, or the process ends, and is started again.
Reopen ==
  /\ User
  /\ meta' = Loaded /\ queued' = FALSE /\ offered' = Closed
  /\ relays' = config /\ connected' = {} /\ reach' = None
  /\ peers' = FALSE
  /\ partings' = partings \cap {"unstored"}
  /\ UNCHANGED <<stored, onLan, route, confirmed>>

ContactsNext ==
  \/ \E r \in Relays : AddRelay(r) \/ RemoveRelay(r) \/ RelayUp(r) \/ RelayDown(r)
  \/ \E r \in MaybeRelay, added \in BOOLEAN : AddByCard(r, added) \/ AddMember(r, added)
  \/ OpenAssign \/ \E r \in MaybeRelay : SaveAssign(r)
  \/ Verify \/ Attempt \/ Reopen
  \/ Beacon \/ Reap \/ RefreshPeerList \/ ContactMoves
  \/ \E how \in Relays \cup {"direct"} : Inbound(how)
  \/ Disconnected \/ PollConnect

ContactsSpec == ContactsInit /\ [][ContactsNext]_contactVars

----------------------------------------------------------------------------
\* A configured relay has a client, and a connected client is a configured one's.
ContactsTypeOK ==
  /\ row \in [known: BOOLEAN, verified: BOOLEAN, relay: MaybeRelay]
  /\ meta \in [known: BOOLEAN, verified: BOOLEAN, relay: MaybeRelay, host: BOOLEAN]
  /\ config \subseteq Relays /\ relays = config /\ connected \subseteq relays
  /\ onLan \in BOOLEAN /\ peers \in BOOLEAN
  /\ reach \in MaybeRelay \cup {"direct"} /\ queued \in BOOLEAN
  /\ offered \subseteq Relays \/ offered = Closed
  /\ steps \in 0..MaxSteps
  /\ route \in [via: {"none", "direct", "relay"}, count: 0..MaxSteps]
  /\ confirmed \in BOOLEAN /\ partings \subseteq RelayCauses \cup BadgeCauses

\* A confirmation lasts: the contact's row stays verified whatever is stored
\* over it (storage.py:117-124), unless there was no row to mark, the contact
\* having been seen on the LAN only (gui.py:1535, storage.py:132).
ConfirmationLasts == confirmed => row.verified \/ Parted({"unstored"})

\* The badge in the window is the one of the table, unless the contact was
\* added once more from its card, or confirmed without a row.
BadgeAgrees ==
  row.known /\ meta.known /\ meta.verified # row.verified => Parted(BadgeCauses)

\* The relay the window uses for a contact is the one stored for it, unless
\* the contact was seen on the LAN since (gui.py:718-726), its card came
\* without the relay or the relay was declined, or there was no row.
RelayAgrees ==
  row.known /\ meta.known /\ meta.relay # row.relay => Parted(RelayCauses)

\* What the window shows of a contact, and acts by, is what is stored.
ListAgrees == BadgeAgrees /\ RelayAgrees

\* "Try direct LAN first if we have a live address for this contact; otherwise
\* fall back to whichever relay THIS contact is assigned to" (gui.py:801-804):
\* when the contact's beacons have stopped and its relay is connected, an
\* attempt goes through the relay.
NotLive == route' # route /\ ~peers /\ row.relay \in connected
FallsBack == [][NotLive => route'.via = "relay"]_contactVars

\* The same, unless the window and the table disagree about the relay, or the
\* contact was seen on the LAN since the window was opened.
FallsBackIfNeverSeen ==
  [][NotLive => route'.via = "relay" \/ Parted(RelayCauses) \/ meta.host]_contactVars
============================================================================
