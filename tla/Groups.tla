------------------------------- MODULE Groups -------------------------------
(***************************************************************************)
(* One group of the desktop client (haven/groups.py): who each member      *)
(* thinks is in it, each member's sender-key chain and the copies of it.   *)
(*                                                                         *)
(* Two threads of an application change a group: the window's and the      *)
(* relay client's, which runs handle_incoming.  There is no lock: each     *)
(* changes the group in memory, saves it, and then starts a thread per     *)
(* message, which waits for a session with the recipient and sends.  So    *)
(* messages between two peers arrive in any order, each once or, when      *)
(* there is no session in time, never.                                     *)
(*                                                                         *)
(* A rotation between the two reads of a chain is not shown, nor a change  *)
(* of the members while they are iterated, nor what was saved being read   *)
(* again after a restart.  Names and saved histories are left out.         *)
(***************************************************************************)
EXTENDS Naturals, Bags

CONSTANTS
  Peers,
  Creator,     \* who creates the group
  May,         \* May[p]: what p's window does
  MaxOps       \* bound: how much the windows do in all

Ops == {"add", "remove", "send"}

ASSUME GroupsAssumption ==
  /\ Creator \in Peers
  /\ May \in [Peers -> SUBSET Ops]
  /\ MaxOps \in Nat

VARIABLES
  group,      \* group[p]: p's entry of self.groups, or NoGroup
  task,       \* task[p][t]: what thread t has still to send, a set of at most one
  ratcheting, \* p's window is inside encrypt, between the chain key and the index
  dead,       \* p's relay thread was ended by an exception nothing catches
  net,        \* group messages on their way, a bag
  gens,       \* gens[p]: how many chains p generated
  ops,        \* how much the windows did
  sent,       \* sent[p]: how many messages p encrypted
  told,       \* every chain state that was sent, and to whom (history)
  out,        \* every group message that was sent (history)
  listed      \* listed[p]: whom p has ever had as members (history)

vars == <<group, task, ratcheting, dead, net, gens, ops, sent, told, out, listed>>

----------------------------------------------------------------------------
Threads == {"window", "relay"}

\* A SenderKeyChain: the `key` it stands at, counted from its generation, and
\* the index its next message gets or must have.
Chain == [gen: Nat, key: Nat, index: Nat]
NoChain == [gen |-> 0, key |-> 0, index |-> 0]

Group == [members: SUBSET Peers, chain: Chain, copies: [Peers -> Chain],
          removed: BOOLEAN]
NoGroup == [members |-> {}, chain |-> NoChain,
            copies |-> [q \in Peers |-> NoChain], removed |-> FALSE]

\* crypto.SenderKeyChain(os.urandom(32)): p's next one.
NewChain(p) == [gen |-> gens[p] + 1, key |-> 0, index |-> 0]

Advanced(c) == [c EXCEPT !.key = @ + 1, !.index = @ + 1]

\* What a thread sends once it has saved.
Then ==
  [do: {"invite", "keys"}, to: SUBSET Peers]
    \cup [do: {"announce"}, chain: Chain]
    \cup [do: {"add"}, member: Peers]
    \cup [do: {"remove"}, member: Peers, listed: BOOLEAN]
    \cup [do: {"msg"}, chain: Chain]

Message ==
  [type: {"invite"}, from: Peers, to: Peers, members: SUBSET Peers, chain: Chain]
    \cup [type: {"sender_key", "msg"}, from: Peers, to: Peers, chain: Chain]
    \cup [type: {"add", "remove"}, from: Peers, to: Peers, member: Peers]

AtMostOne(S) == \A x, y \in S : x = y

TypeOK ==
  /\ group \in [Peers -> Group]
  /\ task \in [Peers -> [Threads -> SUBSET Then]]
  /\ \A p \in Peers, t \in Threads : AtMostOne(task[p][t])
  /\ ratcheting \in [Peers -> BOOLEAN]
  /\ dead \in [Peers -> BOOLEAN]
  /\ IsABag(net) /\ BagToSet(net) \subseteq Message
  /\ gens \in [Peers -> Nat]
  /\ ops \in Nat
  /\ sent \in [Peers -> Nat]
  /\ told \subseteq [to: Peers, of: Peers, chain: Chain]
  /\ out \subseteq [from: Peers, chain: Chain, n: Nat, members: SUBSET Peers,
                    listed: SUBSET Peers]
  /\ listed \in [Peers -> SUBSET Peers]

Init ==
  /\ group = [p \in Peers |-> NoGroup]
  /\ task = [p \in Peers |-> [t \in Threads |-> {}]]
  /\ ratcheting = [p \in Peers |-> FALSE]
  /\ dead = [p \in Peers |-> FALSE]
  /\ net = EmptyBag
  /\ gens = [p \in Peers |-> 0]
  /\ ops = 0
  /\ sent = [p \in Peers |-> 0]
  /\ told = {}
  /\ out = {}
  /\ listed = [p \in Peers |-> {}]
----------------------------------------------------------------------------
\* Mutant of Seen: the relay thread reads half of an encrypt that is over.
SeenTorn(p) ==
  [gen: {group[p].chain.gen}, key: {group[p].chain.key - 1}, index: {group[p].chain.index}]

\* The chain as another thread than the window's may read it: while encrypt is
\* under way, the key and the index each as they were or as they will be.
Seen(p) ==
  LET c == group[p].chain
  IN  IF ratcheting[p]
      THEN [gen: {c.gen}, key: {c.key - 1, c.key}, index: {c.index, c.index + 1}]
      ELSE {c}

\* Mutant of ReadBy: what is handed out is the chain as it was generated.
FirstState(t, p) == {[group[p].chain EXCEPT !.key = 0, !.index = 0]}

\* What thread t of p reads of its chain to hand it out.
ReadBy(t, p) == IF t = "relay" THEN Seen(p) ELSE {group[p].chain}

\* Thread t of p makes the group g, saves it, and has `then` to send.
Change(p, t, g, then) ==
  /\ group' = [group EXCEPT ![p] = g]
  /\ task' = [task EXCEPT ![p][t] = then]
  /\ listed' = [listed EXCEPT ![p] = @ \cup g.members]

\* The messages of `then`, with c for the chain and the members as they are
\* now.  A joiner announces the chain it made, even if it has rotated since.
MessagesOf(p, then, c) ==
  LET members == group[p].members
      invite(q) == [type |-> "invite", from |-> p, to |-> q,
                    members |-> members, chain |-> c]
      withChain(type, q, chain) ==
        [type |-> type, from |-> p, to |-> q, chain |-> chain]
      about(type, q, r) ==
        [type |-> type, from |-> p, to |-> q, member |-> r]
  IN  CASE then.do = "invite" -> {invite(q) : q \in then.to}
        [] then.do = "keys" -> {withChain("sender_key", q, c) : q \in then.to}
        [] then.do = "announce" ->
             {withChain("sender_key", q, IF c.gen = then.chain.gen THEN c ELSE then.chain) :
                q \in members \ {p}}
        [] then.do = "add" ->
             {invite(then.member)} \cup
             {about("add", q, then.member) : q \in members \ {p, then.member}}
        [] then.do = "remove" ->
             (IF then.listed THEN {about("remove", then.member, then.member)} ELSE {})
             \cup {about("remove", q, then.member) : q \in members \ {p}}
             \cup {withChain("sender_key", q, c) : q \in members \ {p}}
        [] then.do = "msg" ->
             {withChain("msg", q, then.chain) : q \in members \ {p}}

----------------------------------------------------------------------------
\* The window's operations.

Idle(p, t) == task[p][t] = {} /\ (t = "window" => ~ratcheting[p])

Does(p, op) ==
  /\ Idle(p, "window")
  /\ group[p] # NoGroup
  /\ op \in May[p]
  /\ ops < MaxOps
  /\ ops' = ops + 1

\* create_group, once: another call makes another group.
Create(others) ==
  /\ Idle(Creator, "window")
  /\ gens[Creator] = 0
  /\ Change(Creator, "window",
            [NoGroup EXCEPT !.members = others \cup {Creator}, !.chain = NewChain(Creator)],
            {[do |-> "invite", to |-> others]})
  /\ gens' = [gens EXCEPT ![Creator] = @ + 1]
  /\ UNCHANGED <<ratcheting, dead, net, ops, sent, told, out>>

\* add_member, of anyone whose contact card p has.
AddMember(p, q) ==
  /\ q # p
  /\ Does(p, "add")
  /\ Change(p, "window", [group[p] EXCEPT !.members = @ \cup {q}],
            {[do |-> "add", member |-> q]})
  /\ UNCHANGED <<ratcheting, dead, net, gens, sent, told, out>>

\* What the relay thread of p has to send when the chain is replaced: it may
\* hold the old one, to announce it as it was when it was last used.
Held(p) ==
  LET old == group[p].chain
  IN  {IF then.do = "announce" /\ then.chain.gen = old.gen
       THEN [then EXCEPT !.chain = old] ELSE then : then \in task[p]["relay"]}

\* remove_member: the window does not offer p itself, and its list may be out
\* of date.
RemoveMember(p, q) ==
  /\ q # p
  /\ Does(p, "remove")
  /\ LET g == [group[p] EXCEPT !.members = @ \ {q}, !.copies[q] = NoChain,
                               !.chain = NewChain(p)]
         then == [do |-> "remove", member |-> q, listed |-> q \in group[p].members]
     IN  /\ group' = [group EXCEPT ![p] = g]
         /\ task' = [task EXCEPT ![p] = [window |-> {then}, relay |-> Held(p)]]
  /\ gens' = [gens EXCEPT ![p] = @ + 1]
  /\ UNCHANGED <<ratcheting, dead, net, sent, told, out, listed>>

\* send_group_message enters encrypt, which replaces the chain's key first.
Ratchet(p) ==
  /\ Does(p, "send")
  /\ group' = [group EXCEPT ![p].chain.key = @ + 1]
  /\ ratcheting' = [ratcheting EXCEPT ![p] = TRUE]
  /\ sent' = [sent EXCEPT ![p] = @ + 1]
  /\ UNCHANGED <<task, dead, net, gens, told, out, listed>>

\* Mutant of Encrypt: a copy is ratcheted, and the chain stays where it was.
EncryptOnCopy(p) ==
  /\ ratcheting[p]
  /\ LET c == [group[p].chain EXCEPT !.key = @ - 1]
     IN  Change(p, "window", [group[p] EXCEPT !.chain = c], {[do |-> "msg", chain |-> c]})
  /\ ratcheting' = [ratcheting EXCEPT ![p] = FALSE]
  /\ UNCHANGED <<dead, net, gens, ops, sent, told, out>>

\* encrypt counts the index up, and the group is to be saved and the message
\* sent: it was encrypted with the key and has the index from before.
Encrypt(p) ==
  /\ ratcheting[p]
  /\ LET c == group[p].chain
     IN  Change(p, "window", [group[p] EXCEPT !.chain.index = @ + 1],
                {[do |-> "msg", chain |-> [c EXCEPT !.key = @ - 1]]})
  /\ ratcheting' = [ratcheting EXCEPT ![p] = FALSE]
  /\ UNCHANGED <<dead, net, gens, ops, sent, told, out>>

\* The thread starts its sends.
Send(p, t) ==
  /\ \E then \in task[p][t], c \in ReadBy(t, p) :
       LET messages == MessagesOf(p, then, c)
       IN  /\ net' = net (+) SetToBag(messages)
           /\ told' = told \cup
                {[to |-> m.to, of |-> p, chain |-> m.chain] :
                   m \in {x \in messages : x.type \in {"invite", "sender_key"}}}
           /\ out' = IF then.do = "msg"
                     THEN out \cup {[from |-> p, chain |-> then.chain, n |-> sent[p],
                                     members |-> group[p].members, listed |-> listed[p]]}
                     ELSE out
  /\ task' = [task EXCEPT ![p][t] = {}]
  /\ UNCHANGED <<group, ratcheting, dead, gens, ops, sent, listed>>

----------------------------------------------------------------------------
\* handle_incoming, on the relay thread.

\* p takes m off the net, and knows the group or not.
Takes(p, m, type) ==
  /\ Idle(p, "relay") /\ ~dead[p]
  /\ m.to = p /\ m.type = type
  /\ net' = net (-) SetToBag({m})

Ignores == UNCHANGED <<group, task, listed>>

\* _on_invite: of a new member, or of one that knows the group.
OnInvite(p, m) ==
  /\ Takes(p, m, "invite")
  /\ \/ p \notin m.members /\ Ignores /\ UNCHANGED gens
     \/ /\ p \in m.members
        /\ group[p] = NoGroup
        /\ Change(p, "relay",
                  [NoGroup EXCEPT !.members = m.members, !.chain = NewChain(p),
                                  !.copies[m.from] = m.chain],
                  {[do |-> "announce", chain |-> NewChain(p)]})
        /\ gens' = [gens EXCEPT ![p] = @ + 1]
     \/ /\ p \in m.members
        /\ group[p] # NoGroup
        /\ Change(p, "relay",
                  [group[p] EXCEPT !.members = @ \cup m.members,
                                   !.copies[m.from] = m.chain, !.removed = FALSE],
                  {})
        /\ UNCHANGED gens
  /\ UNCHANGED <<ratcheting, dead, ops, sent, told, out>>

\* _on_sender_key: whatever copy there was is replaced.
OnSenderKey(p, m) ==
  /\ Takes(p, m, "sender_key")
  /\ IF group[p] = NoGroup THEN Ignores
     ELSE Change(p, "relay", [group[p] EXCEPT !.copies[m.from] = m.chain], {})
  /\ UNCHANGED <<ratcheting, dead, gens, ops, sent, told, out>>

\* _on_group_msg: without the group, the sender's chain or the right index the
\* message is dropped.  The copy moves on before the tag is verified, and
\* InvalidTag ends the thread.
OnGroupMsg(p, m) ==
  /\ Takes(p, m, "msg")
  /\ LET copy == group[p].copies[m.from]
         g == [group[p] EXCEPT !.copies[m.from] = Advanced(@)]
     IN  \/ /\ copy = NoChain \/ copy.index # m.chain.index
            /\ Ignores /\ UNCHANGED dead
         \/ /\ copy # NoChain /\ copy = m.chain
            /\ Change(p, "relay", g, {})
            /\ UNCHANGED dead
         \/ /\ copy # NoChain /\ copy.index = m.chain.index /\ copy # m.chain
            /\ group' = [group EXCEPT ![p] = g]
            /\ dead' = [dead EXCEPT ![p] = TRUE]
            /\ UNCHANGED <<task, listed>>
  /\ UNCHANGED <<ratcheting, gens, ops, sent, told, out>>

\* _on_member_add: the new member is sent this one's chain.
OnMemberAdd(p, m) ==
  /\ Takes(p, m, "add")
  /\ IF group[p] = NoGroup THEN Ignores
     ELSE Change(p, "relay", [group[p] EXCEPT !.members = @ \cup {m.member}],
                 {[do |-> "keys", to |-> {m.member}]})
  /\ UNCHANGED <<ratcheting, dead, gens, ops, sent, told, out>>

\* _on_member_remove
OnMemberRemove(p, m) ==
  /\ Takes(p, m, "remove")
  /\ \/ group[p] = NoGroup /\ Ignores
     \/ /\ group[p] # NoGroup /\ m.member = p
        /\ Change(p, "relay", [group[p] EXCEPT !.removed = TRUE], {})
     \/ /\ group[p] # NoGroup /\ m.member # p
        /\ Change(p, "relay",
                  [group[p] EXCEPT !.members = @ \ {m.member},
                                   !.copies[m.member] = NoChain],
                  {})
  /\ UNCHANGED <<ratcheting, dead, gens, ops, sent, told, out>>

----------------------------------------------------------------------------
Next ==
  \/ \E others \in SUBSET (Peers \ {Creator}) \ {{}} : Create(others)
  \/ \E p \in Peers :
       \/ \E q \in Peers : AddMember(p, q) \/ RemoveMember(p, q)
       \/ Ratchet(p) \/ Encrypt(p)
       \/ \E t \in Threads : Send(p, t)
       \/ \E m \in BagToSet(net) :
            \/ OnInvite(p, m) \/ OnSenderKey(p, m) \/ OnGroupMsg(p, m)
            \/ OnMemberAdd(p, m) \/ OnMemberRemove(p, m)

Spec == Init /\ [][Next]_vars

----------------------------------------------------------------------------
\* r can derive the key that message e was encrypted with from what it was sent.
CanRead(r, e) ==
  \E k \in told : k.to = r /\ k.of = e.from /\ k.chain.gen = e.chain.gen
                  /\ k.chain.key <= e.chain.key

\* No sender-key message key encrypts two messages (crypto.py:213-220), though
\* a chain is handed to other members by another thread while it is in use.
GroupKeyUsedOnce ==
  \A e, f \in out :
    (e.from = f.from /\ e.chain.gen = f.chain.gen /\ e.chain.key = f.chain.key)
    => e.n = f.n

\* Whoever can read a message was a member, as its sender saw it, by the time
\* it was sent: a newcomer "cannot decrypt anything sent before they joined"
\* (groups.py:21-23).
NothingOlderIsReadable == \A e \in out : \A r \in Peers : CanRead(r, e) => r \in e.listed

\* Removed members are shut out: whoever can read a message is a member, as
\* its sender saw it, when it was sent (groups.py:25-31).
OnlyMembersRead == \A e \in out : \A r \in Peers : CanRead(r, e) => r \in e.members

\* Once every message was handled, each member has the chain of every member
\* it lists, "receiving from everyone going forward" (groups.py:21-22).
Settled == net = EmptyBag /\ \A p \in Peers, t \in Threads : Idle(p, t)
EveryoneHasEveryKey ==
  Settled =>
    \A p, q \in Peers :
      (p # q /\ q \in group[p].members /\ p \in group[q].members)
      => group[p].copies[q] = group[q].chain
============================================================================
