---------------------------- MODULE GroupsProofs ----------------------------
(***************************************************************************)
(* Proofs about Groups, for any peers, whatever their windows may do.      *)
(***************************************************************************)
EXTENDS Groups, Integers, TLAPS

----------------------------------------------------------------------------
(* The inductive invariant *)

\* p has a chain if it has the group, and its chain is its newest.
Joined(p) ==
  /\ group[p].chain.gen = gens[p]
  /\ group[p] = NoGroup <=> gens[p] = 0
  /\ group[p].members \subseteq listed[p]

\* While encrypt is under way the window has nothing to send.
Encrypting(p) ==
  ratcheting[p] =>
    /\ group[p].chain.key \in Nat \ {0} /\ gens[p] # 0
    /\ task[p]["window"] = {}

\* The next key of p's chain, or the one that encrypt has in hand.
NextKey(p) == IF ratcheting[p] THEN group[p].chain.key - 1 ELSE group[p].chain.key

\* The chain c of p is past everything that p sent with it.
Past(p, c) == \A e \in out : e.from = p /\ e.chain.gen = c.gen => e.chain.key < c.key

\* Every message of p's was encrypted with a key that its chain is past, and
\* the one it has to send with a later key than those it sent.
KeysSpent(p) ==
  /\ \A e \in out : e.from = p =>
       /\ e.chain.gen <= gens[p]
       /\ e.chain.gen = gens[p] => e.chain.key < NextKey(p)
  /\ \A then \in task[p]["window"] : then.do = "msg" =>
       /\ gens[p] # 0 /\ then.chain.gen = gens[p] /\ then.chain.key < NextKey(p)
       /\ Past(p, then.chain)
  /\ \A then \in task[p]["relay"] : then.do # "msg"

\* The chain that a thread announces is p's newest, or past all it was used for.
Announced(p) ==
  \A t \in Threads : \A then \in task[p][t] :
    then.do = "announce" =>
      /\ then.chain.gen \in 1..gens[p]
      /\ then.chain.gen # gens[p] => Past(p, then.chain)

\* Whom p's threads are to send its chain to, p has had as members.
Addressed(p) ==
  \A t \in Threads : \A then \in task[p][t] :
    /\ then.do \in {"invite", "keys"} => then.to \subseteq listed[p]
    /\ then.do = "add" => then.member \in listed[p]

KeysAt(p) == Joined(p) /\ Encrypting(p) /\ KeysSpent(p) /\ Announced(p) /\ Addressed(p)
KeyInv == \A p \in Peers : KeysAt(p)

\* Whoever was sent a chain has been a member of its owner's.
ToldMembers == \A k \in told : k.to \in listed[k.of]

Inv == TypeOK /\ KeyInv /\ ToldMembers /\ GroupKeyUsedOnce /\ NothingOlderIsReadable

----------------------------------------------------------------------------
(* Records and bags *)

\* The group g, with these members and this chain.
IsGroup(g, members, chain) == g \in Group /\ g.members = members /\ g.chain = chain

LEMMA ChainFields ==
  /\ NoChain \in Chain /\ NoChain.gen = 0
  /\ \A c \in Chain : c.gen \in Nat /\ c.key \in Nat /\ c.index \in Nat /\ Advanced(c) \in Chain
<1>1. NoChain \in Chain /\ NoChain.gen = 0
  BY DEF NoChain, Chain
<1>2. ASSUME NEW c \in Chain
      PROVE  c.gen \in Nat /\ c.key \in Nat /\ c.index \in Nat /\ Advanced(c) \in Chain
  <2>1. c.gen \in Nat /\ c.key \in Nat /\ c.index \in Nat
    BY DEF Chain
  <2> DEFINE k == c.key + 1
             i == c.index + 1
  <2>2. k \in Nat /\ i \in Nat
    BY <2>1
  <2>3. Advanced(c) = [c EXCEPT !.key = k, !.index = i]
    BY DEF Advanced
  <2> HIDE DEF k, i
  <2>4. Advanced(c) \in Chain
    BY <2>2, <2>3 DEF Chain
  <2>5. QED
    BY <2>1, <2>4
<1>3. QED
  BY <1>1, <1>2

LEMMA NewChainFields ==
  ASSUME TypeOK, NEW p \in Peers
  PROVE  NewChain(p) \in Chain /\ NewChain(p).gen = gens[p] + 1 /\ NewChain(p).key = 0
BY DEF TypeOK, NewChain, Chain

LEMMA NoGroupFields ==
  /\ IsGroup(NoGroup, {}, NoChain)
  /\ \A q \in Peers : NoGroup.copies[q] = NoChain
BY ChainFields DEF NoGroup, IsGroup, Group

LEMMA GroupFields ==
  ASSUME NEW g \in Group
  PROVE  /\ g = [members |-> g.members, chain |-> g.chain, copies |-> g.copies,
                 removed |-> g.removed]
         /\ g.members \in SUBSET Peers /\ g.chain \in Chain /\ g.copies \in [Peers -> Chain]
         /\ g.removed \in BOOLEAN
BY DEF Group

LEMMA BagJoined ==
  ASSUME NEW B, NEW S, IsABag(B)
  PROVE  IsABag(B (+) SetToBag(S)) /\ BagToSet(B (+) SetToBag(S)) = BagToSet(B) \cup S
BY DEF IsABag, (+), SetToBag, BagToSet

LEMMA BagLeft ==
  ASSUME NEW B, NEW S, IsABag(B)
  PROVE  IsABag(B (-) SetToBag(S)) /\ BagToSet(B (-) SetToBag(S)) \subseteq BagToSet(B)
BY DEF IsABag, (-), SetToBag, BagToSet

LEMMA Changed ==
  ASSUME TypeOK, NEW p \in Peers, NEW t \in Threads, NEW g \in Group, NEW then \in SUBSET Then,
         AtMostOne(then), Change(p, t, g, then)
  PROVE  /\ group' \in [Peers -> Group] /\ group'[p] = g
         /\ \A q \in Peers \ {p} : group'[q] = group[q]
         /\ task' \in [Peers -> [Threads -> SUBSET Then]] /\ task'[p][t] = then
         /\ \A q \in Peers, s \in Threads : q # p \/ s # t => task'[q][s] = task[q][s]
         /\ \A q \in Peers, s \in Threads : AtMostOne(task'[q][s])
         /\ listed' \in [Peers -> SUBSET Peers]
         /\ \A q \in Peers : listed[q] \subseteq listed'[q]
         /\ g.members \subseteq listed'[p]
<1>1. group' \in [Peers -> Group] /\ group'[p] = g
      /\ \A q \in Peers \ {p} : group'[q] = group[q]
  BY DEF TypeOK, Change
<1>2. /\ task' \in [Peers -> [Threads -> SUBSET Then]] /\ task'[p][t] = then
      /\ \A q \in Peers, s \in Threads : q # p \/ s # t => task'[q][s] = task[q][s]
  <2> DEFINE tp == [task[p] EXCEPT ![t] = then]
  <2>1. tp \in [Threads -> SUBSET Then] /\ tp[t] = then
        /\ \A s \in Threads : s # t => tp[s] = task[p][s]
    BY DEF TypeOK
  <2>2. task' = [task EXCEPT ![p] = tp]
    BY DEF Change
  <2> HIDE DEF tp
  <2>3. QED
    BY <2>1, <2>2 DEF TypeOK
<1>3. \A q \in Peers, s \in Threads : AtMostOne(task'[q][s])
  BY <1>2 DEF TypeOK
<1>4. /\ listed' \in [Peers -> SUBSET Peers]
      /\ \A q \in Peers : listed[q] \subseteq listed'[q]
      /\ g.members \subseteq listed'[p]
  BY DEF TypeOK, Change, Group
<1>5. QED
  BY <1>1, <1>2, <1>3, <1>4

\* What a thread may have to send, by kind.
LEMMA ThenTyped ==
  ASSUME NEW then \in Then
  PROVE  /\ then.do \in {"invite", "keys", "announce", "add", "remove", "msg"}
         /\ then.do \in {"invite", "keys"} => then.to \subseteq Peers
         /\ then.do \in {"announce", "msg"} => then.chain \in Chain
         /\ then.do \in {"add", "remove"} => then.member \in Peers
BY DEF Then

LEMMA MessageTyped ==
  ASSUME NEW m \in Message
  PROVE  /\ m.type \in {"invite", "sender_key", "msg", "add", "remove"}
         /\ m.from \in Peers /\ m.to \in Peers
         /\ m.type \in {"invite", "sender_key", "msg"} => m.chain \in Chain
         /\ m.type = "invite" => m.members \subseteq Peers
         /\ m.type \in {"add", "remove"} => m.member \in Peers
BY DEF Message

\* Several things to send, one at most of each thread.
LEMMA Thens ==
  /\ {} \in SUBSET Then /\ AtMostOne({})
  /\ \A then \in Then : {then} \in SUBSET Then /\ AtMostOne({then})
  /\ \A to \in SUBSET Peers, do \in {"invite", "keys"} : [do |-> do, to |-> to] \in Then
  /\ \A c \in Chain : [do |-> "announce", chain |-> c] \in Then
  /\ \A c \in Chain : [do |-> "msg", chain |-> c] \in Then
  /\ \A q \in Peers : [do |-> "add", member |-> q] \in Then
  /\ \A q \in Peers, b \in BOOLEAN : [do |-> "remove", member |-> q, listed |-> b] \in Then
<1>1. {} \in SUBSET Then /\ AtMostOne({})
      /\ \A then \in Then : {then} \in SUBSET Then /\ AtMostOne({then})
  BY DEF AtMostOne
<1>2. \A to \in SUBSET Peers, do \in {"invite", "keys"} : [do |-> do, to |-> to] \in Then
  BY DEF Then
<1>3. \A c \in Chain : [do |-> "announce", chain |-> c] \in Then
  BY DEF Then
<1>4. \A c \in Chain : [do |-> "msg", chain |-> c] \in Then
  BY DEF Then
<1>5. \A q \in Peers : [do |-> "add", member |-> q] \in Then
  BY DEF Then
<1>6. \A q \in Peers, b \in BOOLEAN : [do |-> "remove", member |-> q, listed |-> b] \in Then
  BY DEF Then
<1>7. QED
  BY <1>1, <1>2, <1>3, <1>4, <1>5, <1>6

----------------------------------------------------------------------------
(* What each action does *)

\* Only p's state changes, and p's list of members that it ever had grows.
OnlyAt(p) ==
  /\ \A q \in Peers \ {p} :
       /\ group'[q] = group[q] /\ gens'[q] = gens[q] /\ ratcheting'[q] = ratcheting[q]
       /\ \A t \in Threads : task'[q][t] = task[q][t]
  /\ \A q \in Peers : listed[q] \subseteq listed'[q]

\* p keeps its group and its chain, if it has one, and perhaps other members.
KeepsChain(p) ==
  /\ gens' = gens
  /\ \/ group'[p] = group[p]
     \/ /\ group[p] # NoGroup /\ group'[p].chain = group[p].chain
        /\ group'[p].members \subseteq group[p].members \cup listed'[p]

\* p's relay thread handled a message: p keeps its chain and may have keys to
\* send, or joins with a new one.
Handled(p) ==
  /\ TypeOK' /\ OnlyAt(p)
  /\ UNCHANGED <<ratcheting, sent, told, out>>
  /\ task'[p]["window"] = task[p]["window"]
  /\ \/ /\ KeepsChain(p)
        /\ \A then \in task'[p]["relay"] :
             then \in task[p]["relay"] \/ (then.do = "keys" /\ then.to \subseteq listed'[p])
     \/ /\ group[p] = NoGroup
        /\ group'[p].chain = NewChain(p) /\ gens'[p] = gens[p] + 1
        /\ group'[p].members \subseteq listed'[p]
        /\ task'[p]["relay"] = {[do |-> "announce", chain |-> NewChain(p)]}

LEMMA Took ==
  ASSUME TypeOK, NEW p \in Peers, NEW m \in BagToSet(net), NEW type, Takes(p, m, type)
  PROVE  /\ m \in Message /\ m.to = p /\ m.type = type
         /\ IsABag(net') /\ BagToSet(net') \subseteq Message
<1>1. m \in Message /\ m.to = p /\ m.type = type /\ net' = net (-) SetToBag({m}) /\ IsABag(net)
  BY DEF TypeOK, Takes
<1>2. QED
  BY <1>1, BagLeft DEF TypeOK

\* The relay thread of p changes p's group, and its chain stays.
LEMMA HandledChange ==
  ASSUME TypeOK, NEW p \in Peers, NEW g \in Group, NEW then \in SUBSET Then,
         AtMostOne(then), Change(p, "relay", g, then),
         group[p] # NoGroup, g.chain = group[p].chain,
         \A x \in then : x.do = "keys" /\ x.to \subseteq g.members,
         IsABag(net'), BagToSet(net') \subseteq Message, dead' \in [Peers -> BOOLEAN],
         UNCHANGED <<ratcheting, gens, ops, sent, told, out>>
  PROVE  Handled(p)
<1>0. "relay" \in Threads /\ "window" \in Threads /\ "relay" # "window"
  BY DEF Threads
<1>1. /\ group' \in [Peers -> Group] /\ group'[p] = g
      /\ \A q \in Peers \ {p} : group'[q] = group[q]
      /\ task' \in [Peers -> [Threads -> SUBSET Then]] /\ task'[p]["relay"] = then
      /\ \A q \in Peers, s \in Threads : q # p \/ s # "relay" => task'[q][s] = task[q][s]
      /\ \A q \in Peers, s \in Threads : AtMostOne(task'[q][s])
      /\ listed' \in [Peers -> SUBSET Peers]
      /\ \A q \in Peers : listed[q] \subseteq listed'[q]
      /\ g.members \subseteq listed'[p]
  BY <1>0, Changed
<1>2. TypeOK'
  BY <1>1 DEF TypeOK
<1>3. OnlyAt(p)
  BY <1>1 DEF OnlyAt
<1>4. KeepsChain(p) /\ task'[p]["window"] = task[p]["window"]
  BY <1>0, <1>1 DEF KeepsChain
<1>5. \A x \in task'[p]["relay"] : x.do = "keys" /\ x.to \subseteq listed'[p]
  BY <1>1
<1>6. QED
  BY <1>2, <1>3, <1>4, <1>5 DEF Handled

LEMMA HandledIgnored ==
  ASSUME TypeOK, NEW p \in Peers, Ignores,
         IsABag(net'), BagToSet(net') \subseteq Message, dead' \in [Peers -> BOOLEAN],
         UNCHANGED <<ratcheting, gens, ops, sent, told, out>>
  PROVE  Handled(p)
<1>1. TypeOK'
  BY DEF TypeOK, Ignores
<1>2. QED
  BY <1>1 DEF Handled, OnlyAt, KeepsChain, Ignores

LEMMA OnInviteHandles ==
  ASSUME TypeOK, NEW p \in Peers, NEW m \in BagToSet(net), OnInvite(p, m)
  PROVE  Handled(p)
<1>0. /\ m \in Message /\ m.to = p /\ m.type = "invite"
      /\ IsABag(net') /\ BagToSet(net') \subseteq Message
  BY Took DEF OnInvite
<1>1. m.from \in Peers /\ m.chain \in Chain /\ m.members \subseteq Peers
  BY <1>0, MessageTyped
<1>2. dead' \in [Peers -> BOOLEAN] /\ UNCHANGED <<ratcheting, ops, sent, told, out>>
  BY DEF OnInvite, TypeOK
<1>3. CASE Ignores /\ UNCHANGED gens
  BY <1>0, <1>2, <1>3, HandledIgnored
<1>4. CASE /\ p \in m.members /\ group[p] # NoGroup
           /\ Change(p, "relay",
                     [group[p] EXCEPT !.members = @ \cup m.members,
                                      !.copies[m.from] = m.chain, !.removed = FALSE], {})
           /\ UNCHANGED gens
  <2> DEFINE h == group[p]
             members == h.members \cup m.members
             g == [h EXCEPT !.members = members, !.copies[m.from] = m.chain, !.removed = FALSE]
  <2>1. h \in Group /\ members \in SUBSET Peers
    BY <1>1 DEF TypeOK, Group
  <2>3. Change(p, "relay", g, {})
    BY <1>4
  <2> HIDE DEF h, members
  <2>2. g \in Group /\ g.chain = h.chain
    BY <1>1, <2>1, GroupFields DEF Group
  <2> HIDE DEF g
  <2> USE DEF h
  <2>4. QED
    BY <1>0, <1>2, <1>4, <2>2, <2>3, Thens, HandledChange
<1>5. CASE /\ p \in m.members /\ group[p] = NoGroup
           /\ Change(p, "relay",
                     [NoGroup EXCEPT !.members = m.members, !.chain = NewChain(p),
                                     !.copies[m.from] = m.chain],
                     {[do |-> "announce", chain |-> NewChain(p)]})
           /\ gens' = [gens EXCEPT ![p] = @ + 1]
  <2> DEFINE c == NewChain(p)
             h == NoGroup
             g == [h EXCEPT !.members = m.members, !.chain = c, !.copies[m.from] = m.chain]
             then == {[do |-> "announce", chain |-> c]}
  <2>0. "relay" \in Threads /\ "window" \in Threads /\ "relay" # "window"
    BY DEF Threads
  <2>1. c \in Chain
    BY NewChainFields
  <2>2. h \in Group /\ m.members \in SUBSET Peers
    BY <1>1, NoGroupFields DEF IsGroup
  <2>3. Change(p, "relay", g, then)
    BY <1>5
  <2> HIDE DEF c, h
  <2>4. g \in Group /\ g.chain = c /\ g.members = m.members
    BY <1>1, <2>1, <2>2, GroupFields DEF Group
  <2>5. then \in SUBSET Then /\ AtMostOne(then)
    BY <2>1, Thens
  <2> HIDE DEF g, then
  <2>6. /\ group' \in [Peers -> Group] /\ group'[p] = g
        /\ \A q \in Peers \ {p} : group'[q] = group[q]
        /\ task' \in [Peers -> [Threads -> SUBSET Then]] /\ task'[p]["relay"] = then
        /\ \A q \in Peers, s \in Threads : q # p \/ s # "relay" => task'[q][s] = task[q][s]
        /\ \A q \in Peers, s \in Threads : AtMostOne(task'[q][s])
        /\ listed' \in [Peers -> SUBSET Peers]
        /\ \A q \in Peers : listed[q] \subseteq listed'[q]
        /\ g.members \subseteq listed'[p]
    BY <2>0, <2>3, <2>4, <2>5, Changed
  <2>7. gens' \in [Peers -> Nat] /\ gens'[p] = gens[p] + 1
        /\ \A q \in Peers \ {p} : gens'[q] = gens[q]
    BY <1>5 DEF TypeOK
  <2>8. TypeOK'
    BY <1>0, <1>2, <2>6, <2>7 DEF TypeOK
  <2>9. OnlyAt(p)
    BY <1>2, <2>6, <2>7 DEF OnlyAt
  <2>10. QED
    BY <1>2, <1>5, <2>0, <2>4, <2>6, <2>7, <2>8, <2>9 DEF Handled, then, c
<1>6. QED
  BY <1>3, <1>4, <1>5 DEF OnInvite

LEMMA OnSenderKeyHandles ==
  ASSUME TypeOK, NEW p \in Peers, NEW m \in BagToSet(net), OnSenderKey(p, m)
  PROVE  Handled(p)
<1>0. /\ m \in Message /\ m.to = p /\ m.type = "sender_key"
      /\ IsABag(net') /\ BagToSet(net') \subseteq Message
  BY Took DEF OnSenderKey
<1>1. m.from \in Peers /\ m.chain \in Chain
  BY <1>0, MessageTyped
<1>2. dead' \in [Peers -> BOOLEAN] /\ UNCHANGED <<ratcheting, gens, ops, sent, told, out>>
  BY DEF OnSenderKey, TypeOK
<1>3. CASE group[p] = NoGroup
  BY <1>0, <1>2, <1>3, HandledIgnored DEF OnSenderKey
<1>4. CASE group[p] # NoGroup
  <2> DEFINE h == group[p]
             g == [h EXCEPT !.copies[m.from] = m.chain]
  <2>1. h \in Group
    BY DEF TypeOK
  <2>3. Change(p, "relay", g, {})
    BY <1>4 DEF OnSenderKey
  <2> HIDE DEF h
  <2>2. g \in Group /\ g.chain = h.chain
    BY <1>1, <2>1, GroupFields DEF Group
  <2> HIDE DEF g
  <2> USE DEF h
  <2>4. QED
    BY <1>0, <1>2, <1>4, <2>2, <2>3, Thens, HandledChange
<1>5. QED
  BY <1>3, <1>4

LEMMA OnGroupMsgHandles ==
  ASSUME TypeOK, NEW p \in Peers, NEW m \in BagToSet(net), OnGroupMsg(p, m)
  PROVE  Handled(p)
<1>0. /\ m \in Message /\ m.to = p /\ m.type = "msg"
      /\ IsABag(net') /\ BagToSet(net') \subseteq Message
  BY Took DEF OnGroupMsg
<1>1. m.from \in Peers /\ m.chain \in Chain
  BY <1>0, MessageTyped
<1>2. UNCHANGED <<ratcheting, gens, ops, sent, told, out>>
  BY DEF OnGroupMsg
<1>3. CASE Ignores /\ UNCHANGED dead
  BY <1>0, <1>2, <1>3, HandledIgnored DEF TypeOK
<1> DEFINE h == group[p]
           copy == Advanced(h.copies[m.from])
           g == [h EXCEPT !.copies[m.from] = copy]
<1>4. h \in Group /\ h.copies[m.from] \in Chain
  BY <1>1 DEF TypeOK, Group
<1>5. copy \in Chain
  BY <1>4, ChainFields
<1>a. [group[p] EXCEPT !.copies[m.from] = Advanced(@)] = g
  BY <1>1, <1>4, GroupFields
<1>b. ASSUME h.copies[m.from] # NoChain PROVE group[p] # NoGroup
  BY <1>1, <1>b, NoGroupFields
<1>6. \/ Change(p, "relay", g, {}) /\ UNCHANGED dead /\ h.copies[m.from] # NoChain
      \/ /\ group' = [group EXCEPT ![p] = g] /\ dead' = [dead EXCEPT ![p] = TRUE]
         /\ UNCHANGED <<task, listed>> /\ h.copies[m.from] # NoChain
      \/ Ignores /\ UNCHANGED dead
  BY <1>a DEF OnGroupMsg
<1> HIDE DEF copy, h
<1>7. g \in Group /\ g.chain = h.chain /\ g.members = h.members
  BY <1>1, <1>4, <1>5, GroupFields DEF Group
<1> HIDE DEF g
<1> USE DEF h
<1>9. CASE group[p].copies[m.from] # NoChain /\ Change(p, "relay", g, {}) /\ UNCHANGED dead
  <2>1. dead' \in [Peers -> BOOLEAN]
    BY <1>9 DEF TypeOK
  <2>2. QED
    BY <1>0, <1>2, <1>7, <1>b, <1>9, <2>1, Thens, HandledChange
<1>10. CASE /\ group[p].copies[m.from] # NoChain
            /\ group' = [group EXCEPT ![p] = g] /\ dead' = [dead EXCEPT ![p] = TRUE]
            /\ UNCHANGED <<task, listed>>
  <2>1. TypeOK'
    BY <1>0, <1>2, <1>7, <1>10 DEF TypeOK
  <2>2. group'[p] = g /\ \A q \in Peers \ {p} : group'[q] = group[q]
    BY <1>10 DEF TypeOK
  <2>3. OnlyAt(p)
    BY <1>2, <1>10, <2>2 DEF OnlyAt
  <2>4. KeepsChain(p)
    BY <1>2, <1>7, <1>b, <1>10, <2>2 DEF KeepsChain
  <2>5. QED
    BY <1>2, <1>10, <2>1, <2>3, <2>4 DEF Handled
<1>11. QED
  BY <1>3, <1>6, <1>9, <1>10

LEMMA OnMemberAddHandles ==
  ASSUME TypeOK, NEW p \in Peers, NEW m \in BagToSet(net), OnMemberAdd(p, m)
  PROVE  Handled(p)
<1>0. /\ m \in Message /\ m.to = p /\ m.type = "add"
      /\ IsABag(net') /\ BagToSet(net') \subseteq Message
  BY Took DEF OnMemberAdd
<1>1. m.member \in Peers
  BY <1>0, MessageTyped
<1>2. dead' \in [Peers -> BOOLEAN] /\ UNCHANGED <<ratcheting, gens, ops, sent, told, out>>
  BY DEF OnMemberAdd, TypeOK
<1>3. CASE group[p] = NoGroup
  BY <1>0, <1>2, <1>3, HandledIgnored DEF OnMemberAdd
<1>4. CASE group[p] # NoGroup
  <2> DEFINE h == group[p]
             members == h.members \cup {m.member}
             g == [h EXCEPT !.members = members]
             then == {[do |-> "keys", to |-> {m.member}]}
  <2>1. h \in Group /\ members \in SUBSET Peers
    BY <1>1 DEF TypeOK, Group
  <2>2. Change(p, "relay", g, then)
    BY <1>4 DEF OnMemberAdd
  <2>3. m.member \in members
    OBVIOUS
  <2> HIDE DEF h, members
  <2>4. g \in Group /\ g.chain = h.chain /\ g.members = members
    BY <2>1, GroupFields DEF Group
  <2> HIDE DEF g
  <2>5. then \in SUBSET Then /\ AtMostOne(then)
    BY <1>1, Thens
  <2>6. \A x \in then : x.do = "keys" /\ x.to \subseteq g.members
    BY <2>3, <2>4
  <2> HIDE DEF then
  <2> USE DEF h
  <2>7. QED
    BY <1>0, <1>2, <1>4, <2>2, <2>4, <2>5, <2>6, HandledChange
<1>5. QED
  BY <1>3, <1>4

LEMMA OnMemberRemoveHandles ==
  ASSUME TypeOK, NEW p \in Peers, NEW m \in BagToSet(net), OnMemberRemove(p, m)
  PROVE  Handled(p)
<1>0. /\ m \in Message /\ m.to = p /\ m.type = "remove"
      /\ IsABag(net') /\ BagToSet(net') \subseteq Message
  BY Took DEF OnMemberRemove
<1>1. m.member \in Peers
  BY <1>0, MessageTyped
<1>2. dead' \in [Peers -> BOOLEAN] /\ UNCHANGED <<ratcheting, gens, ops, sent, told, out>>
  BY DEF OnMemberRemove, TypeOK
<1>3. CASE Ignores
  BY <1>0, <1>2, <1>3, HandledIgnored
<1> DEFINE h == group[p]
           members == h.members \ {m.member}
           g == [h EXCEPT !.removed = TRUE]
           k == [h EXCEPT !.members = members, !.copies[m.member] = NoChain]
<1>4. h \in Group /\ members \in SUBSET Peers
  BY DEF TypeOK, Group
<1>5. Ignores \/ (group[p] # NoGroup /\ (Change(p, "relay", g, {}) \/ Change(p, "relay", k, {})))
  BY DEF OnMemberRemove
<1> HIDE DEF h, members
<1>6. g \in Group /\ g.chain = h.chain
  BY <1>4, GroupFields DEF Group
<1>7. k \in Group /\ k.chain = h.chain
  BY <1>1, <1>4, GroupFields, ChainFields DEF Group
<1> HIDE DEF g, k
<1> USE DEF h
<1>8. CASE group[p] # NoGroup /\ Change(p, "relay", g, {})
  BY <1>0, <1>2, <1>6, <1>8, Thens, HandledChange
<1>9. CASE group[p] # NoGroup /\ Change(p, "relay", k, {})
  BY <1>0, <1>2, <1>7, <1>9, Thens, HandledChange
<1>10. QED
  BY <1>3, <1>5, <1>8, <1>9

\* The window of the creator makes the group.
Made(p, others) ==
  /\ TypeOK' /\ OnlyAt(p)
  /\ UNCHANGED <<ratcheting, told, out>>
  /\ ~ratcheting[p] /\ task[p]["window"] = {}
  /\ gens[p] = 0 /\ gens'[p] = 1
  /\ group'[p].chain.gen = 1 /\ group'[p].members \subseteq listed'[p]
  /\ others \subseteq listed'[p]
  /\ task'[p]["window"] = {[do |-> "invite", to |-> others]}
  /\ task'[p]["relay"] = task[p]["relay"]

LEMMA CreateMakes ==
  ASSUME TypeOK, NEW others \in SUBSET Peers, Create(others)
  PROVE  Made(Creator, others)
<1> DEFINE p == Creator
           c == NewChain(p)
           h == NoGroup
           members == others \cup {p}
           g == [h EXCEPT !.members = members, !.chain = c]
           then == {[do |-> "invite", to |-> others]}
<1>0. "relay" \in Threads /\ "window" \in Threads /\ "relay" # "window" /\ p \in Peers
  BY GroupsAssumption DEF Threads
<1>1. /\ Change(p, "window", g, then) /\ gens[p] = 0 /\ gens' = [gens EXCEPT ![p] = @ + 1]
      /\ ~ratcheting[p] /\ task[p]["window"] = {}
      /\ UNCHANGED <<ratcheting, dead, net, ops, sent, told, out>>
  BY DEF Create, Idle
<1>2. c \in Chain /\ c.gen = 1
  BY <1>0, <1>1, NewChainFields
<1>3. h \in Group /\ members \in SUBSET Peers /\ others \subseteq members
  BY <1>0, NoGroupFields DEF IsGroup
<1> HIDE DEF c, h, members
<1>4. g \in Group /\ g.chain = c /\ g.members = members
  BY <1>2, <1>3, GroupFields DEF Group
<1>5. then \in SUBSET Then /\ AtMostOne(then)
  BY Thens
<1> HIDE DEF g, then, p
<1>6. /\ group' \in [Peers -> Group] /\ group'[p] = g
      /\ \A q \in Peers \ {p} : group'[q] = group[q]
      /\ task' \in [Peers -> [Threads -> SUBSET Then]] /\ task'[p]["window"] = then
      /\ \A q \in Peers, s \in Threads : q # p \/ s # "window" => task'[q][s] = task[q][s]
      /\ \A q \in Peers, s \in Threads : AtMostOne(task'[q][s])
      /\ listed' \in [Peers -> SUBSET Peers]
      /\ \A q \in Peers : listed[q] \subseteq listed'[q]
      /\ g.members \subseteq listed'[p]
  BY <1>0, <1>1, <1>4, <1>5, Changed
<1>7. gens' \in [Peers -> Nat] /\ gens'[p] = 1 /\ \A q \in Peers \ {p} : gens'[q] = gens[q]
  BY <1>0, <1>1 DEF TypeOK
<1>8. TypeOK'
  BY <1>1, <1>6, <1>7 DEF TypeOK
<1>9. OnlyAt(p)
  BY <1>1, <1>6, <1>7 DEF OnlyAt
<1>10. QED
  BY <1>0, <1>1, <1>2, <1>3, <1>4, <1>6, <1>7, <1>8, <1>9 DEF Made, then, p

\* The window of p adds a member.
Added(p) ==
  /\ TypeOK' /\ OnlyAt(p)
  /\ UNCHANGED <<ratcheting, told, out>>
  /\ ~ratcheting[p] /\ task[p]["window"] = {}
  /\ KeepsChain(p)
  /\ \E q \in listed'[p] : task'[p]["window"] = {[do |-> "add", member |-> q]}
  /\ task'[p]["relay"] = task[p]["relay"]

LEMMA AddMemberAdds ==
  ASSUME TypeOK, NEW p \in Peers, NEW q \in Peers, AddMember(p, q)
  PROVE  Added(p)
<1> DEFINE h == group[p]
           members == h.members \cup {q}
           g == [h EXCEPT !.members = members]
           then == {[do |-> "add", member |-> q]}
<1>0. "relay" \in Threads /\ "window" \in Threads /\ "relay" # "window"
  BY DEF Threads
<1>1. /\ Change(p, "window", g, then) /\ ~ratcheting[p] /\ task[p]["window"] = {}
      /\ group[p] # NoGroup /\ ops' = ops + 1
      /\ UNCHANGED <<ratcheting, dead, net, gens, sent, told, out>>
  BY DEF AddMember, Does, Idle
<1>2. h \in Group /\ members \in SUBSET Peers /\ q \in members
  BY DEF TypeOK, Group
<1> HIDE DEF h, members
<1>3. g \in Group /\ g.chain = h.chain /\ g.members = members
  BY <1>2, GroupFields DEF Group
<1>4. then \in SUBSET Then /\ AtMostOne(then)
  BY Thens
<1> HIDE DEF g, then
<1>5. /\ group' \in [Peers -> Group] /\ group'[p] = g
      /\ \A r \in Peers \ {p} : group'[r] = group[r]
      /\ task' \in [Peers -> [Threads -> SUBSET Then]] /\ task'[p]["window"] = then
      /\ \A r \in Peers, s \in Threads : r # p \/ s # "window" => task'[r][s] = task[r][s]
      /\ \A r \in Peers, s \in Threads : AtMostOne(task'[r][s])
      /\ listed' \in [Peers -> SUBSET Peers]
      /\ \A r \in Peers : listed[r] \subseteq listed'[r]
      /\ g.members \subseteq listed'[p]
  BY <1>0, <1>1, <1>3, <1>4, Changed
<1>6. TypeOK'
  BY <1>1, <1>5 DEF TypeOK
<1>7. OnlyAt(p)
  BY <1>1, <1>5 DEF OnlyAt
<1>8. KeepsChain(p)
  BY <1>1, <1>3, <1>5 DEF KeepsChain, h
<1>9. q \in listed'[p]
  BY <1>2, <1>3, <1>5
<1>10. QED
  BY <1>0, <1>1, <1>5, <1>6, <1>7, <1>8, <1>9 DEF Added, then

\* The window of p removes a member and makes a new chain; what was to be
\* announced is announced as it was.
Rotated(p) ==
  /\ TypeOK' /\ OnlyAt(p)
  /\ UNCHANGED <<ratcheting, told, out>>
  /\ ~ratcheting[p] /\ task[p]["window"] = {} /\ group[p] # NoGroup
  /\ gens'[p] = gens[p] + 1 /\ group'[p].chain.gen = gens[p] + 1
  /\ group'[p].members \subseteq group[p].members
  /\ \A then \in task'[p]["window"] : then.do = "remove"
  /\ \A then \in task'[p]["relay"] :
       \/ /\ then \in task[p]["relay"]
          /\ then.do = "announce" => then.chain.gen # group[p].chain.gen
       \/ then.do = "announce" /\ then.chain = group[p].chain

LEMMA HeldTyped ==
  ASSUME TypeOK, NEW p \in Peers
  PROVE  /\ Held(p) \subseteq Then /\ AtMostOne(Held(p))
         /\ \A then \in Held(p) :
              \/ /\ then \in task[p]["relay"]
                 /\ then.do = "announce" => then.chain.gen # group[p].chain.gen
              \/ then.do = "announce" /\ then.chain = group[p].chain
<1> DEFINE old == group[p].chain
           as(x) == IF x.do = "announce" /\ x.chain.gen = old.gen THEN [x EXCEPT !.chain = old]
                    ELSE x
<1>0. old \in Chain /\ task[p]["relay"] \subseteq Then /\ AtMostOne(task[p]["relay"])
  BY DEF TypeOK, Group, Threads
<1>1. Held(p) = {as(x) : x \in task[p]["relay"]}
  BY DEF Held
<1> HIDE DEF old
<1>2. ASSUME NEW x \in task[p]["relay"]
      PROVE  /\ as(x) \in Then
             /\ \/ as(x) = x /\ (x.do = "announce" => x.chain.gen # old.gen)
                \/ as(x).do = "announce" /\ as(x).chain = old
  <2>1. x \in Then
    BY <1>0
  <2>2. CASE x.do = "announce" /\ x.chain.gen = old.gen
    <3>1. x \in [do: {"announce"}, chain: Chain]
      BY <2>1, <2>2 DEF Then
    <3>2. [x EXCEPT !.chain = old] \in [do: {"announce"}, chain: Chain]
          /\ [x EXCEPT !.chain = old].chain = old
      BY <1>0, <3>1
    <3>3. as(x) = [x EXCEPT !.chain = old]
      BY <2>2
    <3>4. as(x) \in [do: {"announce"}, chain: Chain] /\ as(x).chain = old
      BY <3>2, <3>3
    <3> HIDE DEF as
    <3>5. QED
      BY <3>4 DEF Then
  <2>3. CASE ~(x.do = "announce" /\ x.chain.gen = old.gen)
    BY <2>1, <2>3
  <2>4. QED
    BY <2>2, <2>3
<1> HIDE DEF as
<1>3. AtMostOne(Held(p))
  BY <1>0, <1>1 DEF AtMostOne
<1>4. ASSUME NEW then \in Held(p)
      PROVE  /\ then \in Then
             /\ \/ /\ then \in task[p]["relay"]
                   /\ then.do = "announce" => then.chain.gen # old.gen
                \/ then.do = "announce" /\ then.chain = old
  <2>1. PICK x \in task[p]["relay"] : then = as(x)
    BY <1>1
  <2>2. QED
    BY <1>2, <2>1
<1>5. Held(p) \subseteq Then
  BY <1>4
<1>6. QED
  BY <1>3, <1>4, <1>5 DEF old

LEMMA RemoveMemberRotates ==
  ASSUME TypeOK, NEW p \in Peers, NEW q \in Peers, RemoveMember(p, q)
  PROVE  Rotated(p)
<1> DEFINE h == group[p]
           c == NewChain(p)
           members == h.members \ {q}
           copies == [h.copies EXCEPT ![q] = NoChain]
           g == [h EXCEPT !.members = members, !.copies = copies, !.chain = c]
           then == {[do |-> "remove", member |-> q, listed |-> q \in group[p].members]}
           tasks == [window |-> then, relay |-> Held(p)]
<1>0. Threads = {"window", "relay"} /\ "relay" # "window"
  BY DEF Threads
<1>1. /\ ~ratcheting[p] /\ task[p]["window"] = {} /\ h # NoGroup /\ ops' = ops + 1
      /\ task' = [task EXCEPT ![p] = tasks] /\ gens' = [gens EXCEPT ![p] = @ + 1]
      /\ UNCHANGED <<ratcheting, dead, net, sent, told, out, listed>>
  BY DEF RemoveMember, Does, Idle
<1>2. h \in Group /\ members \in SUBSET Peers /\ members \subseteq h.members /\ c \in Chain
      /\ c.gen = gens[p] + 1 /\ copies \in [Peers -> Chain]
  BY NewChainFields, ChainFields DEF TypeOK, Group
<1>3. group' = [group EXCEPT ![p] = g]
  BY <1>2, GroupFields DEF RemoveMember, TypeOK
<1> HIDE DEF h, members, c, copies
<1>4. g \in Group /\ g.chain = c /\ g.members = members
  BY <1>2, GroupFields DEF Group
<1> HIDE DEF g
<1>5. /\ group' \in [Peers -> Group] /\ group'[p] = g
      /\ \A r \in Peers \ {p} : group'[r] = group[r]
  BY <1>3, <1>4 DEF TypeOK
<1>6. then \in SUBSET Then /\ AtMostOne(then) /\ \A x \in then : x.do = "remove"
  <2> DEFINE listing == q \in group[p].members
             x == [do |-> "remove", member |-> q, listed |-> listing]
  <2>1. listing \in BOOLEAN
    OBVIOUS
  <2> HIDE DEF listing
  <2>2. x \in Then /\ x.do = "remove"
    BY <2>1, Thens
  <2>3. then = {x}
    BY DEF listing
  <2> HIDE DEF x, then
  <2>4. QED
    BY <2>2, <2>3, Thens
<1>7. tasks \in [Threads -> SUBSET Then] /\ tasks["window"] = then /\ tasks["relay"] = Held(p)
  <2>1. Held(p) \in SUBSET Then
    BY HeldTyped
  <2> HIDE DEF then
  <2>2. QED
    BY <1>0, <1>6, <2>1
<1> HIDE DEF then, tasks
<1>8. /\ task' \in [Peers -> [Threads -> SUBSET Then]] /\ task'[p] = tasks
      /\ \A r \in Peers \ {p} : task'[r] = task[r]
  BY <1>1, <1>7 DEF TypeOK
<1>9. \A r \in Peers, s \in Threads : AtMostOne(task'[r][s])
  BY <1>0, <1>6, <1>7, <1>8, HeldTyped DEF TypeOK
<1>10. gens' \in [Peers -> Nat] /\ gens'[p] = gens[p] + 1
       /\ \A r \in Peers \ {p} : gens'[r] = gens[r]
  BY <1>1 DEF TypeOK
<1>11. TypeOK'
  BY <1>1, <1>5, <1>8, <1>9, <1>10 DEF TypeOK
<1>12. OnlyAt(p)
  BY <1>1, <1>5, <1>8, <1>10 DEF OnlyAt
<1>13. QED
  BY <1>1, <1>2, <1>4, <1>5, <1>6, <1>7, <1>8, <1>10, <1>11, <1>12, HeldTyped DEF Rotated, h

\* The window of p takes a key off its chain, and has a message to encrypt.
Ratcheted(p) ==
  /\ TypeOK' /\ OnlyAt(p)
  /\ UNCHANGED <<task, gens, told, out>>
  /\ ~ratcheting[p] /\ ratcheting'[p]
  /\ task[p]["window"] = {} /\ group[p] # NoGroup
  /\ group'[p].chain.gen = group[p].chain.gen
  /\ group'[p].chain.key = group[p].chain.key + 1
  /\ group'[p].members = group[p].members

LEMMA RatchetRatchets ==
  ASSUME TypeOK, NEW p \in Peers, Ratchet(p)
  PROVE  Ratcheted(p)
<1> DEFINE h == group[p]
           c == [h.chain EXCEPT !.key = @ + 1]
           g == [h EXCEPT !.chain = c]
<1>1. /\ ~ratcheting[p] /\ task[p]["window"] = {} /\ h # NoGroup /\ ops' = ops + 1
      /\ ratcheting' = [ratcheting EXCEPT ![p] = TRUE] /\ sent' = [sent EXCEPT ![p] = @ + 1]
      /\ UNCHANGED <<task, dead, net, gens, told, out, listed>>
  BY DEF Ratchet, Does, Idle
<1>2. h \in Group /\ h.chain \in Chain
  BY DEF TypeOK, Group
<1>3. group' = [group EXCEPT ![p] = g]
  BY <1>2, GroupFields DEF Ratchet, TypeOK
<1> HIDE DEF h
<1>4. c \in Chain /\ c.gen = h.chain.gen /\ c.key = h.chain.key + 1
  <2> DEFINE k == h.chain.key + 1
  <2>1. k \in Nat
    BY <1>2, ChainFields
  <2>2. c = [h.chain EXCEPT !.key = k]
    OBVIOUS
  <2> HIDE DEF k
  <2>3. c \in Chain /\ c.gen = h.chain.gen /\ c.key = k
    BY <1>2, <2>1, <2>2 DEF Chain
  <2>4. QED
    BY <2>3 DEF k
<1> HIDE DEF c
<1>5. g \in Group /\ g.chain = c /\ g.members = h.members
  BY <1>2, <1>4, GroupFields DEF Group
<1> HIDE DEF g
<1>6. /\ group' \in [Peers -> Group] /\ group'[p] = g
      /\ \A r \in Peers \ {p} : group'[r] = group[r]
  BY <1>3, <1>5 DEF TypeOK
<1>7. /\ ratcheting' \in [Peers -> BOOLEAN] /\ ratcheting'[p]
      /\ \A r \in Peers \ {p} : ratcheting'[r] = ratcheting[r]
  BY <1>1 DEF TypeOK
<1>8. TypeOK'
  BY <1>1, <1>6, <1>7 DEF TypeOK
<1>9. OnlyAt(p)
  BY <1>1, <1>6, <1>7 DEF OnlyAt
<1>10. QED
  BY <1>1, <1>4, <1>5, <1>6, <1>7, <1>8, <1>9 DEF Ratcheted, h

\* The window of p has the message that its last key encrypted to send.
Encrypted(p) ==
  /\ TypeOK' /\ OnlyAt(p)
  /\ UNCHANGED <<gens, told, out>>
  /\ ratcheting[p] /\ ~ratcheting'[p]
  /\ group'[p].chain.gen = group[p].chain.gen
  /\ group'[p].chain.key = group[p].chain.key
  /\ group'[p].members = group[p].members /\ group'[p].chain \in Chain
  /\ \E c \in Chain : /\ c.gen = group[p].chain.gen /\ c.key = group[p].chain.key - 1
                      /\ task'[p]["window"] = {[do |-> "msg", chain |-> c]}
  /\ task'[p]["relay"] = task[p]["relay"]

LEMMA EncryptEncrypts ==
  ASSUME TypeOK, NEW p \in Peers, Encrypting(p), Encrypt(p)
  PROVE  Encrypted(p)
<1> DEFINE h == group[p]
           c == [h.chain EXCEPT !.key = @ - 1]
           d == [h.chain EXCEPT !.index = @ + 1]
           g == [h EXCEPT !.chain = d]
           then == {[do |-> "msg", chain |-> c]}
<1>0. "relay" \in Threads /\ "window" \in Threads /\ "relay" # "window"
  BY DEF Threads
<1>1. h \in Group /\ h.chain \in Chain /\ h.chain.key \in Nat \ {0}
  BY DEF TypeOK, Group, Encrypting, Encrypt
<1>2. [group[p] EXCEPT !.chain.index = @ + 1] = g
  BY <1>1, GroupFields
<1>3. /\ ratcheting[p] /\ ratcheting' = [ratcheting EXCEPT ![p] = FALSE]
      /\ UNCHANGED <<dead, net, gens, ops, sent, told, out>>
  BY DEF Encrypt
<1>4. Change(p, "window", g, then)
  BY <1>2 DEF Encrypt
<1> HIDE DEF h
<1>5. c \in Chain /\ c.gen = h.chain.gen /\ c.key = h.chain.key - 1
  <2> DEFINE k == h.chain.key - 1
  <2>1. k \in Nat
    BY <1>1
  <2>2. c = [h.chain EXCEPT !.key = k]
    OBVIOUS
  <2> HIDE DEF k
  <2>3. c \in Chain /\ c.gen = h.chain.gen /\ c.key = k
    BY <1>1, <2>1, <2>2 DEF Chain
  <2>4. QED
    BY <2>3 DEF k
<1>6. d \in Chain /\ d.gen = h.chain.gen /\ d.key = h.chain.key
  <2> DEFINE i == h.chain.index + 1
  <2>1. i \in Nat
    BY <1>1, ChainFields
  <2>2. d = [h.chain EXCEPT !.index = i]
    OBVIOUS
  <2> HIDE DEF i
  <2>3. QED
    BY <1>1, <2>1, <2>2 DEF Chain
<1> HIDE DEF c, d
<1>7. g \in Group /\ g.chain = d /\ g.members = h.members
  BY <1>1, <1>6, GroupFields DEF Group
<1>8. then \in SUBSET Then /\ AtMostOne(then)
  BY <1>5, Thens
<1> HIDE DEF g, then
<1>9. /\ group' \in [Peers -> Group] /\ group'[p] = g
      /\ \A r \in Peers \ {p} : group'[r] = group[r]
      /\ task' \in [Peers -> [Threads -> SUBSET Then]] /\ task'[p]["window"] = then
      /\ \A r \in Peers, s \in Threads : r # p \/ s # "window" => task'[r][s] = task[r][s]
      /\ \A r \in Peers, s \in Threads : AtMostOne(task'[r][s])
      /\ listed' \in [Peers -> SUBSET Peers]
      /\ \A r \in Peers : listed[r] \subseteq listed'[r]
      /\ g.members \subseteq listed'[p]
  BY <1>0, <1>4, <1>7, <1>8, Changed
<1>10. /\ ratcheting' \in [Peers -> BOOLEAN] /\ ~ratcheting'[p]
       /\ \A r \in Peers \ {p} : ratcheting'[r] = ratcheting[r]
  BY <1>3 DEF TypeOK
<1>11. TypeOK'
  BY <1>3, <1>9, <1>10 DEF TypeOK
<1>12. OnlyAt(p)
  BY <1>3, <1>9, <1>10 DEF OnlyAt
<1>13. QED
  BY <1>0, <1>3, <1>5, <1>6, <1>7, <1>9, <1>10, <1>11, <1>12 DEF Encrypted, h, then

LEMMA ReadPast ==
  ASSUME TypeOK, KeyInv, NEW p \in Peers, NEW t \in Threads, NEW c \in ReadBy(t, p)
  PROVE  c \in Chain /\ c.gen = gens[p] /\ Past(p, c)
<1> DEFINE h == group[p].chain
<1>1. h \in Chain /\ h.gen = gens[p] /\ h.key \in Nat /\ h.index \in Nat /\ ratcheting[p] \in BOOLEAN
  BY ChainFields DEF TypeOK, Group, KeyInv, KeysAt, Joined
<1>2. ratcheting[p] => h.key \in Nat \ {0}
  BY DEF KeyInv, KeysAt, Encrypting
<1>3. c = h \/ (ratcheting[p] /\ c \in [gen: {h.gen}, key: {h.key - 1, h.key}, index: {h.index, h.index + 1}])
  BY DEF ReadBy, Seen
<1>4. c \in Chain /\ c.gen = gens[p]
  <2>1. CASE c = h
    BY <1>1, <2>1
  <2>2. CASE ratcheting[p] /\ c \in [gen: {h.gen}, key: {h.key - 1, h.key}, index: {h.index, h.index + 1}]
    <3>1. h.key - 1 \in Nat /\ h.key \in Nat /\ h.index + 1 \in Nat /\ h.gen \in Nat
      BY <1>1, <1>2, <2>2, ChainFields
    <3> DEFINE k == h.key - 1
               l == h.key
               i == h.index
               j == h.index + 1
               n == h.gen
    <3>2. k \in Nat /\ l \in Nat /\ i \in Nat /\ j \in Nat /\ n \in Nat
      BY <1>1, <3>1
    <3>3. c \in [gen: {n}, key: {k, l}, index: {i, j}] /\ n = gens[p]
      BY <1>1, <2>2
    <3> HIDE DEF k, l, i, j, n, h
    <3>4. QED
      BY <3>2, <3>3 DEF Chain
  <2>3. QED
    BY <1>3, <2>1, <2>2
<1>5. c.key \in Nat /\ NextKey(p) \in Nat /\ NextKey(p) <= c.key
  <2>1. CASE c = h
    BY <1>1, <1>2, <2>1 DEF NextKey
  <2>2. CASE ratcheting[p] /\ c \in [gen: {h.gen}, key: {h.key - 1, h.key}, index: {h.index, h.index + 1}]
    <3>1. c.key = h.key - 1 \/ c.key = h.key
      BY <2>2
    <3>2. QED
      BY <1>1, <1>2, <2>2, <3>1 DEF NextKey
  <2>3. QED
    BY <1>3, <2>1, <2>2
<1>6. ASSUME NEW e \in out, e.from = p, e.chain.gen = c.gen
      PROVE  e.chain.key < c.key
  <2>1. e.chain.key \in Nat
    BY ChainFields DEF TypeOK
  <2>2. e.chain.key < NextKey(p)
    BY <1>4, <1>6 DEF KeyInv, KeysAt, KeysSpent
  <2>3. QED
    BY <1>5, <2>1, <2>2
<1>7. QED
  BY <1>4, <1>6 DEF Past

\* p, which had this to send, sends m.
Sends(p, then, c, m) ==
  /\ m \in Message
  /\ m.type \in {"invite", "sender_key"} =>
       /\ then.do # "msg" /\ m.to \in listed[p]
       /\ \/ m.chain = c
          \/ then.do = "announce" /\ m.chain = then.chain /\ c.gen # then.chain.gen

LEMMA MessagesTyped ==
  ASSUME TypeOK, NEW p \in Peers, NEW then \in Then, NEW c \in Chain,
         group[p].members \subseteq listed[p],
         then.do \in {"invite", "keys"} => then.to \subseteq listed[p],
         then.do = "add" => then.member \in listed[p]
  PROVE  \A m \in MessagesOf(p, then, c) : Sends(p, then, c, m)
<1> DEFINE members == group[p].members
           invite(q) == [type |-> "invite", from |-> p, to |-> q, members |-> members, chain |-> c]
           withChain(type, q, chain) == [type |-> type, from |-> p, to |-> q, chain |-> chain]
           about(type, q, r) == [type |-> type, from |-> p, to |-> q, member |-> r]
<1>0. /\ then.do \in {"invite", "keys", "announce", "add", "remove", "msg"}
      /\ then.do \in {"invite", "keys"} => then.to \subseteq Peers
      /\ then.do \in {"announce", "msg"} => then.chain \in Chain
      /\ then.do \in {"add", "remove"} => then.member \in Peers
  BY ThenTyped
<1>1. members \subseteq Peers /\ members \subseteq listed[p]
  BY DEF TypeOK, Group
<1>2. ASSUME NEW q \in Peers
      PROVE  /\ invite(q) \in Message /\ invite(q).type = "invite"
             /\ invite(q).to = q /\ invite(q).chain = c
  <2>1. members \in SUBSET Peers
    BY <1>1
  <2> HIDE DEF members
  <2>2. QED
    BY <2>1 DEF Message
<1>3. ASSUME NEW q \in Peers, NEW type \in {"sender_key", "msg"}, NEW chain \in Chain
      PROVE  /\ withChain(type, q, chain) \in Message /\ withChain(type, q, chain).type = type
             /\ withChain(type, q, chain).to = q /\ withChain(type, q, chain).chain = chain
  BY DEF Message
<1>4. ASSUME NEW q \in Peers, NEW r \in Peers, NEW type \in {"add", "remove"}
      PROVE  about(type, q, r) \in Message /\ about(type, q, r).type = type
  BY DEF Message
<1>5. CASE then.do = "invite"
  <2>1. MessagesOf(p, then, c) = {invite(q) : q \in then.to}
    BY <1>5 DEF MessagesOf
  <2> HIDE DEF members, invite
  <2>2. QED
    BY <1>0, <1>2, <1>5, <2>1 DEF Sends
<1>6. CASE then.do = "keys"
  <2>1. MessagesOf(p, then, c) = {withChain("sender_key", q, c) : q \in then.to}
    BY <1>6 DEF MessagesOf
  <2> HIDE DEF members, withChain
  <2>2. QED
    BY <1>0, <1>3, <1>6, <2>1 DEF Sends
<1>7. CASE then.do = "announce"
  <2> DEFINE d == IF c.gen = then.chain.gen THEN c ELSE then.chain
  <2>1. MessagesOf(p, then, c) = {withChain("sender_key", q, d) : q \in members \ {p}}
    BY <1>7 DEF MessagesOf
  <2>2. d \in Chain /\ (d = c \/ (d = then.chain /\ c.gen # then.chain.gen))
    BY <1>0, <1>7
  <2> HIDE DEF members, withChain, d
  <2>3. QED
    BY <1>1, <1>3, <1>7, <2>1, <2>2 DEF Sends
<1>8. CASE then.do = "add"
  <2>1. MessagesOf(p, then, c) =
          {invite(then.member)} \cup {about("add", q, then.member) : q \in members \ {p, then.member}}
    BY <1>8 DEF MessagesOf
  <2> HIDE DEF members, invite, about
  <2>2. QED
    BY <1>0, <1>1, <1>2, <1>4, <1>8, <2>1 DEF Sends
<1>9. CASE then.do = "remove"
  <2>1. MessagesOf(p, then, c) \subseteq
          {about("remove", then.member, then.member)}
          \cup {about("remove", q, then.member) : q \in members \ {p}}
          \cup {withChain("sender_key", q, c) : q \in members \ {p}}
    BY <1>9 DEF MessagesOf
  <2> HIDE DEF members, withChain, about
  <2>2. QED
    BY <1>0, <1>1, <1>3, <1>4, <1>9, <2>1 DEF Sends
<1>10. CASE then.do = "msg"
  <2>1. MessagesOf(p, then, c) = {withChain("msg", q, then.chain) : q \in members \ {p}}
    BY <1>10 DEF MessagesOf
  <2> HIDE DEF members, withChain
  <2>2. QED
    BY <1>0, <1>1, <1>3, <1>10, <2>1 DEF Sends
<1>11. QED
  BY <1>0, <1>5, <1>6, <1>7, <1>8, <1>9, <1>10

\* Thread t of p sends what it had to: chains that are past all p sent, to
\* whom p has had as a member, or a message.
Sent(p, t) ==
  /\ TypeOK' /\ OnlyAt(p)
  /\ UNCHANGED <<group, gens, ratcheting, listed>>
  /\ task'[p][t] = {}
  /\ \A s \in Threads : s # t => task'[p][s] = task[p][s]
  /\ \/ /\ out' = out
        /\ \A k \in told' : k \in told \/ (k.of = p /\ k.to \in listed[p] /\ Past(p, k.chain))
     \/ /\ told' = told
        /\ \E then \in task[p][t], e \in out' :
             /\ then.do = "msg" /\ out' = out \cup {e}
             /\ e.from = p /\ e.chain = then.chain /\ e.listed = listed[p]

LEMMA SendSends ==
  ASSUME TypeOK, KeyInv, NEW p \in Peers, NEW t \in Threads, Send(p, t)
  PROVE  Sent(p, t)
<1>1. PICK then \in task[p][t], c \in ReadBy(t, p) :
        LET messages == MessagesOf(p, then, c)
        IN  /\ net' = net (+) SetToBag(messages)
            /\ told' = told \cup
                 {[to |-> m.to, of |-> p, chain |-> m.chain] :
                    m \in {x \in messages : x.type \in {"invite", "sender_key"}}}
            /\ out' = IF then.do = "msg"
                      THEN out \cup {[from |-> p, chain |-> then.chain, n |-> sent[p],
                                      members |-> group[p].members, listed |-> listed[p]]}
                      ELSE out
  BY DEF Send
<1> DEFINE messages == MessagesOf(p, then, c)
           telling == {x \in messages : x.type \in {"invite", "sender_key"}}
           note(m) == [to |-> m.to, of |-> p, chain |-> m.chain]
           e == [from |-> p, chain |-> then.chain, n |-> sent[p],
                 members |-> group[p].members, listed |-> listed[p]]
<1>2. then \in Then
  BY DEF TypeOK
<1>3. c \in Chain /\ c.gen = gens[p] /\ Past(p, c)
  BY ReadPast
<1>4. \A m \in messages : Sends(p, then, c, m)
  <2>1. group[p].members \subseteq listed[p]
    BY DEF KeyInv, KeysAt, Joined
  <2>2. /\ then.do \in {"invite", "keys"} => then.to \subseteq listed[p]
        /\ then.do = "add" => then.member \in listed[p]
    BY DEF KeyInv, KeysAt, Addressed
  <2>3. QED
    BY <1>2, <1>3, <2>1, <2>2, MessagesTyped
<1>5. /\ net' = net (+) SetToBag(messages) /\ told' = told \cup {note(m) : m \in telling}
      /\ out' = IF then.do = "msg" THEN out \cup {e} ELSE out
  BY <1>1
<1>6. /\ task' = [task EXCEPT ![p][t] = {}]
      /\ UNCHANGED <<group, ratcheting, dead, gens, ops, sent, listed>>
  BY DEF Send
<1> HIDE DEF messages
<1>7. IsABag(net') /\ BagToSet(net') \subseteq Message
  <2>1. messages \subseteq Message
    BY <1>4 DEF Sends
  <2>2. QED
    BY <1>5, <2>1, BagJoined DEF TypeOK
<1>8. /\ task' \in [Peers -> [Threads -> SUBSET Then]] /\ task'[p][t] = {}
      /\ \A q \in Peers, s \in Threads : q # p \/ s # t => task'[q][s] = task[q][s]
  <2> DEFINE tp == [task[p] EXCEPT ![t] = {}]
  <2>1. tp \in [Threads -> SUBSET Then] /\ tp[t] = {}
        /\ \A s \in Threads : s # t => tp[s] = task[p][s]
    BY DEF TypeOK
  <2>2. task' = [task EXCEPT ![p] = tp]
    BY <1>6
  <2> HIDE DEF tp
  <2>3. QED
    BY <2>1, <2>2 DEF TypeOK
<1>9. \A q \in Peers, s \in Threads : AtMostOne(task'[q][s])
  BY <1>8, Thens DEF TypeOK
<1>10. ASSUME NEW m \in telling
       PROVE  /\ note(m) \in [to: Peers, of: Peers, chain: Chain] /\ note(m).of = p
              /\ note(m).to \in listed[p] /\ Past(p, note(m).chain)
  <2>1. Sends(p, then, c, m) /\ m.type \in {"invite", "sender_key"}
    BY <1>4, <1>10
  <2>2. m \in Message /\ m.to \in Peers /\ m.chain \in Chain
    BY <2>1, MessageTyped DEF Sends
  <2>3. m.to \in listed[p]
    BY <2>1 DEF Sends
  <2>4. Past(p, m.chain)
    <3>1. CASE m.chain = c
      BY <1>3, <3>1
    <3>2. CASE then.do = "announce" /\ m.chain = then.chain /\ c.gen # then.chain.gen
      BY <1>3, <3>2 DEF KeyInv, KeysAt, Announced
    <3>3. QED
      BY <2>1, <3>1, <3>2 DEF Sends
  <2>5. QED
    BY <2>2, <2>3, <2>4
<1>11. then.do = "msg" => telling = {}
  BY <1>4 DEF Sends
<1>12. then.do = "msg" => e \in [from: Peers, chain: Chain, n: Nat, members: SUBSET Peers,
                                 listed: SUBSET Peers]
  <2>1. then.do = "msg" => then.chain \in Chain
    BY <1>2, ThenTyped
  <2>2. group[p].members \in SUBSET Peers /\ listed[p] \in SUBSET Peers /\ sent[p] \in Nat
    BY DEF TypeOK, Group
  <2>3. QED
    BY <2>1, <2>2
<1>13. e.from = p /\ e.chain = then.chain /\ e.listed = listed[p]
  OBVIOUS
<1> HIDE DEF telling, note, e
<1>14. told' \subseteq [to: Peers, of: Peers, chain: Chain]
  BY <1>5, <1>10 DEF TypeOK
<1>15. out' \subseteq [from: Peers, chain: Chain, n: Nat, members: SUBSET Peers, listed: SUBSET Peers]
  BY <1>5, <1>12 DEF TypeOK
<1>16. TypeOK'
  BY <1>6, <1>7, <1>8, <1>9, <1>14, <1>15 DEF TypeOK
<1>17. OnlyAt(p)
  BY <1>6, <1>8 DEF OnlyAt
<1>18. CASE then.do = "msg"
  <2>1. told' = told /\ out' = out \cup {e}
    BY <1>5, <1>11, <1>18
  <2>2. QED
    BY <1>6, <1>8, <1>13, <1>16, <1>17, <1>18, <2>1 DEF Sent
<1>19. CASE then.do # "msg"
  <2>1. out' = out
    BY <1>5, <1>19
  <2>2. \A k \in told' : k \in told \/ (k.of = p /\ k.to \in listed[p] /\ Past(p, k.chain))
    BY <1>5, <1>10
  <2>3. QED
    BY <1>6, <1>8, <1>16, <1>17, <2>1, <2>2 DEF Sent
<1>20. QED
  BY <1>18, <1>19

----------------------------------------------------------------------------
(* The invariant is kept *)

LEMMA Elsewhere ==
  ASSUME NEW p \in Peers, NEW q \in Peers \ {p}, OnlyAt(p), KeysAt(q),
         \A e \in out' : e \in out \/ e.from = p
  PROVE  KeysAt(q)'
<1>1. /\ group'[q] = group[q] /\ gens'[q] = gens[q] /\ ratcheting'[q] = ratcheting[q]
      /\ task'[q]["window"] = task[q]["window"] /\ task'[q]["relay"] = task[q]["relay"]
      /\ \A t \in Threads : task'[q][t] = task[q][t]
      /\ listed[q] \subseteq listed'[q]
  BY DEF OnlyAt, Threads
<1>2. Joined(q)'
  BY <1>1 DEF KeysAt, Joined
<1>3. Encrypting(q)'
  BY <1>1 DEF KeysAt, Encrypting
<1>4. KeysSpent(q)'
  BY <1>1 DEF KeysAt, KeysSpent, NextKey, Past
<1>5. Announced(q)'
  BY <1>1 DEF KeysAt, Announced, Past
<1>6. Addressed(q)'
  BY <1>1 DEF KeysAt, Addressed
<1>7. QED
  BY <1>2, <1>3, <1>4, <1>5, <1>6 DEF KeysAt

LEMMA EverywhereElse ==
  ASSUME Inv, NEW p \in Peers, OnlyAt(p), KeysAt(p)', \A e \in out' : e \in out \/ e.from = p
  PROVE  KeyInv'
<1>1. \A q \in Peers : KeysAt(q)'
  BY Elsewhere DEF Inv, KeyInv
<1>2. QED
  BY <1>1 DEF KeyInv

\* A step that sends nothing keeps the invariant if it keeps it at its peer.
LEMMA Quiet ==
  ASSUME Inv, NEW p \in Peers, OnlyAt(p), TypeOK', UNCHANGED <<told, out>>, KeysAt(p)'
  PROVE  Inv'
<1>1. KeyInv'
  BY EverywhereElse
<1>2. ToldMembers'
  <2>1. \A k \in told : k.of \in Peers
    BY DEF Inv, TypeOK
  <2>2. QED
    BY <2>1 DEF Inv, ToldMembers, OnlyAt
<1>3. GroupKeyUsedOnce' /\ NothingOlderIsReadable'
  BY DEF Inv, GroupKeyUsedOnce, NothingOlderIsReadable, CanRead
<1>4. QED
  BY <1>1, <1>2, <1>3 DEF Inv

\* The numbers that the proofs compare.
LEMMA Numbers ==
  ASSUME TypeOK, NEW p \in Peers
  PROVE  /\ gens[p] \in Nat /\ ratcheting[p] \in BOOLEAN
         /\ group[p].chain \in Chain /\ group[p].chain.key \in Nat
         /\ NextKey(p) \in Int
         /\ \A e \in out : e.chain.gen \in Nat /\ e.chain.key \in Nat
         /\ \A t \in Threads : \A then \in task[p][t] :
              then.do \in {"announce", "msg"} => then.chain.gen \in Nat /\ then.chain.key \in Nat
<1>1. /\ gens[p] \in Nat /\ ratcheting[p] \in BOOLEAN
      /\ group[p].chain \in Chain /\ group[p].chain.key \in Nat
  BY ChainFields DEF TypeOK, Group
<1>2. \A e \in out : e.chain.gen \in Nat /\ e.chain.key \in Nat
  BY ChainFields DEF TypeOK
<1>3. \A t \in Threads : \A then \in task[p][t] :
        then.do \in {"announce", "msg"} => then.chain.gen \in Nat /\ then.chain.key \in Nat
  BY ThenTyped, ChainFields DEF TypeOK
<1>4. QED
  BY <1>1, <1>2, <1>3 DEF NextKey

LEMMA HasGroup ==
  ASSUME TypeOK, NEW p \in Peers, group[p].chain.gen # 0
  PROVE  group[p] # NoGroup
BY ChainFields, NoGroupFields DEF IsGroup

LEMMA MadeKeeps ==
  ASSUME Inv, NEW p \in Peers, NEW others, Made(p, others)
  PROVE  Inv'
<1>0. /\ TypeOK /\ TypeOK' /\ OnlyAt(p) /\ KeysAt(p) /\ gens[p] = 0 /\ gens'[p] = 1
      /\ ~ratcheting[p] /\ ~ratcheting'[p] /\ task'[p]["relay"] = task[p]["relay"]
      /\ task'[p]["window"] = {[do |-> "invite", to |-> others]} /\ UNCHANGED <<told, out>>
      /\ others \subseteq listed'[p]
  BY DEF Inv, Made, KeyInv
<1>1. Joined(p)'
  <2>1. (group[p] # NoGroup)'
    <3>1. (group[p].chain.gen # 0)'
      BY DEF Made
    <3>2. QED
      BY <1>0, <3>1, HasGroup, PTL
  <2>2. QED
    BY <1>0, <2>1 DEF Made, Joined
<1>2. Encrypting(p)'
  BY <1>0 DEF Encrypting
<1>3. \A e \in out : e.from = p => e.chain.gen = 0
  BY <1>0, Numbers DEF KeysAt, KeysSpent
<1>4. KeysSpent(p)'
  BY <1>0, <1>3 DEF KeysAt, KeysSpent
<1>5. Announced(p)'
  <2>1. \A then \in task[p]["relay"] : then.do # "announce"
    BY <1>0 DEF KeysAt, Announced, Threads
  <2>2. QED
    BY <1>0, <2>1 DEF Announced, Threads
<1>6. Addressed(p)'
  BY <1>0 DEF KeysAt, Addressed, Threads, OnlyAt
<1>7. QED
  BY <1>0, <1>1, <1>2, <1>4, <1>5, <1>6, Quiet DEF KeysAt

\* A peer that keeps its chain has the group or not, as before.
LEMMA ChainKept ==
  ASSUME TypeOK, TypeOK', NEW p \in Peers, Joined(p), KeepsChain(p), OnlyAt(p)
  PROVE  /\ Joined(p)' /\ group'[p].chain = group[p].chain /\ gens' = gens
         /\ (ratcheting'[p] = ratcheting[p] => NextKey(p)' = NextKey(p))
<1>1. group'[p].chain = group[p].chain /\ gens' = gens
  BY DEF KeepsChain
<1>2. group[p] # NoGroup => (group[p] # NoGroup)'
  <2>1. group[p] # NoGroup => (group[p].chain.gen # 0)'
    BY <1>1 DEF Joined
  <2>2. QED
    BY <2>1, HasGroup, PTL
<1>3. Joined(p)'
  BY <1>1, <1>2 DEF Joined, KeepsChain, OnlyAt
<1>4. QED
  BY <1>1, <1>3 DEF NextKey

LEMMA AddedKeeps ==
  ASSUME Inv, NEW p \in Peers, Added(p)
  PROVE  Inv'
<1>0. /\ TypeOK /\ TypeOK' /\ OnlyAt(p) /\ KeysAt(p) /\ KeepsChain(p)
      /\ ~ratcheting[p] /\ ~ratcheting'[p] /\ task'[p]["relay"] = task[p]["relay"]
      /\ UNCHANGED <<ratcheting, told, out>>
      /\ \E q \in listed'[p] : task'[p]["window"] = {[do |-> "add", member |-> q]}
  BY DEF Inv, Added, KeyInv
<1>1. Joined(p)' /\ gens' = gens /\ NextKey(p)' = NextKey(p)
  BY <1>0, ChainKept DEF KeysAt
<1>2. Encrypting(p)'
  BY <1>0 DEF Encrypting
<1>3. KeysSpent(p)'
  BY <1>0, <1>1 DEF KeysAt, KeysSpent
<1>4. Announced(p)'
  BY <1>0, <1>1 DEF KeysAt, Announced, Threads, Past
<1>5. Addressed(p)'
  BY <1>0 DEF KeysAt, Addressed, Threads, OnlyAt
<1>6. QED
  BY <1>0, <1>1, <1>2, <1>3, <1>4, <1>5, Quiet DEF KeysAt

LEMMA RotatedKeeps ==
  ASSUME Inv, NEW p \in Peers, Rotated(p)
  PROVE  Inv'
<1>0. /\ TypeOK /\ TypeOK' /\ OnlyAt(p) /\ KeysAt(p) /\ UNCHANGED <<told, out>>
      /\ ~ratcheting[p] /\ ~ratcheting'[p] /\ gens'[p] = gens[p] + 1
      /\ group[p].chain.gen = gens[p] /\ gens[p] # 0
      /\ group'[p].chain.gen = gens[p] + 1 /\ group'[p].members \subseteq group[p].members
      /\ \A then \in task'[p]["window"] : then.do = "remove"
      /\ \A then \in task'[p]["relay"] :
           \/ /\ then \in task[p]["relay"]
              /\ then.do = "announce" => then.chain.gen # group[p].chain.gen
           \/ then.do = "announce" /\ then.chain = group[p].chain
  BY DEF Inv, Rotated, KeyInv, KeysAt, Joined
<1>1. Joined(p)'
  <2>1. (group[p] # NoGroup)'
    <3>1. (group[p].chain.gen # 0)'
      BY <1>0, Numbers
    <3>2. QED
      BY <1>0, <3>1, HasGroup, PTL
  <2>2. QED
    BY <1>0, <2>1, Numbers DEF KeysAt, Joined, OnlyAt
<1>2. Encrypting(p)'
  BY <1>0 DEF Encrypting
<1>3. KeysSpent(p)'
  <2>1. \A e \in out : e.from = p => e.chain.gen <= gens[p] + 1 /\ e.chain.gen # gens[p] + 1
    BY <1>0, Numbers DEF KeysAt, KeysSpent
  <2>2. \A then \in task'[p]["relay"] : then.do # "msg"
    BY <1>0 DEF KeysAt, KeysSpent
  <2>3. QED
    BY <1>0, <2>1, <2>2 DEF KeysSpent
<1>4. Announced(p)'
  <2>1. Past(p, group[p].chain)
    BY <1>0 DEF KeysAt, KeysSpent, NextKey, Past
  <2>2. ASSUME NEW then \in task'[p]["relay"], then.do = "announce"
        PROVE  then.chain.gen \in 1..gens[p] /\ Past(p, then.chain)
    <3>1. CASE then \in task[p]["relay"] /\ then.chain.gen # group[p].chain.gen
      BY <1>0, <2>2, <3>1 DEF KeysAt, Announced, Threads
    <3>2. CASE then.chain = group[p].chain
      BY <1>0, <2>1, <3>2, Numbers
    <3>3. QED
      BY <1>0, <2>2, <3>1, <3>2
  <2>3. \A then \in task'[p]["relay"] : then.do = "announce" =>
          then.chain.gen \in 1..(gens[p] + 1) /\ Past(p, then.chain)
    BY <2>2, <1>0, Numbers
  <2>4. QED
    BY <1>0, <2>3 DEF Announced, Threads, Past
<1>5. Addressed(p)'
  BY <1>0 DEF KeysAt, Addressed, Threads, OnlyAt
<1>6. QED
  BY <1>0, <1>1, <1>2, <1>3, <1>4, <1>5, Quiet DEF KeysAt

LEMMA RatchetedKeeps ==
  ASSUME Inv, NEW p \in Peers, Ratcheted(p)
  PROVE  Inv'
<1>0. /\ TypeOK /\ TypeOK' /\ OnlyAt(p) /\ KeysAt(p) /\ UNCHANGED <<task, gens, told, out>>
      /\ ~ratcheting[p] /\ ratcheting'[p] /\ task[p]["window"] = {}
      /\ group[p].chain.gen = gens[p] /\ gens[p] # 0
      /\ group'[p].chain.gen = gens[p] /\ group'[p].chain.key = group[p].chain.key + 1
      /\ group'[p].members = group[p].members
  BY DEF Inv, Ratcheted, KeyInv, KeysAt, Joined
<1>1. Joined(p)'
  <2>1. (group[p] # NoGroup)'
    <3>1. (group[p].chain.gen # 0)'
      BY <1>0
    <3>2. QED
      BY <1>0, <3>1, HasGroup, PTL
  <2>2. QED
    BY <1>0, <2>1 DEF KeysAt, Joined, OnlyAt
<1>2. Encrypting(p)'
  BY <1>0, Numbers DEF Encrypting
<1>3. NextKey(p)' = NextKey(p)
  BY <1>0, Numbers DEF NextKey
<1>4. KeysSpent(p)'
  BY <1>0, <1>3 DEF KeysAt, KeysSpent
<1>5. Announced(p)'
  BY <1>0 DEF KeysAt, Announced, Past
<1>6. Addressed(p)'
  BY <1>0 DEF KeysAt, Addressed, OnlyAt
<1>7. QED
  BY <1>0, <1>1, <1>2, <1>4, <1>5, <1>6, Quiet DEF KeysAt

LEMMA EncryptedKeeps ==
  ASSUME Inv, NEW p \in Peers, Encrypted(p)
  PROVE  Inv'
<1>0. /\ TypeOK /\ TypeOK' /\ OnlyAt(p) /\ KeysAt(p) /\ UNCHANGED <<gens, told, out>>
      /\ ratcheting[p] /\ ~ratcheting'[p] /\ task'[p]["relay"] = task[p]["relay"]
      /\ group[p].chain.gen = gens[p] /\ gens[p] # 0 /\ group[p].chain.key \in Nat \ {0}
      /\ group'[p].chain.gen = gens[p] /\ group'[p].chain.key = group[p].chain.key
      /\ group'[p].members = group[p].members
  BY DEF Inv, Encrypted, KeyInv, KeysAt, Joined, Encrypting
<1>1. PICK c \in Chain : /\ c.gen = gens[p] /\ c.key = group[p].chain.key - 1
                         /\ task'[p]["window"] = {[do |-> "msg", chain |-> c]}
  BY <1>0 DEF Encrypted
<1>2. Joined(p)'
  <2>1. (group[p] # NoGroup)'
    <3>1. (group[p].chain.gen # 0)'
      BY <1>0
    <3>2. QED
      BY <1>0, <3>1, HasGroup, PTL
  <2>2. QED
    BY <1>0, <2>1 DEF KeysAt, Joined, OnlyAt
<1>3. Encrypting(p)'
  BY <1>0 DEF Encrypting
<1>4. NextKey(p) = c.key /\ NextKey(p)' = c.key + 1
  BY <1>0, <1>1 DEF NextKey
<1>5. KeysSpent(p)'
  <2>1. Past(p, c)
    BY <1>0, <1>1, <1>4 DEF KeysAt, KeysSpent, Past
  <2>2. c.key \in Nat
    BY ChainFields
  <2>3. \A e \in out : e.from = p => e.chain.gen <= gens[p]
          /\ (e.chain.gen = gens[p] => e.chain.key < c.key + 1)
    BY <1>0, <1>4, <2>2, Numbers DEF KeysAt, KeysSpent
  <2>4. \A then \in task'[p]["window"] : then.chain = c
    BY <1>1
  <2>5. c.key < c.key + 1
    BY <2>2
  <2>6. Past(p, c)'
    BY <1>0, <2>1 DEF Past
  <2>7. QED
    BY <1>0, <1>1, <1>4, <2>3, <2>4, <2>5, <2>6 DEF KeysAt, KeysSpent, Past
<1>6. Announced(p)'
  BY <1>0, <1>1 DEF KeysAt, Announced, Threads, Past
<1>7. Addressed(p)'
  BY <1>0, <1>1 DEF KeysAt, Addressed, Threads, OnlyAt
<1>8. QED
  BY <1>0, <1>2, <1>3, <1>5, <1>6, <1>7, Quiet DEF KeysAt

LEMMA HandledKeeps ==
  ASSUME Inv, NEW p \in Peers, Handled(p)
  PROVE  Inv'
<1>0. /\ TypeOK /\ TypeOK' /\ OnlyAt(p) /\ KeysAt(p) /\ UNCHANGED <<ratcheting, told, out>>
      /\ task'[p]["window"] = task[p]["window"]
  BY DEF Inv, Handled, KeyInv
<1>1. CASE /\ KeepsChain(p)
           /\ \A then \in task'[p]["relay"] :
                then \in task[p]["relay"] \/ (then.do = "keys" /\ then.to \subseteq listed'[p])
  <2>1. Joined(p)' /\ gens' = gens /\ NextKey(p)' = NextKey(p)
        /\ group'[p].chain = group[p].chain
    BY <1>0, <1>1, ChainKept DEF KeysAt
  <2>2. Encrypting(p)'
    BY <1>0, <2>1 DEF KeysAt, Encrypting
  <2>3. KeysSpent(p)'
    BY <1>0, <1>1, <2>1 DEF KeysAt, KeysSpent, Past
  <2>4. Announced(p)'
    BY <1>0, <1>1, <2>1 DEF KeysAt, Announced, Threads, Past
  <2>5. Addressed(p)'
    BY <1>0, <1>1 DEF KeysAt, Addressed, Threads, OnlyAt
  <2>6. QED
    BY <1>0, <2>1, <2>2, <2>3, <2>4, <2>5, Quiet DEF KeysAt
<1>2. CASE /\ group[p] = NoGroup
           /\ group'[p].chain = NewChain(p) /\ gens'[p] = gens[p] + 1
           /\ group'[p].members \subseteq listed'[p]
           /\ task'[p]["relay"] = {[do |-> "announce", chain |-> NewChain(p)]}
  <2>1. gens[p] = 0 /\ gens'[p] = 1 /\ NewChain(p).gen = 1
    BY <1>0, <1>2, NewChainFields DEF KeysAt, Joined
  <2>2. Joined(p)'
    <3>1. (group[p].chain.gen # 0)'
      BY <1>2, <2>1
    <3>2. (group[p] # NoGroup)'
      BY <1>0, <3>1, HasGroup, PTL
    <3>3. QED
      BY <1>2, <2>1, <3>2 DEF Joined
  <2>3. ~ratcheting[p]
    BY <1>0, <2>1 DEF KeysAt, Encrypting
  <2>4. Encrypting(p)'
    BY <1>0, <2>3 DEF Encrypting
  <2>5. KeysSpent(p)'
    <3>1. \A e \in out : e.from = p => e.chain.gen = 0
      BY <1>0, <2>1, Numbers DEF KeysAt, KeysSpent
    <3>2. \A then \in task[p]["window"] : then.do # "msg"
      BY <1>0, <2>1 DEF KeysAt, KeysSpent
    <3>3. QED
      BY <1>0, <1>2, <2>1, <3>1, <3>2 DEF KeysSpent
  <2>6. Announced(p)'
    <3>1. \A then \in task[p]["window"] : then.do # "announce"
      BY <1>0, <2>1 DEF KeysAt, Announced, Threads
    <3>2. QED
      BY <1>0, <1>2, <2>1, <3>1 DEF Announced, Threads
  <2>7. Addressed(p)'
    BY <1>0, <1>2 DEF KeysAt, Addressed, Threads, OnlyAt
  <2>8. QED
    BY <1>0, <2>2, <2>4, <2>5, <2>6, <2>7, Quiet DEF KeysAt
<1>3. QED
  BY <1>1, <1>2 DEF Handled

LEMMA SentKeeps ==
  ASSUME Inv, NEW p \in Peers, NEW t \in Threads, Sent(p, t)
  PROVE  Inv'
<1>0. /\ TypeOK /\ TypeOK' /\ OnlyAt(p) /\ KeysAt(p) /\ Threads = {"window", "relay"}
      /\ UNCHANGED <<group, gens, ratcheting, listed>>
      /\ \A s \in Threads : task'[p][s] \subseteq task[p][s]
      /\ task'[p][t] = {}
  BY DEF Inv, Sent, KeyInv, Threads
<1>1. Joined(p)' /\ NextKey(p)' = NextKey(p)
  BY <1>0 DEF KeysAt, Joined, NextKey
<1>2. Encrypting(p)'
  BY <1>0 DEF KeysAt, Encrypting
<1>3. Addressed(p)'
  BY <1>0 DEF KeysAt, Addressed
<1>4. CASE /\ out' = out
           /\ \A k \in told' : k \in told \/ (k.of = p /\ k.to \in listed[p] /\ Past(p, k.chain))
  <2>1. KeysSpent(p)'
    BY <1>0, <1>1, <1>4 DEF KeysAt, KeysSpent, Past
  <2>2. Announced(p)'
    BY <1>0, <1>4 DEF KeysAt, Announced, Past
  <2>3. KeyInv'
    BY <1>0, <1>1, <1>2, <1>3, <1>4, <2>1, <2>2, EverywhereElse DEF KeysAt
  <2>4. ToldMembers'
    BY <1>0, <1>4 DEF Inv, ToldMembers
  <2>5. GroupKeyUsedOnce'
    BY <1>4 DEF Inv, GroupKeyUsedOnce
  <2>6. ASSUME NEW e \in out, NEW k \in told', k.of = e.from, k.chain.gen = e.chain.gen,
               k.chain.key <= e.chain.key
        PROVE  k \in told
    <3>1. e.chain.key \in Nat /\ k.chain.key \in Nat
      BY <1>0, ChainFields DEF TypeOK
    <3>2. ~(k.of = p /\ Past(p, k.chain))
      BY <2>6, <3>1 DEF Past
    <3>3. QED
      BY <1>4, <3>2
  <2>7. NothingOlderIsReadable'
    BY <1>4, <2>6 DEF Inv, NothingOlderIsReadable, CanRead
  <2>8. QED
    BY <1>0, <2>3, <2>4, <2>5, <2>7 DEF Inv
<1>5. CASE /\ told' = told
           /\ \E then \in task[p][t], e \in out' :
                /\ then.do = "msg" /\ out' = out \cup {e}
                /\ e.from = p /\ e.chain = then.chain /\ e.listed = listed[p]
  <2>1. PICK then \in task[p][t], e \in out' :
          /\ then.do = "msg" /\ out' = out \cup {e}
          /\ e.from = p /\ e.chain = then.chain /\ e.listed = listed[p]
    BY <1>5
  <2>2. t = "window"
    BY <1>0, <2>1 DEF KeysAt, KeysSpent
  <2>3. e.chain.gen = gens[p] /\ e.chain.key < NextKey(p) /\ Past(p, e.chain)
    BY <1>0, <2>1, <2>2 DEF KeysAt, KeysSpent
  <2>4. KeysSpent(p)'
    <3>1. \A f \in out' : f.from = p =>
            f.chain.gen <= gens[p] /\ (f.chain.gen = gens[p] => f.chain.key < NextKey(p))
      BY <1>0, <2>1, <2>3, Numbers DEF KeysAt, KeysSpent
    <3>2. QED
      BY <1>0, <1>1, <2>2, <3>1 DEF KeysAt, KeysSpent
  <2>5. Announced(p)'
    <3>1. \A c : (c.gen # gens[p] /\ Past(p, c)) => Past(p, c)'
      BY <2>1, <2>3 DEF Past
    <3>2. QED
      BY <1>0, <3>1 DEF KeysAt, Announced
  <2>6. KeyInv'
    BY <1>0, <1>1, <1>2, <1>3, <2>1, <2>4, <2>5, EverywhereElse DEF KeysAt
  <2>7. ToldMembers'
    BY <1>0, <1>5 DEF Inv, ToldMembers
  <2>8. GroupKeyUsedOnce'
    <3>1. \A f \in out : f.from = p /\ f.chain.gen = e.chain.gen => f.chain.key # e.chain.key
      BY <1>0, <2>3, Numbers DEF Past
    <3>2. QED
      BY <2>1, <3>1 DEF Inv, GroupKeyUsedOnce
  <2>9. NothingOlderIsReadable'
    <3>1. ASSUME NEW r \in Peers, CanRead(r, e)' PROVE r \in e.listed
      BY <1>5, <2>1, <3>1 DEF Inv, ToldMembers, CanRead
    <3>2. QED
      BY <1>5, <2>1, <3>1 DEF Inv, NothingOlderIsReadable, CanRead
  <2>10. QED
    BY <1>0, <2>6, <2>7, <2>8, <2>9 DEF Inv
<1>6. QED
  BY <1>4, <1>5 DEF Sent

LEMMA InitHolds == Init => Inv
<1> SUFFICES ASSUME Init PROVE Inv
  OBVIOUS
<1>1. TypeOK
  <2>1. NoGroup \in Group
    BY NoGroupFields DEF IsGroup
  <2>2. IsABag(EmptyBag) /\ BagToSet(EmptyBag) = {}
    BY DEF EmptyBag, IsABag, BagToSet, SetToBag
  <2>3. QED
    BY <2>1, <2>2, Thens DEF Init, TypeOK
<1>2. KeyInv
  <2>1. ASSUME NEW p \in Peers
        PROVE  /\ group[p] = NoGroup /\ gens[p] = 0 /\ ~ratcheting[p] /\ out = {}
               /\ \A t \in Threads : task[p][t] = {}
    BY DEF Init
  <2>2. ASSUME NEW p \in Peers PROVE KeysAt(p)
    <3>1. Joined(p)
      BY <2>1, NoGroupFields, ChainFields DEF Joined, IsGroup
    <3>2. QED
      BY <2>1, <3>1 DEF KeysAt, Encrypting, KeysSpent, Announced, Addressed, Threads
  <2>3. QED
    BY <2>2 DEF KeyInv
<1>3. ToldMembers /\ GroupKeyUsedOnce /\ NothingOlderIsReadable
  BY DEF Init, ToldMembers, GroupKeyUsedOnce, NothingOlderIsReadable
<1>4. QED
  BY <1>1, <1>2, <1>3 DEF Inv

LEMMA NextKeeps ==
  ASSUME Inv, Next
  PROVE  Inv'
<1>0. TypeOK /\ KeyInv
  BY DEF Inv
<1>1. ASSUME NEW others \in SUBSET Peers, Create(others) PROVE Inv'
  BY <1>0, <1>1, CreateMakes, MadeKeeps, GroupsAssumption
<1>2. ASSUME NEW p \in Peers, NEW q \in Peers, AddMember(p, q) PROVE Inv'
  BY <1>0, <1>2, AddMemberAdds, AddedKeeps
<1>3. ASSUME NEW p \in Peers, NEW q \in Peers, RemoveMember(p, q) PROVE Inv'
  BY <1>0, <1>3, RemoveMemberRotates, RotatedKeeps
<1>4. ASSUME NEW p \in Peers, Ratchet(p) PROVE Inv'
  BY <1>0, <1>4, RatchetRatchets, RatchetedKeeps
<1>5. ASSUME NEW p \in Peers, Encrypt(p) PROVE Inv'
  <2>1. Encrypting(p)
    BY <1>0 DEF KeyInv, KeysAt
  <2>2. QED
    BY <1>0, <1>5, <2>1, EncryptEncrypts, EncryptedKeeps
<1>6. ASSUME NEW p \in Peers, NEW t \in Threads, Send(p, t) PROVE Inv'
  BY <1>0, <1>6, SendSends, SentKeeps
<1>7. ASSUME NEW p \in Peers, NEW m \in BagToSet(net),
             \/ OnInvite(p, m) \/ OnSenderKey(p, m) \/ OnGroupMsg(p, m)
             \/ OnMemberAdd(p, m) \/ OnMemberRemove(p, m)
      PROVE  Inv'
  BY <1>0, <1>7, OnInviteHandles, OnSenderKeyHandles, OnGroupMsgHandles, OnMemberAddHandles,
     OnMemberRemoveHandles, HandledKeeps
<1>8. QED
  BY <1>1, <1>2, <1>3, <1>4, <1>5, <1>6, <1>7 DEF Next

LEMMA StutterKeeps ==
  ASSUME Inv, UNCHANGED vars
  PROVE  Inv'
<1>1. TypeOK' /\ ToldMembers' /\ GroupKeyUsedOnce' /\ NothingOlderIsReadable'
  BY DEF Inv, vars, TypeOK, ToldMembers, GroupKeyUsedOnce, NothingOlderIsReadable, CanRead
<1>2. KeyInv'
  BY DEF Inv, vars, KeyInv, KeysAt, Joined, Encrypting, KeysSpent, NextKey, Past, Announced, Addressed
<1>3. QED
  BY <1>1, <1>2 DEF Inv

LEMMA InvHolds == Spec => []Inv
<1>1. Init => Inv
  BY InitHolds
<1>2. Inv /\ [Next]_vars => Inv'
  BY NextKeeps, StutterKeeps
<1>3. QED
  BY <1>1, <1>2, PTL DEF Spec

----------------------------------------------------------------------------
(* The theorems *)

\* The members, the chains, what the threads have to send and the messages
\* keep their shape, and no thread has two things to send, whatever order the
\* messages of a group arrive in (groups.py:88-365).
THEOREM GroupsTypeCorrect == Spec => []TypeOK
<1>1. Inv => TypeOK
  BY DEF Inv
<1>2. QED
  BY <1>1, InvHolds, PTL

\* No sender-key message key encrypts two messages (crypto.py:213-220), though
\* the relay thread may read the chain in the middle of the window's encrypt,
\* and a removal replaces it while its first state is still to be announced.
THEOREM NoGroupKeyUsedTwice == Spec => []GroupKeyUsedOnce
<1>1. Inv => GroupKeyUsedOnce
  BY DEF Inv
<1>2. QED
  BY <1>1, InvHolds, PTL

\* Whoever can read a message of a group was a member, as its sender saw it,
\* by the time it was sent: a newcomer cannot decrypt anything sent before
\* they joined (groups.py:21-23), however many members are added and removed.
THEOREM NewcomersReadNothingOlder == Spec => []NothingOlderIsReadable
<1>1. Inv => NothingOlderIsReadable
  BY DEF Inv
<1>2. QED
  BY <1>1, InvHolds, PTL
=============================================================================
