--------------------------- MODULE SessionProofs ---------------------------
(***************************************************************************)
(* Proofs about Session, for any accounts, threads, bounds and faults.     *)
(***************************************************************************)
EXTENDS Session, FiniteSetTheorems, TLAPS

----------------------------------------------------------------------------
\* A connection's rows, as a set, when one is added and when one is taken.
LEMMA RowAdded ==
  ASSUME NEW S, NEW s \in Seq(S), NEW x \in S
  PROVE  /\ Append(s, x) \in Seq(S)
         /\ Len(Append(s, x)) = Len(s) + 1
         /\ Range(Append(s, x)) \subseteq Range(s) \cup {x}
<1>1. /\ DOMAIN s = 1..Len(s) /\ Len(s) \in Nat
      /\ DOMAIN Append(s, x) = 1..(Len(s) + 1)
      /\ \A i \in 1..Len(s) : Append(s, x)[i] = s[i]
      /\ Append(s, x)[Len(s) + 1] = x
      /\ Append(s, x) \in Seq(S) /\ Len(Append(s, x)) = Len(s) + 1
  OBVIOUS
<1>2. QED
  BY <1>1 DEF Range

LEMMA RowTaken ==
  ASSUME NEW S, NEW s \in Seq(S), s # <<>>
  PROVE  Tail(s) \in Seq(S) /\ Range(Tail(s)) \subseteq Range(s)
<1>1. /\ DOMAIN s = 1..Len(s) /\ Len(s) \in Nat \ {0} /\ Tail(s) \in Seq(S)
      /\ DOMAIN Tail(s) = 1..(Len(s) - 1)
      /\ \A i \in 1..(Len(s) - 1) : Tail(s)[i] = s[i + 1] /\ i + 1 \in 1..Len(s)
  OBVIOUS
<1>2. QED
  BY <1>1 DEF Range

----------------------------------------------------------------------------
\* Type correctness.

\* Nobody is in touch with himself, and a relay thread with something left to
\* do for a row still has that row.
Shape ==
  /\ IsFiniteSet(out)
  /\ \A p \in Peers : callers[p][p] = 0 /\ offers[p][p] = {}
  /\ \A p \in Peers : \A f \in Range(inbox[p]) : f.from # p
  /\ \A p \in Peers : \A i \in task[p] : i.to # p /\ got[p] < Len(inbox[p])

TypeInv == TypeOK /\ Shape

LEMMA InitTypeInv == Init => TypeInv
<1> SUFFICES ASSUME Init PROVE TypeInv
  OBVIOUS
<1>1. TypeOK
  BY SessionAssumption DEF Init, TypeOK, AtMostOne
<1>2. IsFiniteSet({}) /\ Range(<<>>) = {}
  BY FS_EmptySet DEF Range
<1>3. QED
  BY <1>1, <1>2 DEF Init, TypeInv, Shape

\* The row a relay thread takes is one of those it was sent.
LEMMA RowType ==
  ASSUME TypeInv, NEW p \in Peers, NEW type, Receives(p, type)
  PROVE  /\ NextRow(p) \in Hello \cup Msg /\ NextRow(p).type = type
         /\ NextRow(p).from \in Peers /\ NextRow(p).from # p
<1>1. inbox[p] \in Seq(Hello \cup Msg) /\ got[p] \in Nat /\ got[p] < Len(inbox[p])
  BY DEF TypeInv, TypeOK, Receives
<1>2. got[p] + 1 \in DOMAIN inbox[p]
  BY <1>1
<1>3. NextRow(p) \in Hello \cup Msg /\ NextRow(p) \in Range(inbox[p])
  BY <1>1, <1>2 DEF NextRow, Range
<1>4. NextRow(p).type = type
  BY DEF Receives
<1>5. QED
  BY <1>3, <1>4 DEF TypeInv, Shape, Hello, Msg

\* One more fault, of some kind.
LEMMA FaultType ==
  ASSUME TypeOK, NEW k \in FaultKinds, Fault(k)
  PROVE  faults' \in [FaultKinds -> Nat] /\ \A j \in FaultKinds : faults'[j] <= MaxFaults[j]
<1>1. /\ faults \in [FaultKinds -> Nat] /\ MaxFaults \in [FaultKinds -> Nat]
      /\ \A j \in FaultKinds : faults[j] <= MaxFaults[j]
  BY SessionAssumption DEF TypeOK
<1>2. faults[k] < MaxFaults[k] /\ faults' = [faults EXCEPT ![k] = @ + 1]
  BY DEF Fault
<1>3. QED
  BY <1>1, <1>2

\* A frame sent to another account keeps the relay's rows as they should be.
LEMMA AppendRow ==
  ASSUME TypeInv, NEW p \in Peers, NEW q \in Peers, p # q,
         NEW f \in Hello \cup Msg, f.from = p,
         inbox' = [inbox EXCEPT ![q] = Append(@, f)]
  PROVE  /\ inbox' \in [Peers -> Seq(Hello \cup Msg)]
         /\ \A r \in Peers : /\ Len(inbox[r]) <= Len(inbox'[r])
                             /\ \A g \in Range(inbox'[r]) : g.from # r
<1> DEFINE S == Hello \cup Msg
<1>1. inbox \in [Peers -> Seq(S)] /\ f \in S
  BY DEF TypeInv, TypeOK
<1>2. \A r \in Peers : \A g \in Range(inbox[r]) : g.from # r
  BY DEF TypeInv, Shape
<1> HIDE DEF S
<1>3. inbox[q] \in Seq(S)
  BY <1>1
<1>4. /\ Append(inbox[q], f) \in Seq(S)
      /\ Len(Append(inbox[q], f)) = Len(inbox[q]) + 1
      /\ Range(Append(inbox[q], f)) \subseteq Range(inbox[q]) \cup {f}
  BY <1>1, <1>3, RowAdded
<1>5. \A r \in Peers : inbox'[r] = IF r = q THEN Append(inbox[q], f) ELSE inbox[r]
  BY <1>1
<1>6. inbox' \in [Peers -> Seq(S)]
  BY <1>1, <1>4
<1>7. ASSUME NEW r \in Peers
      PROVE  Len(inbox[r]) <= Len(inbox'[r]) /\ \A g \in Range(inbox'[r]) : g.from # r
  <2>1. Len(inbox[r]) \in Nat
    BY <1>1
  <2>2. CASE r = q
    <3>1. \A g \in Range(inbox'[r]) : g \in Range(inbox[q]) \/ g = f
      BY <1>4, <1>5, <2>2
    <3>2. QED
      BY <1>2, <1>4, <1>5, <2>1, <2>2, <3>1
  <2>3. CASE r # q
    BY <1>2, <1>5, <2>1, <2>3
  <2>4. QED
    BY <2>2, <2>3
<1>8. QED
  BY <1>6, <1>7 DEF S

\* What does not touch the rows keeps them.
LEMMA SameRows ==
  ASSUME TypeInv, inbox' = inbox
  PROVE  /\ inbox' \in [Peers -> Seq(Hello \cup Msg)]
         /\ \A r \in Peers : /\ Len(inbox[r]) <= Len(inbox'[r])
                             /\ \A g \in Range(inbox'[r]) : g.from # r
<1>1. /\ inbox \in [Peers -> Seq(Hello \cup Msg)]
      /\ \A r \in Peers : \A g \in Range(inbox[r]) : g.from # r
  BY DEF TypeInv, TypeOK, Shape
<1>2. \A r \in Peers : Len(inbox[r]) \in Nat
  BY <1>1
<1>3. QED
  BY <1>1, <1>2

LEMMA SendShape ==
  ASSUME TypeInv, NEW p \in Peers, NEW q \in Peers, p # q,
         NEW f \in Hello \cup Msg, f.from = p,
         NEW ok \in BOOLEAN, SendTo(q, f, ok)
  PROVE  /\ inbox' \in [Peers -> Seq(Hello \cup Msg)]
         /\ \A r \in Peers : /\ Len(inbox[r]) <= Len(inbox'[r])
                             /\ \A g \in Range(inbox'[r]) : g.from # r
         /\ got' = got
         /\ faults' \in [FaultKinds -> Nat]
         /\ \A k \in FaultKinds : faults'[k] <= MaxFaults[k]
<1>1. CASE UNCHANGED relay /\ Fault("loss")
  <2>1. faults' \in [FaultKinds -> Nat] /\ \A k \in FaultKinds : faults'[k] <= MaxFaults[k]
    BY <1>1, FaultType DEF TypeInv, FaultKinds
  <2>2. inbox' = inbox /\ got' = got
    BY <1>1 DEF relay
  <2>3. QED
    BY <2>1, <2>2, SameRows
<1>2. CASE inbox' = [inbox EXCEPT ![q] = Append(@, f)] /\ UNCHANGED <<got, faults>>
  <2>1. faults' \in [FaultKinds -> Nat] /\ \A k \in FaultKinds : faults'[k] <= MaxFaults[k]
    BY <1>2 DEF TypeInv, TypeOK
  <2>2. QED
    BY <1>2, <2>1, AppendRow
<1>3. QED
  BY <1>1, <1>2 DEF SendTo

LEMMA RootType ==
  ASSUME NEW p \in Peers, NEW q \in Peers, NEW b \in BOOLEAN, NEW m \in Ephs, NEW t \in Ephs
  PROVE  NewSession(p, q, b, m, t) \in Session
BY DEF NewSession, Session, RootKey, Root

\* One session takes the place of another.
LEMMA NewConn ==
  ASSUME TypeOK, NEW p \in Peers, NEW q \in Peers, NEW s \in Session,
         conn' = [conn EXCEPT ![p][q] = {s}]
  PROVE  /\ conn' \in [Peers -> [Peers -> SUBSET Session]]
         /\ \A a, b \in Peers : AtMostOne(conn'[a][b])
         /\ \A a, b \in Peers : conn'[a][b] = IF a = p /\ b = q THEN {s} ELSE conn[a][b]
<1>1. /\ conn \in [Peers -> [Peers -> SUBSET Session]]
      /\ \A a, b \in Peers : AtMostOne(conn[a][b])
  BY DEF TypeOK
<1>2. {s} \in SUBSET Session
  OBVIOUS
<1>3. conn' \in [Peers -> [Peers -> SUBSET Session]]
  BY <1>1, <1>2
<1>4. \A a, b \in Peers : conn'[a][b] = IF a = p /\ b = q THEN {s} ELSE conn[a][b]
  BY <1>1
<1>5. ASSUME NEW a \in Peers, NEW b \in Peers PROVE AtMostOne(conn'[a][b])
  <2>1. CASE a = p /\ b = q
    BY <1>4, <2>1 DEF AtMostOne
  <2>2. CASE ~(a = p /\ b = q)
    BY <1>1, <1>4, <2>2
  <2>3. QED
    BY <2>1, <2>2
<1>6. QED
  BY <1>3, <1>4, <1>5

LEMMA StepTypeInv == TypeInv /\ [Next]_vars => TypeInv'
<1> SUFFICES ASSUME TypeInv, [Next]_vars PROVE TypeInv'
  OBVIOUS
<1> USE SessionAssumption DEF TypeInv
<1>a. /\ callers \in [Peers -> [Peers -> Nat]] /\ calls \in [Peers -> [Peers -> Nat]]
      /\ pending \in [Peers -> [Peers -> Ephs \cup {NoEph}]]
      /\ conn \in [Peers -> [Peers -> SUBSET Session]]
      /\ shown \in [Peers -> [Peers -> Seq(Nat)]]
      /\ offers \in [Peers -> [Peers -> SUBSET Ephs]]
  BY DEF TypeOK
<1>b. /\ \A p, q \in Peers : AtMostOne(conn[p][q])
      /\ task \in [Peers -> SUBSET (Reply \cup Install)]
      /\ \A p \in Peers : AtMostOne(task[p])
      /\ dead \in [Peers -> BOOLEAN]
  BY DEF TypeOK
<1>c. /\ inbox \in [Peers -> Seq(Hello \cup Msg)]
      /\ got \in [Peers -> Nat]
      /\ \A p \in Peers : got[p] <= Len(inbox[p]) /\ Len(inbox[p]) \in Nat
  BY DEF TypeOK
<1>d. /\ faults \in [FaultKinds -> Nat] /\ \A k \in FaultKinds : faults[k] <= MaxFaults[k]
      /\ "loss" \in FaultKinds /\ MaxFaults \in [FaultKinds -> Nat]
  BY DEF TypeOK, FaultKinds
<1>1. ASSUME NEW p \in Peers, NEW q \in Peers, CheckConnect(p, q) PROVE TypeInv'
  <2>1. /\ callers' = [callers EXCEPT ![p][q] = @ + 1]
        /\ calls' = [calls EXCEPT ![p][q] = @ + 1]
        /\ p # q
        /\ UNCHANGED <<offers, task, dead, pending, conn, ephs, inbox, got, out, shown, faults>>
    BY <1>1 DEF CheckConnect, sessions, relay, history, Pairs
  <2>2. callers' \in [Peers -> [Peers -> Nat]] /\ calls' \in [Peers -> [Peers -> Nat]]
    <3>1. callers' \in [Peers -> [Peers -> Nat]]
      BY <1>a, <2>1
    <3>2. calls' \in [Peers -> [Peers -> Nat]]
      BY <1>a, <2>1
    <3>3. QED
      BY <3>1, <3>2
  <2>3. \A a \in Peers : callers'[a][a] = callers[a][a]
    BY <1>a, <2>1
  <2>4. TypeOK'
    BY <2>1, <2>2 DEF TypeOK
  <2>5. Shape'
    BY <2>1, <2>3 DEF Shape
  <2>6. QED
    BY <2>4, <2>5
<1>2. ASSUME NEW p \in Peers, NEW q \in Peers, SendHello(p, q), p # q PROVE TypeInv'
  <2>0. PICK eph \in offers[p][q], ok \in BOOLEAN :
          /\ SendTo(q, [type |-> "hello", from |-> p, eph |-> eph], ok)
          /\ pending' = IF ok THEN pending ELSE [pending EXCEPT ![p][q] = NoEph]
          /\ offers' = [offers EXCEPT ![p][q] = @ \ {eph}]
    BY <1>2 DEF SendHello
  <2> DEFINE f == [type |-> "hello", from |-> p, eph |-> eph]
  <2>1. /\ f \in Hello /\ f.from = p
    BY <1>a, <2>0 DEF Hello
  <2>2. SendTo(q, f, ok)
    BY <2>0
  <2> HIDE DEF f
  <2>3. /\ inbox' \in [Peers -> Seq(Hello \cup Msg)]
        /\ \A r \in Peers : /\ Len(inbox[r]) <= Len(inbox'[r])
                            /\ \A g \in Range(inbox'[r]) : g.from # r
        /\ got' = got
        /\ faults' \in [FaultKinds -> Nat]
        /\ \A k \in FaultKinds : faults'[k] <= MaxFaults[k]
    BY <1>2, <2>1, <2>2, SendShape
  <2>4. UNCHANGED <<calls, callers, task, dead, conn, ephs, out, shown>>
    BY <1>2 DEF SendHello, history
  <2>5. pending' \in [Peers -> [Peers -> Ephs \cup {NoEph}]]
    BY <1>a, <2>0
  <2>6. /\ offers' \in [Peers -> [Peers -> SUBSET Ephs]]
        /\ \A a \in Peers : offers'[a][a] = offers[a][a]
    BY <1>2, <1>a, <2>0
  <2>7. \A r \in Peers : Len(inbox[r]) \in Nat /\ Len(inbox'[r]) \in Nat /\ got'[r] <= Len(inbox'[r])
    <3>1. \A r \in Peers : Len(inbox'[r]) \in Nat
      BY <2>3
    <3>2. QED
      BY <1>c, <2>3, <3>1
  <2>8. TypeOK'
    BY <2>3, <2>4, <2>5, <2>6, <2>7 DEF TypeOK
  <2>9. \A a \in Peers : got[a] < Len(inbox[a]) => got'[a] < Len(inbox'[a])
    BY <1>c, <2>3, <2>7
  <2>10. Shape'
    BY <2>3, <2>4, <2>6, <2>9 DEF Shape
  <2>11. QED
    BY <2>8, <2>10
<1>2a. ASSUME NEW p \in Peers, NEW q \in Peers, Offer(p, q), p # q PROVE TypeInv'
  <2>1. /\ callers[p][q] > 0 /\ callers' = [callers EXCEPT ![p][q] = @ - 1]
        /\ pending' = [pending EXCEPT ![p][q] = ephs']
        /\ offers' = [offers EXCEPT ![p][q] = @ \cup {ephs'}]
        /\ UNCHANGED <<calls, task, dead, conn, inbox, got, out, shown, faults>>
    BY <1>2a DEF Offer, relay, history
  <2>2. ephs' \in Ephs /\ ephs' \in Nat
    BY <1>2a DEF Offer, TypeOK, Ephs, NoEph
  <2>3. pending' \in [Peers -> [Peers -> Ephs \cup {NoEph}]]
    BY <1>a, <2>1, <2>2
  <2>4. /\ offers' \in [Peers -> [Peers -> SUBSET Ephs]]
        /\ \A a \in Peers : offers'[a][a] = offers[a][a]
    BY <1>2a, <1>a, <2>1, <2>2
  <2>5. /\ callers' \in [Peers -> [Peers -> Nat]]
        /\ \A a \in Peers : callers'[a][a] = callers[a][a]
    BY <1>2a, <1>a, <2>1
  <2>6. TypeOK'
    BY <2>1, <2>2, <2>3, <2>4, <2>5 DEF TypeOK
  <2>7. Shape'
    BY <2>1, <2>4, <2>5 DEF Shape
  <2>8. QED
    BY <2>6, <2>7
<1>3. ASSUME NEW p \in Peers, OnHello(p) PROVE TypeInv'
  <2> DEFINE q == NextRow(p).from
             s == NewSession(p, q, FALSE, ephs', NextRow(p).eph)
             r == [do |-> "reply", to |-> q, eph |-> ephs']
  <2>1. /\ q \in Peers /\ q # p /\ NextRow(p).eph \in Ephs
    BY <1>3, RowType DEF OnHello, Hello, Msg
  <2>2. ephs' \in Ephs /\ ephs' \in Nat
    BY <1>3 DEF OnHello, TypeOK, Ephs, NoEph
  <2>3. s \in Session /\ r \in Reply
    BY <2>1, <2>2, RootType DEF Reply
  <2>4. /\ conn' = [conn EXCEPT ![p][q] = {s}]
        /\ task' = [task EXCEPT ![p] = {r}]
        /\ r.to = q
        /\ got[p] < Len(inbox[p])
        /\ UNCHANGED <<calls, callers, offers, dead, pending, inbox, got, out, shown, faults>>
    BY <1>3 DEF OnHello, Receives, relay, history
  <2> HIDE DEF q, s, r
  <2>5. TypeOK'
    <3>1. /\ conn' \in [Peers -> [Peers -> SUBSET Session]]
          /\ \A a, b \in Peers : AtMostOne(conn'[a][b])
      BY <2>1, <2>3, <2>4, NewConn
    <3>2. /\ task' \in [Peers -> SUBSET (Reply \cup Install)]
          /\ \A a \in Peers : AtMostOne(task'[a])
      BY <1>b, <2>3, <2>4 DEF AtMostOne
    <3>3. QED
      BY <2>2, <2>4, <3>1, <3>2 DEF TypeOK
  <2>6. Shape'
    BY <2>1, <2>4 DEF Shape, TypeOK
  <2>7. QED
    BY <2>5, <2>6
<1>4. ASSUME NEW p \in Peers, SendHelloAck(p) PROVE TypeInv'
  <2>1. PICK r \in task[p], ok \in BOOLEAN : SendHelloAck(p)!1!(r, ok)
    BY <1>4 DEF SendHelloAck
  <2> DEFINE f == [type |-> "hello_ack", from |-> p, eph |-> r.eph]
  <2>2. r.to \in Peers /\ r.to # p /\ f \in Hello /\ f.from = p /\ got[p] < Len(inbox[p])
    <3>1. r \in Reply
      BY <1>b, <2>1 DEF Install
    <3>2. QED
      BY <2>1, <3>1 DEF Shape, Reply, Hello
  <2>3. /\ task' = [task EXCEPT ![p] = {}]
        /\ got' = [got EXCEPT ![p] = @ + 1]
        /\ UNCHANGED <<calls, callers, offers, dead, pending, conn, ephs, out, shown>>
    BY <1>4 DEF SendHelloAck, sessions, history
  <2>4. \/ inbox' = [inbox EXCEPT ![r.to] = Append(@, f)] /\ faults' = faults
        \/ inbox' = inbox /\ Fault("loss")
    BY <2>1
  <2> HIDE DEF f
  <2>5. /\ inbox' \in [Peers -> Seq(Hello \cup Msg)]
        /\ \A a \in Peers : /\ Len(inbox[a]) <= Len(inbox'[a])
                            /\ \A g \in Range(inbox'[a]) : g.from # a
    <3>1. CASE inbox' = inbox
      BY <3>1, SameRows
    <3>2. CASE inbox' = [inbox EXCEPT ![r.to] = Append(@, f)]
      BY <2>2, <3>2, AppendRow
    <3>3. QED
      BY <2>4, <3>1, <3>2
  <2>6. faults' \in [FaultKinds -> Nat] /\ \A k \in FaultKinds : faults'[k] <= MaxFaults[k]
    BY <1>d, <2>4, FaultType
  <2>7. \A a \in Peers : Len(inbox[a]) \in Nat /\ Len(inbox'[a]) \in Nat
    BY <1>c, <2>5
  <2>8. TypeOK'
    <3>1. got' \in [Peers -> Nat] /\ \A a \in Peers : got'[a] <= Len(inbox'[a])
      BY <1>c, <2>2, <2>3, <2>5, <2>7
    <3>2. /\ task' \in [Peers -> SUBSET (Reply \cup Install)]
          /\ \A a \in Peers : AtMostOne(task'[a])
      BY <1>b, <2>3 DEF AtMostOne
    <3>3. QED
      BY <2>3, <2>5, <2>6, <3>1, <3>2 DEF TypeOK
  <2>9. Shape'
    <3>1. task'[p] = {} /\ \A a \in Peers : a # p => task'[a] = task[a] /\ got'[a] = got[a]
      BY <1>b, <1>c, <2>3
    <3>2. ASSUME NEW a \in Peers, NEW i \in task'[a]
          PROVE  i.to # a /\ got'[a] < Len(inbox'[a])
      <4>1. i \in task[a] /\ got'[a] = got[a]
        BY <3>1
      <4>2. i.to # a /\ got[a] < Len(inbox[a])
        BY <4>1 DEF Shape
      <4>3. QED
        BY <1>c, <2>5, <2>7, <4>1, <4>2
    <3>3. QED
      BY <2>3, <2>5, <3>2 DEF Shape
  <2>10. QED
    BY <2>8, <2>9
<1>5. ASSUME NEW p \in Peers, OnHelloAck(p) PROVE TypeInv'
  <2> DEFINE q == NextRow(p).from
             s == NewSession(p, q, TRUE, pending[p][q], NextRow(p).eph)
             i == [do |-> "install", to |-> q, session |-> s]
  <2>1. /\ q \in Peers /\ q # p /\ NextRow(p).eph \in Ephs
    BY <1>5, RowType DEF OnHelloAck, Hello, Msg
  <2>2. pending[p][q] # NoEph => i \in Install
    <3>1. pending[p][q] # NoEph => pending[p][q] \in Ephs
      BY <1>a, <2>1
    <3>2. pending[p][q] # NoEph => s \in Session
      BY <2>1, <3>1, RootType
    <3>3. QED
      BY <2>1, <3>2 DEF Install
  <2>3. /\ i.to = q
        /\ got[p] < Len(inbox[p]) /\ task[p] = {}
        /\ \/ /\ got' = [got EXCEPT ![p] = @ + 1]
              /\ pending' = pending /\ task' = task
           \/ /\ got' = got
              /\ pending[p][q] # NoEph
              /\ pending' = [pending EXCEPT ![p][q] = NoEph]
              /\ task' = [task EXCEPT ![p] = {i}]
        /\ UNCHANGED <<calls, callers, offers, dead, conn, ephs, inbox, out, shown, faults>>
    BY <1>5 DEF OnHelloAck, Receives, Handled, relay, history
  <2> HIDE DEF q, s, i
  <2>4. CASE got' = [got EXCEPT ![p] = @ + 1] /\ pending' = pending /\ task' = task
    <3>1. got' \in [Peers -> Nat] /\ \A a \in Peers : got'[a] <= Len(inbox[a])
      BY <1>c, <2>3, <2>4
    <3>2. TypeOK'
      BY <2>3, <2>4, <3>1 DEF TypeOK
    <3>3. Shape'
      BY <1>c, <2>3, <2>4 DEF Shape
    <3>4. QED
      BY <3>2, <3>3
  <2>5. CASE /\ got' = got
             /\ pending[p][q] # NoEph
             /\ pending' = [pending EXCEPT ![p][q] = NoEph]
             /\ task' = [task EXCEPT ![p] = {i}]
    <3>1. pending' \in [Peers -> [Peers -> Ephs \cup {NoEph}]]
      BY <1>a, <2>1, <2>5
    <3>2. /\ task' \in [Peers -> SUBSET (Reply \cup Install)]
          /\ \A a \in Peers : AtMostOne(task'[a])
      BY <1>b, <2>2, <2>5 DEF AtMostOne
    <3>3. TypeOK'
      BY <2>3, <2>5, <3>1, <3>2 DEF TypeOK
    <3>4. Shape'
      BY <1>b, <1>c, <2>1, <2>3, <2>5 DEF Shape
    <3>5. QED
      BY <3>3, <3>4
  <2>6. QED
    BY <2>3, <2>4, <2>5
<1>5a. ASSUME NEW p \in Peers, RegisterSession(p) PROVE TypeInv'
  <2>1. PICK i \in task[p] : i.do = "install" /\ conn' = [conn EXCEPT ![p][i.to] = {i.session}]
    BY <1>5a DEF RegisterSession
  <2>2. i.to \in Peers /\ i.session \in Session /\ got[p] < Len(inbox[p])
    <3>1. i \in Install
      BY <1>b, <2>1 DEF Reply
    <3>2. QED
      BY <3>1 DEF Install, Shape
  <2>3. /\ task' = [task EXCEPT ![p] = {}]
        /\ got' = [got EXCEPT ![p] = @ + 1]
        /\ UNCHANGED <<calls, callers, offers, dead, pending, ephs, inbox, out, shown, faults>>
    BY <1>5a DEF RegisterSession, Handled, history
  <2>4. /\ conn' \in [Peers -> [Peers -> SUBSET Session]]
        /\ \A a, b \in Peers : AtMostOne(conn'[a][b])
    BY <2>1, <2>2, NewConn
  <2>5. /\ task' \in [Peers -> SUBSET (Reply \cup Install)]
        /\ \A a \in Peers : AtMostOne(task'[a])
    BY <1>b, <2>3 DEF AtMostOne
  <2>6. got' \in [Peers -> Nat] /\ \A a \in Peers : got'[a] <= Len(inbox[a])
    BY <1>c, <2>2, <2>3
  <2>7. TypeOK'
    BY <2>3, <2>4, <2>5, <2>6 DEF TypeOK
  <2>8. Shape'
    BY <1>b, <1>c, <2>3 DEF Shape
  <2>9. QED
    BY <2>7, <2>8
<1>6. ASSUME NEW p \in Peers, OnMsg(p) PROVE TypeInv'
  <2> DEFINE m == NextRow(p)
             q == m.from
  <2>1. q \in Peers /\ m.n \in Nat
    BY <1>6, RowType DEF OnMsg, Hello, Msg
  <2>2. /\ got[p] < Len(inbox[p]) /\ task[p] = {}
        /\ got' \in {got, [got EXCEPT ![p] = @ + 1]}
        /\ dead' \in {dead, [dead EXCEPT ![p] = TRUE]}
        /\ shown' \in {shown, [shown EXCEPT ![p][q] = Append(@, m.n)]}
        /\ UNCHANGED <<inbox, calls, callers, offers, task, pending, ephs, out, faults>>
    BY <1>6 DEF OnMsg, Receives, Handled, relay
  <2>3. conn' = conn \/ \E s \in conn[p][q] : conn' = [conn EXCEPT ![p][q] = {Advanced(s)}]
    BY <1>6 DEF OnMsg
  <2> HIDE DEF m, q
  <2>4. /\ conn' \in [Peers -> [Peers -> SUBSET Session]]
        /\ \A a, b \in Peers : AtMostOne(conn'[a][b])
    <3>1. ASSUME NEW s \in conn[p][q] PROVE Advanced(s) \in Session
      <4>1. s \in Session
        BY <1>a, <2>1
      <4>2. QED
        BY <4>1 DEF Session, Advanced
    <3>2. ASSUME NEW s \in conn[p][q], conn' = [conn EXCEPT ![p][q] = {Advanced(s)}]
          PROVE  /\ conn' \in [Peers -> [Peers -> SUBSET Session]]
                 /\ \A a, b \in Peers : AtMostOne(conn'[a][b])
      BY <2>1, <3>1, <3>2, NewConn
    <3>3. QED
      BY <1>a, <1>b, <2>3, <3>2
  <2>5. shown' \in [Peers -> [Peers -> Seq(Nat)]]
    <3>1. Append(shown[p][q], m.n) \in Seq(Nat)
      BY <1>a, <2>1
    <3>2. CASE shown' = shown
      BY <1>a, <3>2
    <3>3. CASE shown' = [shown EXCEPT ![p][q] = Append(@, m.n)]
      BY <1>a, <2>1, <3>1, <3>3
    <3>4. QED
      BY <2>2, <3>2, <3>3
  <2>6. got' \in [Peers -> Nat] /\ \A a \in Peers : got'[a] <= Len(inbox[a])
    <3>1. CASE got' = got
      BY <1>c, <3>1
    <3>2. CASE got' = [got EXCEPT ![p] = @ + 1]
      BY <1>c, <2>2, <3>2
    <3>3. QED
      BY <2>2, <3>1, <3>2
  <2>7. dead' \in [Peers -> BOOLEAN]
    BY <1>b, <2>2
  <2>8. TypeOK'
    BY <2>2, <2>4, <2>5, <2>6, <2>7 DEF TypeOK
  <2>9. Shape'
    BY <2>2 DEF TypeOK, Shape
  <2>10. QED
    BY <2>8, <2>9
<1>7. ASSUME NEW p \in Peers, NEW q \in Peers, SendText(p, q) PROVE TypeInv'
  <2> DEFINE n == Cardinality(SentTo(p, q)) + 1
             key(s) == MessageKey(s.root, p, s.send)
             m(s) == [type |-> "msg", from |-> p, key |-> key(s), n |-> n]
             e(s) == [key |-> key(s), to |-> q, n |-> n]
  <2>1. PICK s \in conn[p][q], ok \in BOOLEAN :
          /\ out' = out \cup {e(s)}
          /\ SendTo(q, m(s), ok)
          /\ conn' = [conn EXCEPT ![p][q] = {[s EXCEPT !.send = NextIndex(s, ok)]}]
    BY <1>7 DEF SendText
  <2>2. n \in Nat
    <3>1. SentTo(p, q) \subseteq out
      BY DEF SentTo
    <3>2. QED
      BY <3>1, FS_Subset, FS_CardinalityType DEF Shape
  <2>3. s \in Session /\ [s EXCEPT !.send = NextIndex(s, ok)] \in Session
    <3>1. s \in Session
      BY <1>a
    <3>2. QED
      BY <3>1 DEF Session, NextIndex
  <2>4. key(s) \in Key
    BY <2>3 DEF Session, Key, MessageKey
  <2> HIDE DEF n, key
  <2>5. m(s) \in Msg /\ m(s).from = p /\ e(s) \in [key: Key, to: Peers, n: Nat]
    BY <2>2, <2>4 DEF Msg
  <2>6. p # q /\ UNCHANGED <<calls, callers, offers, task, dead, pending, ephs, shown>>
    BY <1>7 DEF SendText, threads
  <2> HIDE DEF m, e
  <2>7. /\ inbox' \in [Peers -> Seq(Hello \cup Msg)]
        /\ \A r \in Peers : /\ Len(inbox[r]) <= Len(inbox'[r])
                            /\ \A g \in Range(inbox'[r]) : g.from # r
        /\ got' = got
        /\ faults' \in [FaultKinds -> Nat]
        /\ \A k \in FaultKinds : faults'[k] <= MaxFaults[k]
    BY <2>1, <2>5, <2>6, SendShape
  <2>8. \A r \in Peers : got'[r] <= Len(inbox'[r])
                         /\ (got[r] < Len(inbox[r]) => got'[r] < Len(inbox'[r]))
    <3>1. \A r \in Peers : Len(inbox'[r]) \in Nat
      BY <2>7
    <3>2. QED
      BY <1>c, <2>7, <3>1
  <2>9. /\ conn' \in [Peers -> [Peers -> SUBSET Session]]
        /\ \A a, b \in Peers : AtMostOne(conn'[a][b])
    BY <2>1, <2>3, NewConn
  <2>10. TypeOK'
    <3>1. out' \subseteq [key: Key, to: Peers, n: Nat]
      BY <2>1, <2>5 DEF TypeOK
    <3>2. QED
      BY <2>6, <2>7, <2>8, <2>9, <3>1 DEF TypeOK
  <2>11. IsFiniteSet(out')
    BY <2>1, FS_AddElement DEF Shape
  <2>12. Shape'
    BY <2>6, <2>7, <2>8, <2>11 DEF Shape
  <2>13. QED
    BY <2>10, <2>12
<1>8. ASSUME NEW p \in Peers, Acknowledged(p) PROVE TypeInv'
  <2>1. /\ got[p] > 0
        /\ inbox' = [inbox EXCEPT ![p] = Tail(@)]
        /\ got' = [got EXCEPT ![p] = @ - 1]
        /\ UNCHANGED <<calls, callers, offers, task, dead, pending, conn, ephs, out, shown, faults>>
    BY <1>8 DEF Acknowledged, threads, sessions, history
  <2>2. inbox[p] \in Seq(Hello \cup Msg) /\ inbox[p] # <<>>
    BY <2>1 DEF TypeOK
  <2>3. /\ Tail(inbox[p]) \in Seq(Hello \cup Msg)
        /\ Range(Tail(inbox[p])) \subseteq Range(inbox[p])
    BY <2>2, RowTaken
  <2>4. Len(Tail(inbox[p])) = Len(inbox[p]) - 1
    BY <2>2
  <2>5. inbox' \in [Peers -> Seq(Hello \cup Msg)] /\ got' \in [Peers -> Nat]
    BY <1>c, <2>1, <2>3
  <2>6. \A a \in Peers : /\ got'[a] <= Len(inbox'[a])
                         /\ got[a] < Len(inbox[a]) => got'[a] < Len(inbox'[a])
                         /\ Range(inbox'[a]) \subseteq Range(inbox[a])
    BY <1>c, <2>1, <2>3, <2>4
  <2>7. TypeOK'
    BY <2>1, <2>5, <2>6 DEF TypeOK
  <2>8. Shape'
    BY <2>1, <2>6 DEF Shape
  <2>9. QED
    BY <2>7, <2>8
<1>9. ASSUME NEW p \in Peers, Reconnect(p) PROVE TypeInv'
  <2>1. /\ task[p] = {}
        /\ got' = [got EXCEPT ![p] = 0]
        /\ Fault("reconnect")
        /\ UNCHANGED <<calls, callers, offers, task, dead, pending, conn, ephs, inbox, out, shown>>
    BY <1>9 DEF Reconnect, threads, sessions, history
  <2>2. faults' \in [FaultKinds -> Nat] /\ \A k \in FaultKinds : faults'[k] <= MaxFaults[k]
    BY <2>1, FaultType DEF FaultKinds
  <2>3. got' \in [Peers -> Nat] /\ \A a \in Peers : got'[a] <= Len(inbox[a])
    BY <1>c, <2>1
  <2>4. TypeOK'
    BY <2>1, <2>2, <2>3 DEF TypeOK
  <2>5. Shape'
    BY <1>c, <2>1 DEF Shape
  <2>6. QED
    BY <2>4, <2>5
<1>10. ASSUME NEW p \in Peers, RestartApp(p) PROVE TypeInv'
  <2>1. /\ callers' = [callers EXCEPT ![p] = [q \in Peers |-> 0]]
        /\ pending' = [pending EXCEPT ![p] = [q \in Peers |-> NoEph]]
        /\ conn' = [conn EXCEPT ![p] = [q \in Peers |-> {}]]
        /\ offers' = [offers EXCEPT ![p] = [q \in Peers |-> {}]]
        /\ task' = [task EXCEPT ![p] = {}]
        /\ dead' = [dead EXCEPT ![p] = FALSE]
        /\ got' = [got EXCEPT ![p] = 0]
        /\ UNCHANGED <<calls, inbox, ephs, out, shown>>
    BY <1>10 DEF RestartApp, history
  <2>2. faults' \in [FaultKinds -> Nat] /\ \A k \in FaultKinds : faults'[k] <= MaxFaults[k]
    BY <1>10, FaultType DEF RestartApp, FaultKinds
  <2>3. /\ callers' \in [Peers -> [Peers -> Nat]]
        /\ pending' \in [Peers -> [Peers -> Ephs \cup {NoEph}]]
        /\ conn' \in [Peers -> [Peers -> SUBSET Session]]
        /\ offers' \in [Peers -> [Peers -> SUBSET Ephs]]
        /\ \A a \in Peers : callers'[a][a] \in {callers[a][a], 0} /\ offers'[a][a] \in {offers[a][a], {}}
        /\ \A a, b \in Peers : conn'[a][b] \in {conn[a][b], {}}
    BY <1>a, <2>1
  <2>4. /\ task' \in [Peers -> SUBSET (Reply \cup Install)]
        /\ \A a \in Peers : AtMostOne(task'[a])
        /\ \A a, b \in Peers : AtMostOne(conn'[a][b])
    <3>1. AtMostOne({})
      BY DEF AtMostOne
    <3>2. \A a \in Peers : task'[a] \in {task[a], {}}
      BY <1>b, <2>1
    <3>3. task' \in [Peers -> SUBSET (Reply \cup Install)]
      BY <1>b, <2>1
    <3>4. ASSUME NEW a \in Peers PROVE AtMostOne(task'[a])
      BY <1>b, <3>1, <3>2
    <3>5. ASSUME NEW a \in Peers, NEW b \in Peers PROVE AtMostOne(conn'[a][b])
      BY <1>b, <2>3, <3>1
    <3>6. QED
      BY <3>3, <3>4, <3>5
  <2>5. dead' \in [Peers -> BOOLEAN]
    BY <1>b, <2>1
  <2>6. got' \in [Peers -> Nat] /\ \A a \in Peers : got'[a] <= Len(inbox[a])
    BY <1>c, <2>1
  <2>7. TypeOK'
    BY <2>1, <2>2, <2>3, <2>4, <2>5, <2>6 DEF TypeOK
  <2>8. Shape'
    BY <1>b, <1>c, <2>1, <2>3 DEF Shape
  <2>9. QED
    BY <2>7, <2>8
<1>11. CASE UNCHANGED vars
  BY <1>11 DEF vars, threads, sessions, relay, history, TypeOK, Shape
<1>12. \A p, q \in Peers : Offer(p, q) \/ SendHello(p, q) => p # q
  <2>1. \A p, q \in Peers : callers[p][q] > 0 \/ offers[p][q] # {} => p # q
    BY DEF Shape
  <2>2. QED
    BY <2>1 DEF Offer, SendHello
<1>13. QED
  BY <1>1, <1>2, <1>2a, <1>3, <1>4, <1>5, <1>5a, <1>6, <1>7, <1>8, <1>9, <1>10, <1>11,
     <1>12
  DEF Next, RelayThread

THEOREM SessionTypes == Spec => []TypeInv
<1>1. Init => TypeInv
  BY InitTypeInv
<1>2. TypeInv /\ [Next]_vars => TypeInv'
  BY StepTypeInv
<1>3. QED
  BY <1>1, <1>2, PTL DEF Spec

\* Every variable keeps its type, whatever is lost, redelivered or restarted.
THEOREM SessionTypeCorrect == Spec => []TypeOK
<1>1. TypeInv => TypeOK
  BY DEF TypeInv
<1>2. QED
  BY <1>1, SessionTypes, PTL

----------------------------------------------------------------------------
\* No message key is used twice.

\* The ephemeral key that p put into a root key.
Own(p, root) == IF root.init = p THEN root.ie ELSE root.re

Between(root, p, q) ==
  /\ p # q
  /\ \/ root.init = p /\ root.resp = q
     \/ root.init = q /\ root.resp = p

\* Sessions and messages are under root keys of their two accounts, made with
\* ephemeral keys that have been generated.
Known ==
  /\ \A p, q \in Peers : pending[p][q] <= ephs
  /\ \A p, q \in Peers : \A s \in conn[p][q] :
       Between(s.root, p, q) /\ Own(p, s.root) <= ephs
  /\ \A e \in out :
       Between(e.key.root, e.key.by, e.to) /\ Own(e.key.by, e.key.root) <= ephs

\* The key of a pending hello has not gone into a session yet, and that of a
\* session about to be registered into no other.
Offered ==
  \A p, q \in Peers : pending[p][q] # NoEph =>
    /\ \A s \in conn[p][q] : Own(p, s.root) # pending[p][q]
    /\ \A e \in SentTo(p, q) : Own(p, e.key.root) # pending[p][q]

Installs ==
  \A p \in Peers : \A i \in task[p] : i.do = "install" =>
    /\ Between(i.session.root, p, i.to) /\ Own(p, i.session.root) <= ephs
    /\ Own(p, i.session.root) # NoEph
    /\ Own(p, i.session.root) # pending[p][i.to]
    /\ \A s \in conn[p][i.to] : Own(p, s.root) # Own(p, i.session.root)
    /\ \A e \in SentTo(p, i.to) : Own(p, e.key.root) # Own(p, i.session.root)

\* A session is past every message sent under its root key.
Ahead ==
  \A p, q \in Peers : \A s \in conn[p][q], e \in SentTo(p, q) :
    e.key.root = s.root => e.key.index < s.send

KeyInv == Known /\ Offered /\ Installs /\ Ahead /\ KeyUsedOnce

LEMMA InitKeyInv == Init => KeyInv
BY DEF Init, KeyInv, Known, Offered, Installs, Ahead, KeyUsedOnce, SentTo, NoEph

\* What the types say of the numbers the invariant compares.
LEMMA KeyTypes ==
  ASSUME TypeOK
  PROVE  /\ ephs \in Nat
         /\ \A p, q \in Peers : pending[p][q] \in Nat
         /\ \A p, q \in Peers : \A s \in conn[p][q] :
              s \in Session /\ s.send \in Nat /\ Own(p, s.root) \in Ephs
         /\ \A p \in Peers : \A i \in task[p] : i.do = "install" =>
              i.to \in Peers /\ i.session \in Session /\ Own(p, i.session.root) \in Ephs
         /\ \A e \in out : /\ e.to \in Peers /\ e.key.by \in Peers /\ e.key.index \in Nat
                           /\ Own(e.key.by, e.key.root) \in Ephs
<1>1. ephs \in Nat
  BY SessionAssumption DEF TypeOK
<1>2. \A p, q \in Peers : pending[p][q] \in Nat
  <2>1. \A p, q \in Peers : pending[p][q] \in Ephs \cup {NoEph}
    BY DEF TypeOK
  <2>2. QED
    BY <2>1 DEF Ephs, NoEph
<1>3. ASSUME NEW p \in Peers, NEW root \in Root PROVE Own(p, root) \in Ephs
  BY <1>3 DEF Own, Root
<1>4. ASSUME NEW p \in Peers, NEW q \in Peers, NEW s \in conn[p][q]
      PROVE  s \in Session /\ s.send \in Nat /\ Own(p, s.root) \in Ephs
  <2>1. s \in Session
    BY DEF TypeOK
  <2>2. s.send \in Nat /\ s.root \in Root
    BY <2>1 DEF Session
  <2>3. QED
    BY <1>3, <2>1, <2>2
<1>5. ASSUME NEW e \in out
      PROVE  /\ e.to \in Peers /\ e.key.by \in Peers /\ e.key.index \in Nat
             /\ Own(e.key.by, e.key.root) \in Ephs
  <2>1. e \in [key: Key, to: Peers, n: Nat]
    BY DEF TypeOK
  <2>2. e.to \in Peers /\ e.key \in Key
    BY <2>1
  <2>3. e.key.by \in Peers /\ e.key.index \in Nat /\ e.key.root \in Root
    BY <2>2 DEF Key
  <2>4. QED
    BY <1>3, <2>2, <2>3
<1>6. ASSUME NEW p \in Peers, NEW i \in task[p], i.do = "install"
      PROVE  i.to \in Peers /\ i.session \in Session /\ Own(p, i.session.root) \in Ephs
  <2>1. i \in Install
    BY <1>6 DEF TypeOK, Reply
  <2>2. i.to \in Peers /\ i.session \in Session
    BY <2>1 DEF Install
  <2>3. i.session.root \in Root
    BY <2>2 DEF Session
  <2>4. QED
    BY <1>3, <2>2, <2>3
<1>7. QED
  BY <1>1, <1>2, <1>4, <1>5, <1>6

\* A step may forget pending hellos and sessions, or move a receiving chain.
LEMMA Forgets ==
  ASSUME KeyInv, ephs' = ephs, out' = out,
         \A p, q \in Peers : pending'[p][q] \in {pending[p][q], NoEph},
         \A p, q \in Peers : \A t \in conn'[p][q] :
           \E s \in conn[p][q] : t.root = s.root /\ t.send = s.send,
         \A p \in Peers : \A i \in task'[p] : i.do = "install" => i \in task[p],
         TypeOK
  PROVE  KeyInv'
<1>1. Known'
  BY KeyTypes DEF KeyInv, Known, NoEph
<1>2. Offered'
  BY DEF KeyInv, Offered, SentTo
<1>3. Ahead'
  BY DEF KeyInv, Ahead, SentTo
<1>4. KeyUsedOnce'
  BY DEF KeyInv, KeyUsedOnce
<1>5. Installs'
  <2> SUFFICES ASSUME NEW p \in Peers, NEW i \in task[p], i.do = "install"
               PROVE  Installs!(p)!(i)!2'
    BY DEF Installs
  <2>1. i.to \in Peers
    BY KeyTypes
  <2>2. Installs!(p)!(i)!2
    BY DEF KeyInv, Installs
  <2>3. QED
    BY <2>1, <2>2 DEF SentTo
<1>6. QED
  BY <1>1, <1>2, <1>3, <1>4, <1>5 DEF KeyInv

\* A new session takes the place of the old one: its owner's ephemeral key is
\* in nothing that owner has sent the other, nor in a hello that stays pending.
LEMMA Replaces ==
  ASSUME TypeOK, KeyInv, NEW p \in Peers, NEW q \in Peers, NEW s \in Session,
         conn' = [conn EXCEPT ![p][q] = {s}], out' = out,
         ephs' \in Nat, ephs <= ephs',
         Between(s.root, p, q), Own(p, s.root) <= ephs',
         \A a, b \in Peers : pending'[a][b] \in {pending[a][b], NoEph},
         pending'[p][q] # NoEph => pending'[p][q] # Own(p, s.root),
         \A e \in SentTo(p, q) : Own(p, e.key.root) # Own(p, s.root),
         \A i \in task'[p] : i.do # "install",
         \A a \in Peers : a # p => task'[a] = task[a]
  PROVE  KeyInv'
<1>0. conn \in [Peers -> [Peers -> SUBSET Session]]
  BY DEF TypeOK
<1>1. \A a, b \in Peers : conn'[a][b] = IF a = p /\ b = q THEN {s} ELSE conn[a][b]
  BY <1>0
<1>2. Known'
  <2>1. \A a, b \in Peers : pending'[a][b] <= ephs'
    BY KeyTypes DEF KeyInv, Known, NoEph
  <2>2. ASSUME NEW a \in Peers, NEW b \in Peers, NEW t \in conn'[a][b]
        PROVE  Between(t.root, a, b) /\ Own(a, t.root) <= ephs'
    <3>1. CASE a = p /\ b = q
      BY <1>1, <3>1
    <3>2. CASE ~(a = p /\ b = q)
      <4>1. t \in conn[a][b]
        BY <1>1, <3>2
      <4>2. Own(a, t.root) \in Nat /\ Own(a, t.root) <= ephs /\ Between(t.root, a, b)
        BY <4>1, KeyTypes DEF KeyInv, Known, Ephs
      <4>3. QED
        BY <4>2, KeyTypes
    <3>3. QED
      BY <3>1, <3>2
  <2>3. ASSUME NEW e \in out
        PROVE  Between(e.key.root, e.key.by, e.to) /\ Own(e.key.by, e.key.root) <= ephs'
    <3>1. /\ Between(e.key.root, e.key.by, e.to)
          /\ Own(e.key.by, e.key.root) \in Nat /\ Own(e.key.by, e.key.root) <= ephs
      BY KeyTypes DEF KeyInv, Known, Ephs
    <3>2. QED
      BY <3>1, KeyTypes
  <2>4. QED
    BY <2>1, <2>2, <2>3 DEF Known
<1>3. Offered'
  BY <1>1 DEF KeyInv, Offered, SentTo
<1>4. Ahead'
  BY <1>1 DEF KeyInv, Ahead, SentTo
<1>5. KeyUsedOnce'
  BY DEF KeyInv, KeyUsedOnce
<1>6. Installs'
  <2> SUFFICES ASSUME NEW a \in Peers, NEW i \in task[a], i.do = "install", a # p
               PROVE  Installs!(a)!(i)!2'
    BY DEF Installs
  <2>1. i.to \in Peers /\ Own(a, i.session.root) \in Nat
    BY KeyTypes DEF Ephs
  <2>2. Installs!(a)!(i)!2
    BY DEF KeyInv, Installs
  <2>3. Own(a, i.session.root) <= ephs'
    BY <2>1, <2>2, KeyTypes
  <2>4. conn'[a][i.to] = conn[a][i.to]
    BY <1>1, <2>1
  <2>5. QED
    BY <2>1, <2>2, <2>3, <2>4 DEF SentTo
<1>7. QED
  BY <1>2, <1>3, <1>4, <1>5, <1>6 DEF KeyInv

LEMMA OfferKeyInv ==
  ASSUME TypeInv, KeyInv, NEW p \in Peers, NEW q \in Peers, Offer(p, q)
  PROVE  KeyInv'
<1>1. /\ ephs' = ephs + 1 /\ conn' = conn /\ out' = out /\ task' = task
      /\ \A a, b \in Peers : pending'[a][b] \in {pending[a][b], ephs'}
  BY DEF Offer, history, TypeInv, TypeOK
<1>2. /\ ephs \in Nat
      /\ \A a, b \in Peers : pending[a][b] \in Nat
      /\ \A a, b \in Peers : \A s \in conn[a][b] : Own(a, s.root) \in Nat
      /\ \A e \in out : Own(e.key.by, e.key.root) \in Nat
  BY KeyTypes DEF TypeInv, Ephs
<1>3. Known'
  BY <1>1, <1>2 DEF KeyInv, Known, NoEph
<1>4. Offered'
  <2> SUFFICES ASSUME NEW a \in Peers, NEW b \in Peers, pending'[a][b] # NoEph
               PROVE  /\ \A s \in conn[a][b] : Own(a, s.root) # pending'[a][b]
                      /\ \A e \in SentTo(a, b) : Own(a, e.key.root) # pending'[a][b]
    BY <1>1 DEF Offered, SentTo
  <2>1. CASE pending'[a][b] = pending[a][b]
    BY <2>1 DEF KeyInv, Offered
  <2>2. CASE pending'[a][b] = ephs'
    <3>1. \A s \in conn[a][b] : Own(a, s.root) <= ephs
      BY DEF KeyInv, Known
    <3>2. \A e \in SentTo(a, b) : Own(a, e.key.root) <= ephs /\ Own(a, e.key.root) \in Nat
      BY <1>2 DEF KeyInv, Known, SentTo
    <3>3. QED
      BY <1>1, <1>2, <2>2, <3>1, <3>2
  <2>3. QED
    BY <1>1, <2>1, <2>2
<1>5. Ahead' /\ KeyUsedOnce'
  BY <1>1 DEF KeyInv, Ahead, KeyUsedOnce, SentTo
<1>6. Installs'
  <2> SUFFICES ASSUME NEW a \in Peers, NEW i \in task[a], i.do = "install"
               PROVE  Installs!(a)!(i)!2'
    BY <1>1 DEF Installs
  <2>1. i.to \in Peers /\ Own(a, i.session.root) \in Nat
    BY KeyTypes DEF TypeInv, Ephs
  <2>2. Installs!(a)!(i)!2
    BY DEF KeyInv, Installs
  <2>3. Own(a, i.session.root) <= ephs' /\ Own(a, i.session.root) # pending'[a][i.to]
    BY <1>1, <1>2, <2>1, <2>2
  <2>4. QED
    BY <1>1, <2>2, <2>3 DEF SentTo
<1>7. QED
  BY <1>3, <1>4, <1>5, <1>6 DEF KeyInv

LEMMA SendHelloKeyInv ==
  ASSUME TypeInv, KeyInv, NEW p \in Peers, NEW q \in Peers, SendHello(p, q)
  PROVE  KeyInv'
<1>1. /\ ephs' = ephs /\ conn' = conn /\ out' = out /\ task' = task
      /\ \A a, b \in Peers : pending'[a][b] \in {pending[a][b], NoEph}
  BY DEF SendHello, history, TypeInv, TypeOK
<1>2. QED
  BY <1>1, Forgets DEF TypeInv

LEMMA OnHelloKeyInv ==
  ASSUME TypeInv, KeyInv, NEW p \in Peers, OnHello(p)
  PROVE  KeyInv'
<1> DEFINE q == NextRow(p).from
           s == NewSession(p, q, FALSE, ephs', NextRow(p).eph)
<1>1. q \in Peers /\ q # p /\ NextRow(p).eph \in Ephs
  BY RowType DEF OnHello, Hello, Msg
<1>2. /\ ephs' = ephs + 1 /\ ephs' \in Ephs
      /\ conn' = [conn EXCEPT ![p][q] = {s}]
      /\ pending' = pending /\ out' = out
  BY DEF OnHello, history, TypeInv, TypeOK, Ephs, NoEph
<1>2a. /\ \A i \in task'[p] : i.do # "install"
       /\ \A a \in Peers : a # p => task'[a] = task[a]
  <2>1. task \in [Peers -> SUBSET (Reply \cup Install)]
    BY DEF TypeInv, TypeOK
  <2>2. task' = [task EXCEPT ![p] = {[do |-> "reply", to |-> q, eph |-> ephs']}]
    BY DEF OnHello
  <2> HIDE DEF q
  <2>3. QED
    BY <2>1, <2>2
<1>3. s \in Session
  BY <1>1, <1>2, RootType
<1>4. Between(s.root, p, q) /\ Own(p, s.root) = ephs'
  BY <1>1 DEF NewSession, RootKey, Between, Own
<1> HIDE DEF q, s
<1>5. /\ ephs \in Nat
      /\ \A e \in SentTo(p, q) : Own(p, e.key.root) \in Nat /\ Own(p, e.key.root) <= ephs
  BY KeyTypes DEF TypeInv, KeyInv, Known, SentTo, Ephs
<1>6. pending[p][q] \in Nat /\ pending[p][q] <= ephs
  BY <1>1, KeyTypes DEF TypeInv, KeyInv, Known
<1>7. /\ \A e \in SentTo(p, q) : Own(p, e.key.root) # Own(p, s.root)
      /\ pending'[p][q] # Own(p, s.root)
      /\ ephs' \in Nat /\ ephs <= ephs' /\ Own(p, s.root) <= ephs'
  BY <1>2, <1>4, <1>5, <1>6
<1>8. QED
  BY <1>1, <1>2, <1>2a, <1>3, <1>4, <1>7, Replaces DEF TypeInv

LEMMA OnHelloAckKeyInv ==
  ASSUME TypeInv, KeyInv, NEW p \in Peers, OnHelloAck(p)
  PROVE  KeyInv'
<1> DEFINE q == NextRow(p).from
           s == NewSession(p, q, TRUE, pending[p][q], NextRow(p).eph)
           i == [do |-> "install", to |-> q, session |-> s]
<1>1. q \in Peers /\ q # p /\ NextRow(p).eph \in Ephs
  BY RowType DEF OnHelloAck, Hello, Msg
<1>2. conn' = conn /\ ephs' = ephs /\ out' = out
  BY DEF OnHelloAck, history
<1>3. \/ pending' = pending /\ task' = task
      \/ /\ pending[p][q] # NoEph
         /\ pending' = [pending EXCEPT ![p][q] = NoEph]
         /\ task' = [task EXCEPT ![p] = {i}]
  BY DEF OnHelloAck
<1>4. CASE pending' = pending /\ task' = task
  <2> HIDE DEF q, s, i
  <2>1. QED
    BY <1>2, <1>4, Forgets DEF TypeInv
<1>5. CASE /\ pending[p][q] # NoEph
           /\ pending' = [pending EXCEPT ![p][q] = NoEph]
           /\ task' = [task EXCEPT ![p] = {i}]
  <2>1. pending[p][q] \in Ephs
    BY <1>1, <1>5 DEF TypeInv, TypeOK
  <2>2. Between(s.root, p, q) /\ Own(p, s.root) = pending[p][q]
    BY <1>1 DEF NewSession, RootKey, Between, Own
  <2>3. i.to = q /\ i.session = s
    OBVIOUS
  <2> HIDE DEF q, s, i
  <2>4. /\ pending'[p][q] = NoEph
        /\ \A a, b \in Peers : pending'[a][b] \in {pending[a][b], NoEph}
    BY <1>1, <1>5 DEF TypeInv, TypeOK
  <2>5. /\ task'[p] = {i}
        /\ \A a \in Peers : a # p => task'[a] = task[a]
    BY <1>5 DEF TypeInv, TypeOK
  <2>6. Known'
    BY <1>2, <2>4, KeyTypes DEF TypeInv, KeyInv, Known, NoEph
  <2>7. Offered'
    BY <1>2, <2>4 DEF KeyInv, Offered, SentTo
  <2>8. Ahead' /\ KeyUsedOnce'
    BY <1>2 DEF KeyInv, Ahead, KeyUsedOnce, SentTo
  <2>9. ASSUME NEW a \in Peers, NEW j \in task'[a], j.do = "install"
        PROVE  Installs!(a)!(j)!2'
    <3>1. CASE a = p
      <4>1. j = i
        BY <2>5, <3>1
      <4>2. Own(p, s.root) <= ephs
        BY <1>1, <2>2 DEF KeyInv, Known
      <4>3. /\ \A t \in conn[p][q] : Own(p, t.root) # Own(p, s.root)
            /\ \A e \in SentTo(p, q) : Own(p, e.key.root) # Own(p, s.root)
        BY <1>1, <1>5, <2>2 DEF KeyInv, Offered
      <4>4. Own(p, s.root) # NoEph
        BY <1>5, <2>2
      <4>5. QED
        BY <1>2, <2>2, <2>3, <2>4, <3>1, <4>1, <4>2, <4>3, <4>4 DEF SentTo
    <3>2. CASE a # p
      <4>1. j \in task[a] /\ j.to \in Peers
        BY <2>5, <2>9, <3>2, KeyTypes DEF TypeInv
      <4>2. Installs!(a)!(j)!2
        BY <2>9, <4>1 DEF KeyInv, Installs
      <4>3. QED
        BY <1>2, <2>4, <4>1, <4>2 DEF SentTo
    <3>3. QED
      BY <3>1, <3>2
  <2>10. Installs'
    BY <2>9 DEF Installs
  <2>11. QED
    BY <2>6, <2>7, <2>8, <2>10 DEF KeyInv
<1>6. QED
  BY <1>3, <1>4, <1>5

LEMMA RegisterSessionKeyInv ==
  ASSUME TypeInv, KeyInv, NEW p \in Peers, RegisterSession(p)
  PROVE  KeyInv'
<1>1. PICK i \in task[p] :
        i.do = "install" /\ conn' = [conn EXCEPT ![p][i.to] = {i.session}]
  BY DEF RegisterSession
<1> DEFINE q == i.to
           s == i.session
<1>2. /\ pending' = pending /\ ephs' = ephs /\ out' = out
      /\ task' = [task EXCEPT ![p] = {}]
  BY DEF RegisterSession, history
<1>3. /\ \A j \in task'[p] : j.do # "install"
      /\ \A a \in Peers : a # p => task'[a] = task[a]
  BY <1>2 DEF TypeInv, TypeOK
<1>4. q \in Peers /\ s \in Session
  BY <1>1, KeyTypes DEF TypeInv
<1>5. /\ Between(s.root, p, q) /\ Own(p, s.root) <= ephs
      /\ Own(p, s.root) # pending[p][q]
      /\ \A e \in SentTo(p, q) : Own(p, e.key.root) # Own(p, s.root)
  BY <1>1 DEF KeyInv, Installs
<1>6. ephs \in Nat /\ ephs <= ephs
  BY KeyTypes DEF TypeInv
<1>7. conn' = [conn EXCEPT ![p][q] = {s}]
  BY <1>1
<1> HIDE DEF q, s
<1>8. QED
  BY <1>2, <1>3, <1>4, <1>5, <1>6, <1>7, Replaces DEF TypeInv

LEMMA OnMsgKeyInv ==
  ASSUME TypeInv, KeyInv, NEW p \in Peers, OnMsg(p)
  PROVE  KeyInv'
<1> DEFINE q == NextRow(p).from
<1>1. q \in Peers
  BY RowType DEF OnMsg
<1>2. pending' = pending /\ ephs' = ephs /\ out' = out /\ task' = task
  BY DEF OnMsg
<1>3. \/ conn' = conn
      \/ \E s \in conn[p][q] : conn' = [conn EXCEPT ![p][q] = {Advanced(s)}]
  BY DEF OnMsg
<1> HIDE DEF q
<1>4. CASE conn' = conn
  BY <1>2, <1>4, Forgets DEF TypeInv
<1>5. ASSUME NEW s \in conn[p][q], conn' = [conn EXCEPT ![p][q] = {Advanced(s)}]
      PROVE  KeyInv'
  <2>1. s \in Session
    BY <1>1, KeyTypes DEF TypeInv
  <2>2. /\ Advanced(s) \in Session
        /\ Advanced(s).root = s.root /\ Advanced(s).send = s.send
    BY <2>1 DEF Advanced, Session
  <2>3. \A a, b \in Peers :
          conn'[a][b] = IF a = p /\ b = q THEN {Advanced(s)} ELSE conn[a][b]
    BY <1>1, <1>5, <2>2, NewConn DEF TypeInv
  <2>4. \A a, b \in Peers : \A t \in conn'[a][b] :
          \E u \in conn[a][b] : t.root = u.root /\ t.send = u.send
    BY <2>2, <2>3
  <2>5. QED
    BY <1>2, <2>4, Forgets DEF TypeInv
<1>6. QED
  BY <1>3, <1>4, <1>5

LEMMA SendTextKeyInv ==
  ASSUME TypeInv, KeyInv, NEW p \in Peers, NEW q \in Peers, SendText(p, q)
  PROVE  KeyInv'
<1> DEFINE n == Cardinality(SentTo(p, q)) + 1
           e(s) == [key |-> MessageKey(s.root, p, s.send), to |-> q, n |-> n]
<1>1. PICK s \in conn[p][q] :
        /\ out' = out \cup {e(s)}
        /\ conn' = [conn EXCEPT ![p][q] = {[s EXCEPT !.send = @ + 1]}]
  BY DEF SendText, NextIndex
<1>2. pending' = pending /\ ephs' = ephs /\ task' = task
  BY DEF SendText, threads
<1> DEFINE new == e(s)
           t == [s EXCEPT !.send = @ + 1]
<1>3. /\ s \in Session /\ s.send \in Nat
      /\ Between(s.root, p, q) /\ Own(p, s.root) <= ephs
  BY KeyTypes DEF TypeInv, KeyInv, Known
<1>4. t \in Session /\ t.root = s.root /\ t.send = s.send + 1
  BY <1>3 DEF Session
<1>5. /\ new.key.root = s.root /\ new.key.by = p /\ new.key.index = s.send
      /\ new.to = q
  BY DEF MessageKey
<1>6. out' = out \cup {new} /\ conn' = [conn EXCEPT ![p][q] = {t}]
  BY <1>1
<1> HIDE DEF e, n, new, t
<1>7. \A a, b \in Peers : conn'[a][b] = IF a = p /\ b = q THEN {t} ELSE conn[a][b]
  BY <1>4, <1>6, NewConn DEF TypeInv
<1>8. \A a, b \in Peers :
        SentTo(a, b)' = IF a = p /\ b = q THEN SentTo(p, q) \cup {new} ELSE SentTo(a, b)
  BY <1>5, <1>6 DEF SentTo
<1>9. Known'
  BY <1>2, <1>3, <1>4, <1>5, <1>6, <1>7 DEF KeyInv, Known
<1>10. Offered'
  <2>1. \A a, b \in Peers : \A u \in conn'[a][b] : \E v \in conn[a][b] : u.root = v.root
    BY <1>4, <1>7
  <2>2. \A a, b \in Peers : \A f \in SentTo(a, b)' :
          f \in SentTo(a, b) \/ \E v \in conn[a][b] : f.key.root = v.root
    BY <1>5, <1>8
  <2>3. QED
    BY <1>2, <2>1, <2>2 DEF KeyInv, Offered
<1>11. Ahead'
  <2> SUFFICES ASSUME NEW a \in Peers, NEW b \in Peers, NEW u \in conn'[a][b],
                      NEW f \in SentTo(a, b)', f.key.root = u.root
               PROVE  f.key.index < u.send
    BY DEF Ahead
  <2>1. CASE a = p /\ b = q
    <3>1. u = t
      BY <1>7, <2>1
    <3>2. CASE f = new
      BY <1>3, <1>4, <1>5, <3>1, <3>2
    <3>3. CASE f \in SentTo(p, q)
      <4>1. f.key.index < s.send
        BY <1>4, <3>1, <3>3 DEF KeyInv, Ahead
      <4>2. f.key.index \in Nat
        BY <3>3, KeyTypes DEF TypeInv, SentTo
      <4>3. QED
        BY <1>3, <1>4, <3>1, <4>1, <4>2
    <3>4. QED
      BY <1>8, <2>1, <3>2, <3>3
  <2>2. CASE ~(a = p /\ b = q)
    BY <1>7, <1>8, <2>2 DEF KeyInv, Ahead
  <2>3. QED
    BY <2>1, <2>2
<1>12. KeyUsedOnce'
  <2>1. ASSUME NEW f \in out, f.key = new.key PROVE FALSE
    <3>1. Between(s.root, p, f.to)
      BY <1>5, <2>1 DEF KeyInv, Known
    <3>2. f.to = q
      BY <1>3, <3>1 DEF Between
    <3>3. f \in SentTo(p, q)
      BY <1>5, <2>1, <3>2 DEF SentTo
    <3>4. s.send < s.send
      BY <1>5, <2>1, <3>3 DEF KeyInv, Ahead
    <3>5. QED
      BY <1>3, <3>4
  <2>2. QED
    BY <1>6, <2>1 DEF KeyInv, KeyUsedOnce
<1>13. Installs'
  <2> SUFFICES ASSUME NEW a \in Peers, NEW i \in task[a], i.do = "install"
               PROVE  Installs!(a)!(i)!2'
    BY <1>2 DEF Installs
  <2>1. i.to \in Peers
    BY KeyTypes DEF TypeInv
  <2>2. Installs!(a)!(i)!2
    BY DEF KeyInv, Installs
  <2>3. \A u \in conn'[a][i.to] : \E v \in conn[a][i.to] : u.root = v.root
    BY <1>4, <1>7, <2>1
  <2>4. \A f \in SentTo(a, i.to)' :
          f \in SentTo(a, i.to) \/ \E v \in conn[a][i.to] : f.key.root = v.root
    BY <1>5, <1>8, <2>1
  <2>5. /\ \A u \in conn'[a][i.to] : Own(a, u.root) # Own(a, i.session.root)
        /\ \A f \in SentTo(a, i.to)' : Own(a, f.key.root) # Own(a, i.session.root)
    BY <2>2, <2>3, <2>4
  <2>6. QED
    BY <1>2, <2>2, <2>5
<1>14. QED
  BY <1>9, <1>10, <1>11, <1>12, <1>13 DEF KeyInv

LEMMA StepKeyInv == TypeInv /\ KeyInv /\ [Next]_vars => KeyInv'
<1> SUFFICES ASSUME TypeInv, KeyInv, [Next]_vars PROVE KeyInv'
  OBVIOUS
<1>1. ASSUME UNCHANGED <<pending, conn, ephs, out>>,
             \A p \in Peers : task'[p] \in {task[p], {}}
      PROVE  KeyInv'
  BY <1>1, Forgets DEF TypeInv
<1>2. ASSUME NEW p \in Peers, RestartApp(p) PROVE KeyInv'
  <2>1. /\ pending' = [pending EXCEPT ![p] = [q \in Peers |-> NoEph]]
        /\ conn' = [conn EXCEPT ![p] = [q \in Peers |-> {}]]
        /\ task' = [task EXCEPT ![p] = {}]
        /\ ephs' = ephs /\ out' = out
    BY <1>2 DEF RestartApp, history
  <2>2. /\ \A a, b \in Peers : pending'[a][b] \in {pending[a][b], NoEph}
        /\ \A a, b \in Peers : conn'[a][b] \in {conn[a][b], {}}
        /\ \A a \in Peers : task'[a] \in {task[a], {}}
    BY <2>1 DEF TypeInv, TypeOK
  <2>3. QED
    BY <2>1, <2>2, Forgets DEF TypeInv
<1>3. ASSUME NEW p \in Peers, NEW q \in Peers, CheckConnect(p, q)
      PROVE  UNCHANGED <<pending, conn, ephs, out, task>>
  BY <1>3 DEF CheckConnect, sessions, history
<1>4. ASSUME NEW p \in Peers, Acknowledged(p) \/ Reconnect(p)
      PROVE  UNCHANGED <<pending, conn, ephs, out, task>>
  BY <1>4 DEF Acknowledged, Reconnect, threads, sessions, history
<1>5. ASSUME NEW p \in Peers, SendHelloAck(p)
      PROVE  /\ UNCHANGED <<pending, conn, ephs, out>>
             /\ \A a \in Peers : task'[a] \in {task[a], {}}
  <2>1. task' = [task EXCEPT ![p] = {}] /\ UNCHANGED <<pending, conn, ephs, out>>
    BY <1>5 DEF SendHelloAck, sessions, history
  <2>2. QED
    BY <2>1 DEF TypeInv, TypeOK
<1>6. CASE UNCHANGED vars
  BY <1>1, <1>6 DEF vars, threads, sessions, history
<1>7. QED
  BY <1>1, <1>2, <1>3, <1>4, <1>5, <1>6, OfferKeyInv, SendHelloKeyInv, OnHelloKeyInv,
     OnHelloAckKeyInv, RegisterSessionKeyInv, OnMsgKeyInv, SendTextKeyInv
  DEF Next, RelayThread

\* A message key encrypts one message: neither a replayed hello, a replaced
\* session, a failed send nor a restart brings one back (crypto.py:178-185).
THEOREM KeysUsedOnce == Spec => []KeyUsedOnce
<1>1. Init => KeyInv
  BY InitKeyInv
<1>2. TypeInv /\ KeyInv /\ [Next]_vars => KeyInv'
  BY StepKeyInv
<1>3. KeyInv => KeyUsedOnce
  BY DEF KeyInv
<1>4. QED
  BY <1>1, <1>2, <1>3, SessionTypes, PTL DEF Spec

----------------------------------------------------------------------------
\* A history shows each message once and in order.

\* The rows of p's that are acknowledgements, or messages, from q.
Acks(p, q) == {j \in DOMAIN inbox[p] : inbox[p][j].type = "hello_ack" /\ inbox[p][j].from = q}
Msgs(p, q) == {j \in DOMAIN inbox[p] : inbox[p][j].type = "msg" /\ inbox[p][j].from = q}

\* How many of p's rows a pending hello can no longer be answered by.
Done(p) == IF task[p] = {} THEN got[p] ELSE got[p] + 1

\* The message n of q's is newer than all that p showed.
Newer(p, q, n) == \A i \in DOMAIN shown[p][q] : shown[p][q][i] < n

\* q made the root key, answering a hello with the ephemeral key re.
Answers(root, q, re) == root.resp = q /\ root.re = re

\* The root key p would derive now from q's answer re.
Awaited(p, q, re) == RootKey(p, q, TRUE, pending[p][q], re)

Generated(root) == root.ie <= ephs /\ root.re <= ephs

\* Ephemeral keys were generated, wherever they are by now.
Fresh ==
  /\ \A p, q \in Peers : pending[p][q] <= ephs /\ \A eph \in offers[p][q] : eph <= ephs
  /\ \A p, q \in Peers : \A s \in conn[p][q] : Generated(s.root)
  /\ \A p \in Peers : \A i \in task[p] :
       /\ i.do = "install" => Generated(i.session.root)
       /\ i.do = "reply" => i.eph <= ephs
  /\ \A p \in Peers : \A j \in DOMAIN inbox[p] : inbox[p][j].type # "msg" => inbox[p][j].eph <= ephs
  /\ \A e \in out : Generated(e.key.root)

\* A session that is registered after its acknowledgement is the initiator's.
InstallsOwn ==
  \A p \in Peers : \A i \in task[p] : i.do = "install" =>
    i.session.root.init = p /\ i.session.root.resp = i.to

\* Messages are numbered, rows carry messages, and what was shown was sent,
\* under a root key without the ephemeral key of a pending hello.
Counted == \A p, q \in Peers : \A e \in SentTo(q, p) : e.n \in 1..Cardinality(SentTo(q, p))
RowsSent ==
  \A p, q \in Peers : \A j \in Msgs(p, q) :
    \E e \in SentTo(q, p) : e.key = inbox[p][j].key /\ e.n = inbox[p][j].n
ShownSent ==
  \A p, q \in Peers : \A i \in DOMAIN shown[p][q] :
    \E e \in SentTo(q, p) : e.n = shown[p][q][i] /\ Own(p, e.key.root) # pending[p][q]

\* The later of two keys of a chain encrypted the later message.
Monotone ==
  \A p, q \in Peers : \A e, f \in SentTo(q, p) :
    e.key.root = f.key.root /\ e.key.index < f.key.index => e.n < f.n

\* An answer goes into one root key.
Unique ==
  \A p, q \in Peers : \A e \in SentTo(q, p) : e.key.root.resp = q =>
    /\ \A f \in SentTo(q, p) : Answers(f.key.root, q, e.key.root.re) => f.key.root = e.key.root
    /\ \A s \in conn[q][p] : Answers(s.root, q, e.key.root.re) => s.root = e.key.root

\* What p's session with q can still decrypt is newer than all that p showed;
\* so is what a session can that is about to be registered, and one that an
\* acknowledgement on its way would make.
Expected ==
  \A p, q \in Peers : \A s \in conn[p][q], e \in SentTo(q, p) :
    e.key.root = s.root /\ e.key.index >= s.recv => Newer(p, q, e.n)
ToInstall ==
  \A p \in Peers : \A i \in task[p] : i.do = "install" =>
    \A e \in SentTo(i.to, p) : e.key.root = i.session.root => Newer(p, i.to, e.n)
AwaitedNewer ==
  \A p, q \in Peers : \A j \in Acks(p, q), e \in SentTo(q, p) :
    e.key.root = Awaited(p, q, inbox[p][j].eph) => Newer(p, q, e.n)

\* The messages before an acknowledgement are older than those sent under the
\* root key that it completes, or are among them.
AckOrder ==
  \A p, q \in Peers : \A i \in Msgs(p, q), j \in Acks(p, q), e \in SentTo(q, p) :
    /\ i < j
    /\ ~Answers(inbox[p][i].key.root, q, inbox[p][j].eph)
    /\ Answers(e.key.root, q, inbox[p][j].eph)
    => inbox[p][i].n < e.n

\* While a reply is still to be sent, its session is the one there is.
ReplyOrder ==
  \A q \in Peers : \A r \in task[q] : r.do = "reply" =>
    /\ \A s \in conn[q][r.to] : Answers(s.root, q, r.eph)
    /\ \A e, f \in SentTo(q, r.to) :
         Answers(e.key.root, q, r.eph) /\ ~Answers(f.key.root, q, r.eph) => f.n < e.n

\* An acknowledgement that was handled does not fit the hello pending now,
\* should the relay hand it over again.
Taken ==
  \A p, q \in Peers : \A j \in Acks(p, q) : j <= Done(p) =>
    /\ \A s \in conn[q][p] : s.root # Awaited(p, q, inbox[p][j].eph)
    /\ \A e \in SentTo(q, p) : e.key.root # Awaited(p, q, inbox[p][j].eph)

OrderInv ==
  /\ Fresh /\ InstallsOwn /\ Counted /\ RowsSent /\ ShownSent /\ Monotone /\ Unique
  /\ Expected /\ ToInstall /\ AwaitedNewer /\ AckOrder /\ ReplyOrder /\ Taken

\* What the types say of the numbers.
Numbers ==
  /\ ephs \in Nat
  /\ \A p, q \in Peers : pending[p][q] \in Nat
  /\ \A p, q \in Peers : \A s \in conn[p][q] :
       s.root \in Root /\ s.root.ie \in Ephs /\ s.root.re \in Ephs /\ s.recv \in Nat
  /\ \A e \in out : /\ e.n \in Nat /\ e.key.index \in Nat /\ e.key.root \in Root
                    /\ e.key.root.ie \in Ephs /\ e.key.root.re \in Ephs
  /\ \A p \in Peers : got[p] \in Nat /\ Done(p) \in Nat
  /\ \A p \in Peers : \A j \in DOMAIN inbox[p] : j \in Nat
  /\ \A p, q \in Peers : \A i \in DOMAIN shown[p][q] : shown[p][q][i] \in Nat

LEMMA TypedNumbers ==
  ASSUME TypeInv
  PROVE  Numbers
<1>1. ephs \in Nat /\ \A p, q \in Peers : pending[p][q] \in Nat
  BY KeyTypes DEF TypeInv
<1>2. ASSUME NEW root \in Root PROVE root.ie \in Ephs /\ root.re \in Ephs
  BY DEF Root
<1>3. ASSUME NEW p \in Peers, NEW q \in Peers, NEW s \in conn[p][q]
      PROVE  s.root \in Root /\ s.root.ie \in Ephs /\ s.root.re \in Ephs /\ s.recv \in Nat
  <2>1. s \in Session
    BY DEF TypeInv, TypeOK
  <2>2. s.root \in Root /\ s.recv \in Nat
    BY <2>1 DEF Session
  <2>3. QED
    BY <1>2, <2>2
<1>4. ASSUME NEW e \in out
      PROVE  /\ e.n \in Nat /\ e.key.index \in Nat /\ e.key.root \in Root
             /\ e.key.root.ie \in Ephs /\ e.key.root.re \in Ephs
  <2>1. e \in [key: Key, to: Peers, n: Nat]
    BY DEF TypeInv, TypeOK
  <2>2. e.n \in Nat /\ e.key \in Key
    BY <2>1
  <2>3. e.key.index \in Nat /\ e.key.root \in Root
    BY <2>2 DEF Key
  <2>4. QED
    BY <1>2, <2>2, <2>3
<1>5. \A p \in Peers : got[p] \in Nat /\ Done(p) \in Nat
  BY DEF TypeInv, TypeOK, Done
<1>6. \A p \in Peers : \A j \in DOMAIN inbox[p] : j \in Nat
  BY DEF TypeInv, TypeOK
<1>7. ASSUME NEW p \in Peers, NEW q \in Peers, NEW i \in DOMAIN shown[p][q]
      PROVE  shown[p][q][i] \in Nat
  <2>1. shown[p][q] \in Seq(Nat)
    BY DEF TypeInv, TypeOK
  <2>2. QED
    BY <2>1
<1>8. QED
  BY <1>1, <1>3, <1>4, <1>5, <1>6, <1>7 DEF Numbers

\* The tables that the steps below write to.
LEMMA Tables ==
  ASSUME TypeInv
  PROVE  /\ pending \in [Peers -> [Peers -> Ephs \cup {NoEph}]]
         /\ conn \in [Peers -> [Peers -> SUBSET Session]]
         /\ offers \in [Peers -> [Peers -> SUBSET Ephs]]
         /\ task \in [Peers -> SUBSET (Reply \cup Install)]
         /\ got \in [Peers -> Nat]
BY DEF TypeInv, TypeOK

LEMMA InitOrder == Init => OrderInv
<1> SUFFICES ASSUME Init PROVE OrderInv
  OBVIOUS
<1>1. /\ out = {} /\ \A p, q \in Peers : SentTo(p, q) = {} /\ DOMAIN shown[p][q] = {}
      /\ \A p \in Peers : task[p] = {} /\ DOMAIN inbox[p] = {}
      /\ \A p, q \in Peers : conn[p][q] = {} /\ offers[p][q] = {} /\ pending[p][q] <= ephs
  BY DEF Init, SentTo, NoEph
<1>2. \A p, q \in Peers : Acks(p, q) = {} /\ Msgs(p, q) = {}
  BY <1>1 DEF Acks, Msgs
<1>3. Fresh /\ InstallsOwn /\ Counted /\ RowsSent /\ ShownSent /\ Monotone /\ Unique
  BY <1>1, <1>2 DEF Fresh, InstallsOwn, Counted, RowsSent, ShownSent, Monotone, Unique
<1>4. Expected /\ ToInstall /\ AwaitedNewer /\ AckOrder /\ ReplyOrder /\ Taken
  BY <1>1, <1>2 DEF Expected, ToInstall, AwaitedNewer, AckOrder, ReplyOrder, Taken
<1>5. QED
  BY <1>3, <1>4 DEF OrderInv

\* A step may forget sessions, hellos and what was to be done, offer a new
\* ephemeral key, pass rows, drop the oldest and add hellos: the rows left are
\* d[p] places from where they were.
Rows(d) ==
  /\ d \in [Peers -> 0..1]
  /\ \A p \in Peers : \A j \in DOMAIN inbox'[p] :
       \/ inbox'[p][j].type = "hello" /\ inbox'[p][j].eph <= ephs'
       \/ j + d[p] \in DOMAIN inbox[p] /\ inbox'[p][j] = inbox[p][j + d[p]]

Quiet(d) ==
  /\ out' = out /\ shown' = shown /\ ephs <= ephs'
  /\ \A p, q \in Peers : \A s \in conn'[p][q] : \E t \in conn[p][q] : s.root = t.root /\ t.recv <= s.recv
  /\ \A p \in Peers : task'[p] \subseteq task[p]
  /\ \A p, q \in Peers : \/ pending'[p][q] \in {pending[p][q], NoEph}
                         \/ ephs < pending'[p][q] /\ pending'[p][q] <= ephs'
  /\ \A p, q \in Peers : \A eph \in offers'[p][q] : eph \in offers[p][q] \/ eph = ephs'
  /\ Rows(d)
  /\ \A p, q \in Peers : \A j \in Acks(p, q)' : j <= Done(p)' =>
       j + d[p] <= Done(p) \/ pending'[p][q] = NoEph

LEMMA QuietOrder ==
  ASSUME TypeInv, TypeInv', OrderInv, NEW d, Quiet(d)
  PROVE  OrderInv'
<1>r. Numbers
  BY TypedNumbers
<1>s. Numbers'
  BY TypedNumbers, PTL
<1>t. /\ ephs \in Nat /\ ephs' \in Nat
      /\ \A p, q \in Peers : pending[p][q] \in Nat /\ pending'[p][q] \in Nat
      /\ \A p, q \in Peers : \A s \in conn[p][q] :
           s.root \in Root /\ s.root.ie \in Ephs /\ s.root.re \in Ephs /\ s.recv \in Nat
      /\ \A p, q \in Peers : \A s \in conn'[p][q] : s.recv \in Nat
      /\ \A e \in out : /\ e.n \in Nat /\ e.key.index \in Nat /\ e.key.root \in Root
                        /\ e.key.root.ie \in Ephs /\ e.key.root.re \in Ephs
      /\ \A p \in Peers : \A j \in DOMAIN inbox[p] : j \in Nat
      /\ \A p \in Peers : \A j \in DOMAIN inbox'[p] : j \in Nat
  BY <1>r, <1>s DEF Numbers
<1>q. /\ out' = out /\ shown' = shown /\ ephs <= ephs'
      /\ \A p \in Peers : task'[p] \subseteq task[p]
      /\ \A p, q \in Peers : \A s \in conn'[p][q] : \E t \in conn[p][q] : s.root = t.root /\ t.recv <= s.recv
      /\ d \in [Peers -> 0..1]
  BY DEF Quiet, Rows
<1>1. \A p, q \in Peers : SentTo(p, q)' = SentTo(p, q)
  BY <1>q DEF SentTo
<1>2. \A p, q, n : Newer(p, q, n)' <=> Newer(p, q, n)
  BY <1>q DEF Newer
\* A root key made with the hello pending now is one made with that before.
<1>3. ASSUME NEW p \in Peers, NEW q \in Peers, NEW root \in Root, Generated(root),
             root.ie \in Ephs, NEW re, root = Awaited(p, q, re)'
      PROVE  root = Awaited(p, q, re) /\ pending'[p][q] = pending[p][q] /\ pending'[p][q] # NoEph
  <2>1. root.ie = pending'[p][q]
    BY <1>3 DEF Awaited, RootKey
  <2>2. pending'[p][q] = pending[p][q] /\ pending'[p][q] # NoEph
    BY <1>t, <1>3, <2>1 DEF Quiet, Generated, Ephs, NoEph
  <2>3. QED
    BY <1>3, <2>2 DEF Awaited, RootKey
<1>4. ASSUME NEW p \in Peers, NEW q \in Peers, NEW j \in Acks(p, q)'
      PROVE  j + d[p] \in Acks(p, q) /\ inbox'[p][j] = inbox[p][j + d[p]]
  BY DEF Quiet, Rows, Acks
<1>5. ASSUME NEW p \in Peers, NEW q \in Peers, NEW j \in Msgs(p, q)'
      PROVE  j + d[p] \in Msgs(p, q) /\ inbox'[p][j] = inbox[p][j + d[p]]
  BY DEF Quiet, Rows, Msgs
<1>6. Fresh'
  <2>1. \A root \in Root : root.ie \in Ephs /\ root.re \in Ephs /\ Generated(root) => Generated(root)'
    BY <1>t, <1>q DEF Generated, Ephs
  <2>2. ASSUME NEW p \in Peers, NEW q \in Peers
        PROVE  pending'[p][q] <= ephs' /\ \A eph \in offers'[p][q] : eph <= ephs'
    <3>1. \A eph \in offers[p][q] : eph \in Nat
      BY DEF TypeInv, TypeOK, Ephs
    <3>2. QED
      BY <1>t, <1>q, <3>1 DEF OrderInv, Fresh, Quiet, NoEph
  <2>3. \A p, q \in Peers : \A s \in conn'[p][q] : Generated(s.root)'
    BY <1>t, <1>q, <2>1 DEF OrderInv, Fresh
  <2>4. ASSUME NEW p \in Peers, NEW i \in task'[p]
        PROVE  /\ (i.do = "install" => Generated(i.session.root)')
               /\ (i.do = "reply" => i.eph <= ephs')
    <3>1. i \in task[p] /\ i \in Reply \cup Install
      BY <1>q DEF TypeInv, TypeOK
    <3>2. i.do = "reply" => i.eph \in Nat
      BY <3>1 DEF Reply, Install, Ephs
    <3>3. i.do = "install" => i.session.root \in Root
      BY <3>1 DEF Reply, Install, Session
    <3>4. \A root \in Root : root.ie \in Ephs /\ root.re \in Ephs
      BY DEF Root
    <3>5. QED
      BY <1>t, <1>q, <2>1, <3>1, <3>2, <3>3, <3>4 DEF OrderInv, Fresh
  <2>5. ASSUME NEW p \in Peers, NEW j \in DOMAIN inbox'[p], inbox'[p][j].type # "msg"
        PROVE  inbox'[p][j].eph <= ephs'
    <3>1. CASE j + d[p] \in DOMAIN inbox[p] /\ inbox'[p][j] = inbox[p][j + d[p]]
      <4>1. inbox[p][j + d[p]] \in Hello \cup Msg
        BY <3>1 DEF TypeInv, TypeOK
      <4>2. inbox[p][j + d[p]].eph \in Nat
        BY <2>5, <3>1, <4>1 DEF Hello, Msg, Ephs
      <4>3. QED
        BY <1>t, <1>q, <2>5, <3>1, <4>2 DEF OrderInv, Fresh
    <3>2. QED
      BY <3>1 DEF Quiet, Rows
  <2>6. \A e \in out' : Generated(e.key.root)'
    BY <1>t, <1>q, <2>1 DEF OrderInv, Fresh
  <2>7. QED
    BY <2>2, <2>3, <2>4, <2>5, <2>6 DEF Fresh
<1>7. InstallsOwn'
  BY <1>q DEF OrderInv, InstallsOwn
<1>8. Counted' /\ Monotone'
  BY <1>1 DEF OrderInv, Counted, Monotone
<1>9. RowsSent'
  BY <1>1, <1>5 DEF OrderInv, RowsSent
<1>10. ShownSent'
  <2> SUFFICES ASSUME NEW p \in Peers, NEW q \in Peers, NEW i \in DOMAIN shown[p][q]
               PROVE  \E e \in SentTo(q, p) : e.n = shown[p][q][i] /\ Own(p, e.key.root) # pending'[p][q]
    BY <1>1, <1>q DEF ShownSent
  <2>1. PICK e \in SentTo(q, p) : e.n = shown[p][q][i] /\ Own(p, e.key.root) # pending[p][q]
    BY DEF OrderInv, ShownSent
  <2>2. Own(p, e.key.root) \in Ephs /\ Own(p, e.key.root) <= ephs
    <3>1. e \in out
      BY DEF SentTo
    <3>2. QED
      BY <1>t, <3>1 DEF Own, OrderInv, Fresh, Generated
  <2>3. Own(p, e.key.root) # pending'[p][q]
    BY <1>t, <2>1, <2>2 DEF Quiet, Ephs, NoEph
  <2>4. QED
    BY <2>1, <2>3
<1>11. Unique'
  BY <1>1, <1>q DEF OrderInv, Unique
<1>12. Expected'
  <2> SUFFICES ASSUME NEW p \in Peers, NEW q \in Peers, NEW s \in conn'[p][q], NEW e \in SentTo(q, p),
                      e.key.root = s.root, e.key.index >= s.recv
               PROVE  Newer(p, q, e.n)
    BY <1>1, <1>2 DEF Expected
  <2>1. PICK t \in conn[p][q] : s.root = t.root /\ t.recv <= s.recv
    BY <1>q
  <2>2. e.key.index >= t.recv
    BY <1>t, <2>1 DEF SentTo
  <2>3. QED
    BY <2>1, <2>2 DEF OrderInv, Expected
<1>13. ToInstall'
  <2>1. \A p \in Peers : \A i \in task[p] : i.do = "install" => i.to \in Peers
    BY KeyTypes DEF TypeInv
  <2>2. QED
    BY <1>1, <1>2, <1>q, <2>1 DEF OrderInv, ToInstall
<1>14. AwaitedNewer'
  <2> SUFFICES ASSUME NEW p \in Peers, NEW q \in Peers, NEW j \in Acks(p, q)', NEW e \in SentTo(q, p),
                      NEW re, re = inbox'[p][j].eph, e.key.root = Awaited(p, q, re)'
               PROVE  Newer(p, q, e.n)
    BY <1>1, <1>2 DEF AwaitedNewer
  <2>1. e.key.root = Awaited(p, q, re)
    BY <1>3, <1>t DEF SentTo, OrderInv, Fresh
  <2>2. QED
    BY <1>4, <2>1 DEF OrderInv, AwaitedNewer
<1>15. AckOrder'
  <2> SUFFICES ASSUME NEW p \in Peers, NEW q \in Peers, NEW i \in Msgs(p, q)', NEW j \in Acks(p, q)',
                      NEW e \in SentTo(q, p), i < j,
                      ~Answers(inbox'[p][i].key.root, q, inbox'[p][j].eph),
                      Answers(e.key.root, q, inbox'[p][j].eph)
               PROVE  inbox'[p][i].n < e.n
    BY <1>1 DEF AckOrder, Answers
  <2>1. i + d[p] < j + d[p]
    BY <1>q, <1>t DEF Acks, Msgs
  <2>2. QED
    BY <1>4, <1>5, <2>1 DEF OrderInv, AckOrder
<1>16. ReplyOrder'
  <2>1. \A p \in Peers : \A r \in task[p] : r.do = "reply" => r.to \in Peers
    BY DEF TypeInv, TypeOK, Reply, Install
  <2>2. QED
    BY <1>1, <1>q, <2>1 DEF OrderInv, ReplyOrder, Answers
<1>17. Taken'
  <2> SUFFICES ASSUME NEW p \in Peers, NEW q \in Peers, NEW j \in Acks(p, q)', j <= Done(p)',
                      NEW re, re = inbox'[p][j].eph
               PROVE  /\ \A s \in conn'[q][p] : s.root # Awaited(p, q, re)'
                      /\ \A e \in SentTo(q, p) : e.key.root # Awaited(p, q, re)'
    BY <1>1 DEF Taken
  <2>1. j + d[p] \in Acks(p, q) /\ inbox[p][j + d[p]].eph = re
    BY <1>4
  <2>2. j + d[p] <= Done(p) \/ pending'[p][q] = NoEph
    BY DEF Quiet
  <2>3. ASSUME NEW root \in Root, Generated(root), root.ie \in Ephs, root = Awaited(p, q, re)'
        PROVE  j + d[p] <= Done(p) /\ root = Awaited(p, q, re)
    BY <1>3, <2>2, <2>3
  <2>4. \A s \in conn'[q][p] : \E t \in conn[q][p] : s.root = t.root
    BY <1>q
  <2>5. \A t \in conn[q][p] : t.root \in Root /\ Generated(t.root) /\ t.root.ie \in Ephs
                              /\ (j + d[p] <= Done(p) => t.root # Awaited(p, q, re))
    BY <1>t, <2>1 DEF OrderInv, Fresh, Taken
  <2>6. \A e \in SentTo(q, p) : e.key.root \in Root /\ Generated(e.key.root) /\ e.key.root.ie \in Ephs
                              /\ (j + d[p] <= Done(p) => e.key.root # Awaited(p, q, re))
    BY <1>t, <2>1 DEF OrderInv, Fresh, Taken, SentTo
  <2>7. QED
    BY <2>3, <2>4, <2>5, <2>6
<1>18. QED
  BY <1>6, <1>7, <1>8, <1>9, <1>10, <1>11, <1>12, <1>13, <1>14, <1>15, <1>16, <1>17 DEF OrderInv

----------------------------------------------------------------------------
\* The steps that show nothing new, send nothing and make no session.
Stay == [p \in Peers |-> 0]

\* Rows that stay, and are handled no further, ask for nothing.
LEMMA StayOrder ==
  ASSUME TypeInv, TypeInv', OrderInv,
         out' = out, shown' = shown, inbox' = inbox, ephs <= ephs',
         \A p, q \in Peers : \A s \in conn'[p][q] : \E t \in conn[p][q] : s.root = t.root /\ t.recv <= s.recv,
         \A p \in Peers : task'[p] \subseteq task[p],
         \A p, q \in Peers : \/ pending'[p][q] \in {pending[p][q], NoEph}
                             \/ ephs < pending'[p][q] /\ pending'[p][q] <= ephs',
         \A p, q \in Peers : \A eph \in offers'[p][q] : eph \in offers[p][q] \/ eph = ephs',
         \A p, q \in Peers : \A j \in Acks(p, q) : j <= Done(p)' =>
           j <= Done(p) \/ pending'[p][q] = NoEph
  PROVE  OrderInv'
<1>0. \A p \in Peers : \A j \in DOMAIN inbox[p] : j \in Nat
  BY TypedNumbers DEF Numbers
<1>1. Rows(Stay)
  BY <1>0 DEF Rows, Stay
<1>2. \A p, q \in Peers : Acks(p, q)' = Acks(p, q)
  BY DEF Acks
<1>3. \A p, q \in Peers : \A j \in Acks(p, q) : j + Stay[p] = j
  BY <1>0 DEF Acks, Stay
<1>4. Quiet(Stay)
  BY <1>1, <1>2, <1>3 DEF Quiet
<1>5. QED
  BY <1>4, QuietOrder

LEMMA CheckConnectOrder ==
  ASSUME TypeInv, TypeInv', OrderInv, NEW p \in Peers, NEW q \in Peers, CheckConnect(p, q)
  PROVE  OrderInv'
<1>r. Numbers
  BY TypedNumbers
<1>1. UNCHANGED <<offers, task, pending, conn, ephs, inbox, got, out, shown>>
  BY DEF CheckConnect, sessions, relay, history
<1>2. \A a \in Peers : Done(a)' = Done(a)
  BY <1>1 DEF Done
<1>3. QED
  BY <1>r, <1>1, <1>2, StayOrder DEF Numbers

LEMMA OfferOrder ==
  ASSUME TypeInv, TypeInv', OrderInv, NEW p \in Peers, NEW q \in Peers, Offer(p, q)
  PROVE  OrderInv'
<1>r. Numbers
  BY TypedNumbers
<1>1. /\ UNCHANGED <<task, conn, inbox, got, out, shown>>
      /\ ephs' = ephs + 1
      /\ pending' = [pending EXCEPT ![p][q] = ephs']
      /\ offers' = [offers EXCEPT ![p][q] = @ \cup {ephs'}]
  BY DEF Offer, relay, history
<1>2. \A a \in Peers : Done(a)' = Done(a)
  BY <1>1 DEF Done
<1>3. /\ \A a, b \in Peers : pending'[a][b] \in {pending[a][b], ephs'}
      /\ \A a, b \in Peers : \A eph \in offers'[a][b] : eph \in offers[a][b] \/ eph = ephs'
  BY <1>1, Tables
<1>4. ephs < ephs' /\ ephs' <= ephs'
  BY <1>r, <1>1 DEF Numbers
<1>5. QED
  BY <1>r, <1>1, <1>2, <1>3, <1>4, StayOrder DEF Numbers

LEMMA ReconnectOrder ==
  ASSUME TypeInv, TypeInv', OrderInv, NEW p \in Peers, Reconnect(p)
  PROVE  OrderInv'
<1>r. Numbers
  BY TypedNumbers
<1>1. /\ UNCHANGED <<offers, task, pending, conn, ephs, inbox, out, shown>>
      /\ task[p] = {} /\ got' = [got EXCEPT ![p] = 0]
  BY DEF Reconnect, threads, sessions, history
<1>2. \A a \in Peers : Done(a)' \in Nat /\ Done(a)' <= Done(a)
  <2>1. \A a \in Peers : got'[a] = IF a = p THEN 0 ELSE got[a]
    BY <1>1 DEF TypeInv, TypeOK
  <2>2. \A a \in Peers : IF a = p THEN Done(a)' = 0 ELSE Done(a)' = Done(a)
    BY <1>1, <2>1 DEF Done
  <2>3. QED
    BY <1>r, <2>2 DEF Numbers
<1>3. \A a, b \in Peers : \A j \in Acks(a, b) : j <= Done(a)' => j <= Done(a)
  BY <1>r, <1>2 DEF Acks, Numbers
<1>4. QED
  BY <1>r, <1>1, <1>3, StayOrder DEF Numbers

LEMMA RestartOrder ==
  ASSUME TypeInv, TypeInv', OrderInv, NEW p \in Peers, RestartApp(p)
  PROVE  OrderInv'
<1>r. Numbers
  BY TypedNumbers
<1>1. /\ UNCHANGED <<ephs, inbox, out, shown>>
      /\ pending' = [pending EXCEPT ![p] = [q \in Peers |-> NoEph]]
      /\ conn' = [conn EXCEPT ![p] = [q \in Peers |-> {}]]
      /\ offers' = [offers EXCEPT ![p] = [q \in Peers |-> {}]]
      /\ task' = [task EXCEPT ![p] = {}]
      /\ got' = [got EXCEPT ![p] = 0]
  BY DEF RestartApp, history
<1>2. /\ \A a, b \in Peers : pending'[a][b] \in {pending[a][b], NoEph}
      /\ \A a, b \in Peers : conn'[a][b] \in {conn[a][b], {}}
      /\ \A a, b \in Peers : offers'[a][b] \in {offers[a][b], {}}
      /\ \A a \in Peers : task'[a] \in {task[a], {}}
  BY <1>1, Tables
<1>3. \A a \in Peers : Done(a)' \in Nat /\ Done(a)' <= Done(a)
  <2>1. \A a \in Peers : IF a = p THEN Done(a)' = 0 ELSE Done(a)' = Done(a)
    BY <1>1 DEF Done, TypeInv, TypeOK
  <2>2. QED
    BY <1>r, <2>1 DEF Numbers
<1>4. \A a, b \in Peers : \A j \in Acks(a, b) : j <= Done(a)' => j <= Done(a)
  BY <1>r, <1>3 DEF Acks, Numbers
<1>5. \A a, b \in Peers : \A s \in conn'[a][b] : \E t \in conn[a][b] : s.root = t.root /\ t.recv <= s.recv
  BY <1>r, <1>2 DEF Numbers
<1>6. QED
  BY <1>r, <1>1, <1>2, <1>4, <1>5, StayOrder DEF Numbers

LEMMA AcknowledgedOrder ==
  ASSUME TypeInv, TypeInv', OrderInv, NEW p \in Peers, Acknowledged(p)
  PROVE  OrderInv'
<1> DEFINE d == [a \in Peers |-> IF a = p THEN 1 ELSE 0]
<1>r. Numbers
  BY TypedNumbers
<1>s. Numbers'
  BY TypedNumbers, PTL
<1>1. /\ UNCHANGED <<offers, task, pending, conn, ephs, out, shown>>
      /\ got[p] > 0
      /\ inbox' = [inbox EXCEPT ![p] = Tail(@)]
      /\ got' = [got EXCEPT ![p] = @ - 1]
  BY DEF Acknowledged, threads, sessions, history
<1>2. \A j \in DOMAIN inbox'[p] : j + 1 \in DOMAIN inbox[p] /\ inbox'[p][j] = inbox[p][j + 1]
  <2>1. inbox[p] \in Seq(Hello \cup Msg) /\ inbox'[p] = Tail(inbox[p])
    BY <1>1 DEF TypeInv, TypeOK
  <2> DEFINE s == inbox[p]
             S == Hello \cup Msg
  <2>2. s \in Seq(S) /\ s # <<>>
    BY <1>1, <2>1 DEF TypeInv, TypeOK
  <2> HIDE DEF s, S
  <2>3. \A j \in DOMAIN Tail(s) : j + 1 \in DOMAIN s /\ Tail(s)[j] = s[j + 1]
    BY <2>2
  <2>4. QED
    BY <2>1, <2>3 DEF s
<1>3. \A a \in Peers : a # p => inbox'[a] = inbox[a]
  BY <1>1 DEF TypeInv, TypeOK
<1>4. d \in [Peers -> 0..1] /\ d[p] = 1 /\ \A a \in Peers : a # p => d[a] = 0
  OBVIOUS
<1> HIDE DEF d
<1>5. Rows(d)
  BY <1>r, <1>2, <1>3, <1>4 DEF Rows, Numbers
<1>6. \A a \in Peers : Done(a)' = Done(a) - d[a]
  <2>1. got \in [Peers -> Nat]
    BY DEF TypeInv, TypeOK
  <2>2. \A a \in Peers : got[a] \in Nat /\ got'[a] = got[a] - d[a] /\ d[a] \in 0..1
    BY <1>1, <1>4, <2>1
  <2>3. QED
    BY <1>1, <2>2 DEF Done
<1>7. ASSUME NEW a \in Peers, NEW j \in DOMAIN inbox'[a], j <= Done(a)'
      PROVE  j + d[a] <= Done(a)
  <2>1. j \in Nat /\ Done(a) \in Nat /\ d[a] \in 0..1
    BY <1>r, <1>s, <1>4 DEF Numbers
  <2>2. QED
    BY <1>6, <1>7, <2>1
<1>8. Quiet(d)
  BY <1>r, <1>1, <1>5, <1>7 DEF Quiet, Numbers, Acks
<1>9. QED
  BY <1>8, QuietOrder

\* A frame that reaches the relay is the recipient's last row.
LEMMA LastRow ==
  ASSUME TypeInv, NEW q \in Peers, NEW f \in Hello \cup Msg,
         inbox' = [inbox EXCEPT ![q] = Append(@, f)]
  PROVE  /\ \A a \in Peers : \A j \in DOMAIN inbox'[a] :
              \/ j \in DOMAIN inbox[a] /\ inbox'[a][j] = inbox[a][j]
              \/ a = q /\ j = Len(inbox[q]) + 1 /\ inbox'[a][j] = f
         /\ \A j \in DOMAIN inbox[q] : j < Len(inbox[q]) + 1
<1> DEFINE S == Hello \cup Msg
           s == inbox[q]
<1>1. s \in Seq(S) /\ f \in S
  BY DEF TypeInv, TypeOK
<1>2. inbox'[q] = Append(s, f) /\ \A a \in Peers : a # q => inbox'[a] = inbox[a]
  BY DEF TypeInv, TypeOK
<1> HIDE DEF S, s
<1>3. /\ \A j \in DOMAIN Append(s, f) : \/ j \in DOMAIN s /\ Append(s, f)[j] = s[j]
                                        \/ j = Len(s) + 1 /\ Append(s, f)[j] = f
      /\ \A j \in DOMAIN s : j < Len(s) + 1
  BY <1>1
<1>4. QED
  BY <1>2, <1>3 DEF s

LEMMA SendHelloOrder ==
  ASSUME TypeInv, TypeInv', OrderInv, NEW p \in Peers, NEW q \in Peers, SendHello(p, q)
  PROVE  OrderInv'
<1>r. Numbers
  BY TypedNumbers
<1>1. PICK eph \in offers[p][q], ok \in BOOLEAN :
        /\ SendTo(q, [type |-> "hello", from |-> p, eph |-> eph], ok)
        /\ pending' = IF ok THEN pending ELSE [pending EXCEPT ![p][q] = NoEph]
        /\ offers' = [offers EXCEPT ![p][q] = @ \ {eph}]
  BY DEF SendHello
<1> DEFINE f == [type |-> "hello", from |-> p, eph |-> eph]
<1>2. /\ UNCHANGED <<task, conn, ephs, out, shown, got>>
      /\ \/ inbox' = inbox
         \/ inbox' = [inbox EXCEPT ![q] = Append(@, f)]
  BY <1>1 DEF SendHello, SendTo, history, relay
<1>3. /\ eph \in Ephs /\ eph <= ephs
      /\ f \in Hello \cup Msg /\ f.type = "hello" /\ f.eph = eph
  <2>1. eph \in Ephs
    BY DEF TypeInv, TypeOK
  <2>2. eph <= ephs
    BY DEF OrderInv, Fresh
  <2>3. QED
    BY <2>1, <2>2 DEF Hello
<1>4. /\ \A a, b \in Peers : pending'[a][b] \in {pending[a][b], NoEph}
      /\ \A a, b \in Peers : offers'[a][b] \subseteq offers[a][b]
  BY <1>1, Tables
<1>5. \A a \in Peers : Done(a)' = Done(a)
  BY <1>2 DEF Done
<1> HIDE DEF f
<1>6. CASE inbox' = inbox
  BY <1>r, <1>2, <1>4, <1>5, <1>6, StayOrder DEF Numbers
<1>7. CASE inbox' = [inbox EXCEPT ![q] = Append(@, f)]
  <2>1. \A a \in Peers : \A j \in DOMAIN inbox'[a] :
          \/ j \in DOMAIN inbox[a] /\ inbox'[a][j] = inbox[a][j]
          \/ inbox'[a][j] = f
    BY <1>3, <1>7, LastRow
  <2>2. \A a \in Peers : \A j \in DOMAIN inbox[a] : j + Stay[a] = j
    BY <1>r DEF Stay, Numbers
  <2>3. Rows(Stay)
    BY <1>2, <1>3, <2>1, <2>2 DEF Rows, Stay
  <2>4. \A a, b \in Peers : \A j \in Acks(a, b)' : j \in DOMAIN inbox[a]
    BY <1>3, <2>1 DEF Acks
  <2>5. Quiet(Stay)
    BY <1>r, <1>2, <1>4, <1>5, <2>2, <2>3, <2>4 DEF Quiet, Numbers
  <2>6. QED
    BY <2>5, QuietOrder
<1>8. QED
  BY <1>2, <1>6, <1>7

\* The relay thread's next row is the first that is not done with.
LEMMA NextDone ==
  ASSUME TypeInv, NEW p \in Peers, NEW type, Receives(p, type)
  PROVE  /\ task[p] = {} /\ Done(p) = got[p] /\ got[p] \in Nat
         /\ got[p] + 1 \in DOMAIN inbox[p] /\ NextRow(p) = inbox[p][got[p] + 1]
         /\ \A j \in DOMAIN inbox[p] : j <= got[p] + 1 => j <= Done(p) \/ j = got[p] + 1
<1>1. /\ task[p] = {} /\ got[p] < Len(inbox[p]) /\ got[p] \in Nat
      /\ inbox[p] \in Seq(Hello \cup Msg)
  BY DEF Receives, TypeInv, TypeOK
<1> DEFINE S == Hello \cup Msg
<1> HIDE DEF S
<1>2. inbox[p] \in Seq(S)
  BY <1>1 DEF S
<1>3. DOMAIN inbox[p] = 1..Len(inbox[p]) /\ Len(inbox[p]) \in Nat
  BY <1>2
<1>4. QED
  BY <1>1, <1>3 DEF Done, NextRow

\* A row is passed that asks for no session.
LEMMA PassedOrder ==
  ASSUME TypeInv, TypeInv', OrderInv, NEW p \in Peers, NEW type, Receives(p, type),
         UNCHANGED <<offers, task, pending, ephs, inbox, out, shown>>,
         got' = got \/ got' = [got EXCEPT ![p] = @ + 1],
         \A a, b \in Peers : \A s \in conn'[a][b] : \E t \in conn[a][b] : s.root = t.root /\ t.recv <= s.recv,
         NextRow(p).type = "hello_ack" => pending[p][NextRow(p).from] = NoEph
  PROVE  OrderInv'
<1>r. Numbers
  BY TypedNumbers
<1>1. /\ task[p] = {} /\ Done(p) = got[p] /\ got[p] \in Nat
      /\ NextRow(p) = inbox[p][got[p] + 1]
      /\ \A j \in DOMAIN inbox[p] : j <= got[p] + 1 => j <= Done(p) \/ j = got[p] + 1
  BY NextDone
<1>2. \A a \in Peers : a # p => Done(a)' = Done(a)
  BY DEF Done, TypeInv, TypeOK
<1>3. Done(p)' = got[p] \/ Done(p)' = got[p] + 1
  BY <1>1 DEF Done, TypeInv, TypeOK
<1>4. ASSUME NEW a \in Peers, NEW b \in Peers, NEW j \in Acks(a, b), j <= Done(a)'
      PROVE  j <= Done(a) \/ pending'[a][b] = NoEph
  <2>1. j \in DOMAIN inbox[a] /\ inbox[a][j].type = "hello_ack" /\ inbox[a][j].from = b
    BY DEF Acks
  <2>2. CASE a = p
    <3>1. j <= got[p] + 1
      BY <1>r, <1>1, <1>3, <1>4, <2>1, <2>2 DEF Numbers
    <3>2. QED
      BY <1>1, <2>1, <2>2, <3>1
  <2>3. QED
    BY <1>2, <1>4, <2>2
<1>5. QED
  BY <1>r, <1>4, StayOrder DEF Numbers

LEMMA SendHelloAckOrder ==
  ASSUME TypeInv, TypeInv', OrderInv, NEW p \in Peers, SendHelloAck(p)
  PROVE  OrderInv'
<1>r. Numbers
  BY TypedNumbers
<1>1. PICK r \in task[p], ok \in BOOLEAN : SendHelloAck(p)!1!(r, ok)
  BY DEF SendHelloAck
<1> DEFINE q == r.to
           f == [type |-> "hello_ack", from |-> p, eph |-> r.eph]
<1>2. /\ UNCHANGED <<offers, pending, conn, ephs, out, shown>>
      /\ task' = [task EXCEPT ![p] = {}]
      /\ got' = [got EXCEPT ![p] = @ + 1]
      /\ \/ inbox' = inbox
         \/ inbox' = [inbox EXCEPT ![q] = Append(@, f)]
  BY <1>1 DEF SendHelloAck, sessions, history
<1>3. /\ r \in task[p] /\ r.do = "reply" /\ q \in Peers /\ q # p
      /\ r.eph \in Ephs /\ r.eph <= ephs
      /\ f \in Hello \cup Msg /\ f.type = "hello_ack" /\ f.from = p /\ f.eph = r.eph
  <2>1. r \in Reply
    BY <1>1 DEF TypeInv, TypeOK, Reply, Install
  <2>2. q # p /\ r.eph <= ephs
    BY <1>1 DEF TypeInv, Shape, OrderInv, Fresh
  <2>3. QED
    BY <1>1, <2>1, <2>2 DEF Reply, Hello
<1>4. \A a \in Peers : task'[a] \subseteq task[a] /\ Done(a)' = Done(a)
  <2>1. \A a \in Peers : IF a = p THEN task'[a] = {} /\ got'[a] = got[a] + 1
                                  ELSE task'[a] = task[a] /\ got'[a] = got[a]
    BY <1>2, Tables
  <2>2. QED
    BY <1>1, <2>1 DEF Done
<1> HIDE DEF f
<1>5. CASE inbox' = inbox
  BY <1>r, <1>2, <1>4, <1>5, StayOrder DEF Numbers
<1>6. CASE inbox' = [inbox EXCEPT ![q] = Append(@, f)]
  <2> HIDE DEF q
  <2> DEFINE last == Len(inbox[q]) + 1
  <2>1. /\ \A a \in Peers : \A j \in DOMAIN inbox'[a] :
             \/ j \in DOMAIN inbox[a] /\ inbox'[a][j] = inbox[a][j]
             \/ a = q /\ j = last /\ inbox'[a][j] = f
        /\ \A j \in DOMAIN inbox[q] : j < last
    BY <1>3, <1>6, LastRow
  <2>a. last \in Nat /\ Done(q) < last
    <3>1. Len(inbox[q]) \in Nat /\ got[q] \in Nat /\ got[q] <= Len(inbox[q])
      BY <1>3 DEF TypeInv, TypeOK
    <3>2. task[q] # {} => got[q] < Len(inbox[q])
      BY <1>3 DEF TypeInv, Shape
    <3>3. QED
      BY <3>1, <3>2 DEF Done
  <2> HIDE DEF last
  <2>2. \A a, b \in Peers : SentTo(a, b)' = SentTo(a, b)
    BY <1>2 DEF SentTo
  <2>3. \A a, b, n : Newer(a, b, n)' <=> Newer(a, b, n)
    BY <1>2 DEF Newer
  <2>4. \A a, b, re : Awaited(a, b, re)' = Awaited(a, b, re)
    BY <1>2 DEF Awaited, RootKey
  <2>5. \A a, b \in Peers : \A j \in Msgs(a, b)' :
          j \in Msgs(a, b) /\ inbox'[a][j] = inbox[a][j]
    BY <1>3, <2>1 DEF Msgs
  <2>6. \A a, b \in Peers : \A j \in Acks(a, b)' :
          \/ j \in Acks(a, b) /\ inbox'[a][j] = inbox[a][j]
          \/ a = q /\ b = p /\ j = last /\ inbox'[a][j] = f
    BY <1>3, <2>1 DEF Acks
  \* What q showed was not under a key with this answer.
  <2>7. ASSUME NEW e \in SentTo(p, q), e.key.root = Awaited(q, p, r.eph)
        PROVE  Newer(q, p, e.n)
    <3> SUFFICES ASSUME NEW i \in DOMAIN shown[q][p] PROVE shown[q][p][i] < e.n
      BY DEF Newer
    <3>1. PICK g \in SentTo(p, q) : g.n = shown[q][p][i] /\ Own(q, g.key.root) # pending[q][p]
      BY <1>3 DEF OrderInv, ShownSent
    <3>2. Answers(e.key.root, p, r.eph) /\ e.key.root.init = q /\ e.key.root.ie = pending[q][p]
          /\ e.key.root.resp = p /\ e.key.root.re = r.eph
      BY <2>7 DEF Awaited, RootKey, Answers
    <3>3. ~Answers(g.key.root, p, r.eph)
      <4>1. SUFFICES ASSUME Answers(g.key.root, p, r.eph) PROVE FALSE
        OBVIOUS
      <4>2. g.key.root = e.key.root
        BY <1>3, <3>2, <4>1 DEF OrderInv, Unique
      <4>3. QED
        BY <3>1, <3>2, <4>2 DEF Own
    <3>4. g.n < e.n
      BY <1>3, <3>2, <3>3 DEF OrderInv, ReplyOrder, q
    <3>5. QED
      BY <3>1, <3>4
  <2>8. Fresh'
    <3>1. \A root : Generated(root)' <=> Generated(root)
      BY <1>2 DEF Generated
    <3>2. \A a \in Peers : \A j \in DOMAIN inbox'[a] :
            inbox'[a][j].type # "msg" => inbox'[a][j].eph <= ephs
      BY <1>3, <2>1 DEF OrderInv, Fresh
    <3>3. QED
      BY <1>2, <1>4, <3>1, <3>2 DEF OrderInv, Fresh
  <2>9. InstallsOwn'
    BY <1>4 DEF OrderInv, InstallsOwn
  <2>10. Counted' /\ Monotone' /\ Unique'
    BY <1>2, <2>2 DEF OrderInv, Counted, Monotone, Unique
  <2>11. RowsSent'
    BY <2>2, <2>5 DEF OrderInv, RowsSent
  <2>12. ShownSent'
    BY <1>2, <2>2 DEF OrderInv, ShownSent
  <2>13. Expected'
    BY <1>2, <2>2, <2>3 DEF OrderInv, Expected
  <2>14. ToInstall'
    <3>1. \A a \in Peers : \A i \in task[a] : i.do = "install" => i.to \in Peers
      BY KeyTypes DEF TypeInv
    <3>2. QED
      BY <1>4, <2>2, <2>3, <3>1 DEF OrderInv, ToInstall
  <2>15. AwaitedNewer'
    <3> SUFFICES ASSUME NEW a \in Peers, NEW b \in Peers, NEW j \in Acks(a, b)', NEW e \in SentTo(b, a),
                        e.key.root = Awaited(a, b, inbox'[a][j].eph)
                 PROVE  Newer(a, b, e.n)
      BY <2>2, <2>3, <2>4 DEF AwaitedNewer
    <3>1. CASE j \in Acks(a, b) /\ inbox'[a][j] = inbox[a][j]
      BY <3>1 DEF OrderInv, AwaitedNewer
    <3>2. CASE a = q /\ b = p /\ j = last /\ inbox'[a][j] = f
      BY <1>3, <2>7, <3>2
    <3>3. QED
      BY <2>6, <3>1, <3>2
  <2>16. AckOrder'
    <3> SUFFICES ASSUME NEW a \in Peers, NEW b \in Peers, NEW i \in Msgs(a, b)', NEW j \in Acks(a, b)',
                        NEW e \in SentTo(b, a), i < j,
                        ~Answers(inbox'[a][i].key.root, b, inbox'[a][j].eph),
                        Answers(e.key.root, b, inbox'[a][j].eph)
                 PROVE  inbox'[a][i].n < e.n
      BY <2>2 DEF AckOrder, Answers
    <3>1. i \in Msgs(a, b) /\ inbox'[a][i] = inbox[a][i]
      BY <2>5
    <3>2. CASE j \in Acks(a, b) /\ inbox'[a][j] = inbox[a][j]
      BY <3>1, <3>2 DEF OrderInv, AckOrder
    <3>3. CASE a = q /\ b = p /\ j = last /\ inbox'[a][j] = f
      <4>1. PICK g \in SentTo(p, q) : g.key = inbox[q][i].key /\ g.n = inbox[q][i].n
        BY <1>3, <3>1, <3>3 DEF OrderInv, RowsSent
      <4>2. Answers(e.key.root, p, r.eph) /\ ~Answers(g.key.root, p, r.eph)
        BY <1>3, <3>1, <3>3, <4>1
      <4>3. g.n < e.n
        BY <1>3, <3>3, <4>2 DEF OrderInv, ReplyOrder, q
      <4>4. QED
        BY <3>1, <3>3, <4>1, <4>3
    <3>4. QED
      BY <2>6, <3>2, <3>3
  <2>17. ReplyOrder'
    <3>1. ASSUME NEW a \in Peers, NEW t \in task[a] PROVE t.to \in Peers
      <4>1. t \in Reply \cup Install
        BY DEF TypeInv, TypeOK
      <4>2. QED
        BY <4>1 DEF Reply, Install
    <3>2. QED
      BY <1>2, <1>4, <2>2, <3>1 DEF OrderInv, ReplyOrder, Answers
  <2>18. Taken'
    <3> SUFFICES ASSUME NEW a \in Peers, NEW b \in Peers, NEW j \in Acks(a, b)', j <= Done(a)
                 PROVE  /\ \A s \in conn[b][a] : s.root # Awaited(a, b, inbox'[a][j].eph)
                        /\ \A e \in SentTo(b, a) : e.key.root # Awaited(a, b, inbox'[a][j].eph)
      BY <1>2, <1>4, <2>2, <2>4 DEF Taken
    <3>1. j \in Acks(a, b) /\ inbox'[a][j] = inbox[a][j]
      BY <1>r, <1>3, <2>6, <2>a DEF Numbers
    <3>2. QED
      BY <3>1 DEF OrderInv, Taken
  <2>19. QED
    BY <2>8, <2>9, <2>10, <2>11, <2>12, <2>13, <2>14, <2>15, <2>16, <2>17, <2>18 DEF OrderInv
<1>7. QED
  BY <1>2, <1>5, <1>6

\* Who is to be told of a row, or joined, is an account.
LEMMA TaskTypes ==
  ASSUME TypeInv, NEW p \in Peers, NEW i \in task[p]
  PROVE  i.to \in Peers /\ i.to # p
<1>1. i \in Reply \cup Install
  BY DEF TypeInv, TypeOK
<1>2. QED
  BY <1>1 DEF TypeInv, Shape, Reply, Install

LEMMA OnHelloAckOrder ==
  ASSUME TypeInv, TypeInv', OrderInv, NEW p \in Peers, OnHelloAck(p)
  PROVE  OrderInv'
<1>r. Numbers
  BY TypedNumbers
<1> DEFINE q == NextRow(p).from
           i == [do |-> "install", to |-> q,
                 session |-> NewSession(p, q, TRUE, pending[p][q], NextRow(p).eph)]
           next == got[p] + 1
<1>1. /\ q \in Peers /\ NextRow(p).eph \in Ephs /\ NextRow(p).type = "hello_ack"
      /\ Receives(p, "hello_ack")
  BY RowType DEF OnHelloAck, Hello, Msg
<1>2. /\ UNCHANGED <<offers, conn, ephs, inbox, out, shown>>
      /\ \/ /\ pending[p][q] = NoEph /\ UNCHANGED <<pending, task>>
            /\ got' = [got EXCEPT ![p] = @ + 1]
         \/ /\ pending[p][q] # NoEph /\ got' = got
            /\ pending' = [pending EXCEPT ![p][q] = NoEph]
            /\ task' = [task EXCEPT ![p] = {i}]
  BY DEF OnHelloAck, Handled, history, relay
<1>3. /\ next \in Acks(p, q) /\ inbox[p][next] = NextRow(p)
      /\ task[p] = {} /\ Done(p) = got[p]
      /\ \A j \in DOMAIN inbox[p] : j <= next => j <= Done(p) \/ j = next
  BY <1>1, NextDone DEF Acks
<1>4. CASE /\ pending[p][q] = NoEph /\ UNCHANGED <<pending, task>>
           /\ got' = [got EXCEPT ![p] = @ + 1]
  <2>1. \A a, b \in Peers : \A s \in conn'[a][b] : \E t \in conn[a][b] : s.root = t.root /\ t.recv <= s.recv
    BY <1>r, <1>2 DEF Numbers
  <2>2. QED
    BY <1>1, <1>2, <1>4, <2>1, PassedOrder
<1>5. CASE /\ pending[p][q] # NoEph /\ got' = got
           /\ pending' = [pending EXCEPT ![p][q] = NoEph]
           /\ task' = [task EXCEPT ![p] = {i}]
  <2>1. /\ i.do = "install" /\ i.to = q
        /\ i.session.root = Awaited(p, q, inbox[p][next].eph)
        /\ i.session.root = [init |-> p, resp |-> q, ie |-> pending[p][q], re |-> NextRow(p).eph]
    BY <1>3 DEF NewSession, Awaited, RootKey
  <2> HIDE DEF i
  <2>2. /\ task'[p] = {i} /\ \A a \in Peers : a # p => task'[a] = task[a]
        /\ pending'[p][q] = NoEph
        /\ \A a, b \in Peers : ~(a = p /\ b = q) => pending'[a][b] = pending[a][b]
    BY <1>1, <1>5 DEF TypeInv, TypeOK
  <2>3. /\ Done(p)' = next /\ \A a \in Peers : a # p => Done(a)' = Done(a)
    BY <1>5, <2>2 DEF Done
  <2> HIDE DEF q, next
  <2>4. \A a, b \in Peers : /\ SentTo(a, b)' = SentTo(a, b)
                            /\ Acks(a, b)' = Acks(a, b) /\ Msgs(a, b)' = Msgs(a, b)
    BY <1>2 DEF SentTo, Acks, Msgs
  <2>5. \A a, b, n : Newer(a, b, n)' <=> Newer(a, b, n)
    BY <1>2 DEF Newer
  \* No root key was made without a hello.
  <2>6. ASSUME NEW a \in Peers, NEW b \in Peers, NEW re, NEW root \in Root, root.ie \in Ephs,
               root = Awaited(a, b, re)'
        PROVE  ~(a = p /\ b = q) /\ root = Awaited(a, b, re)
    BY <2>2, <2>6 DEF Awaited, RootKey, Ephs
  <2>7. \A a, b \in Peers : \A e \in SentTo(b, a) : e.key.root \in Root /\ e.key.root.ie \in Ephs
    BY <1>r DEF Numbers, SentTo
  <2>8. Fresh'
    <3>1. \A root : Generated(root)' <=> Generated(root)
      BY <1>2 DEF Generated
    <3>2. Generated(i.session.root)
      <4>1. pending[p][q] <= ephs /\ NextRow(p).eph <= ephs
        BY <1>1, <1>3 DEF OrderInv, Fresh, Acks
      <4>2. QED
        BY <2>1, <4>1 DEF Generated
    <3>3. \A a, b \in Peers : pending'[a][b] <= ephs
      BY <1>r, <2>2 DEF OrderInv, Fresh, NoEph, Numbers
    <3>4. \A a \in Peers : \A t \in task'[a] :
            /\ t.do = "install" => Generated(t.session.root)
            /\ t.do = "reply" => t.eph <= ephs
      BY <2>1, <2>2, <3>2 DEF OrderInv, Fresh
    <3>5. QED
      BY <1>2, <3>1, <3>3, <3>4 DEF OrderInv, Fresh
  <2>9. InstallsOwn'
    BY <2>1, <2>2 DEF OrderInv, InstallsOwn
  <2>10. Counted' /\ Monotone' /\ Unique' /\ RowsSent'
    BY <1>2, <2>4 DEF OrderInv, Counted, Monotone, Unique, RowsSent
  <2>11. ShownSent'
    <3> SUFFICES ASSUME NEW a \in Peers, NEW b \in Peers, NEW k \in DOMAIN shown[a][b]
                 PROVE  \E e \in SentTo(b, a) : e.n = shown[a][b][k] /\ Own(a, e.key.root) # pending'[a][b]
      BY <1>2, <2>4 DEF ShownSent
    <3>1. PICK e \in SentTo(b, a) : e.n = shown[a][b][k] /\ Own(a, e.key.root) # pending[a][b]
      BY DEF OrderInv, ShownSent
    <3>2. Own(a, e.key.root) # NoEph
      BY <1>r DEF Numbers, SentTo, Own, Ephs
    <3>3. QED
      BY <2>2, <3>1, <3>2
  <2>12. Expected'
    BY <1>2, <2>4, <2>5 DEF OrderInv, Expected
  <2>13. ToInstall'
    <3> SUFFICES ASSUME NEW a \in Peers, NEW t \in task'[a], t.do = "install",
                        NEW e \in SentTo(t.to, a), e.key.root = t.session.root
                 PROVE  Newer(a, t.to, e.n)
      <4>1. \A a \in Peers : \A t \in task'[a] : t.to \in Peers
        BY <1>1, <2>1, <2>2, TaskTypes
      <4>2. QED
        BY <2>4, <2>5, <4>1 DEF ToInstall
    <3>1. CASE a = p
      <4>1. t = i
        BY <2>2, <3>1
      <4>2. e \in SentTo(q, p) /\ e.key.root = Awaited(p, q, inbox[p][next].eph)
        BY <2>1, <3>1, <4>1
      <4>3. Newer(p, q, e.n)
        BY <1>1, <1>3, <4>2 DEF OrderInv, AwaitedNewer
      <4>4. QED
        BY <2>1, <3>1, <4>1, <4>3
    <3>2. CASE a # p
      BY <2>2, <3>2 DEF OrderInv, ToInstall
    <3>3. QED
      BY <3>1, <3>2
  <2>14. AwaitedNewer'
    <3> SUFFICES ASSUME NEW a \in Peers, NEW b \in Peers, NEW j \in Acks(a, b), NEW e \in SentTo(b, a),
                        NEW re, re = inbox[a][j].eph, e.key.root = Awaited(a, b, re)'
                 PROVE  Newer(a, b, e.n)
      BY <1>2, <2>4, <2>5 DEF AwaitedNewer
    <3>1. e.key.root = Awaited(a, b, re)
      BY <2>6, <2>7
    <3>2. QED
      BY <3>1 DEF OrderInv, AwaitedNewer
  <2>15. AckOrder'
    BY <1>2, <2>4 DEF OrderInv, AckOrder, Answers
  <2>16. ReplyOrder'
    <3> SUFFICES ASSUME NEW a \in Peers, NEW t \in task'[a], t.do = "reply"
                 PROVE  /\ \A s \in conn[a][t.to] : Answers(s.root, a, t.eph)
                        /\ \A e, f \in SentTo(a, t.to)' :
                             Answers(e.key.root, a, t.eph) /\ ~Answers(f.key.root, a, t.eph) => f.n < e.n
      BY <1>2 DEF ReplyOrder, Answers
    <3>1. t \in task[a] /\ t.to \in Peers
      BY <2>1, <2>2, TaskTypes
    <3>2. QED
      BY <2>4, <3>1 DEF OrderInv, ReplyOrder
  <2>17. Taken'
    <3> SUFFICES ASSUME NEW a \in Peers, NEW b \in Peers, NEW j \in Acks(a, b), j <= Done(a)',
                        NEW re, re = inbox[a][j].eph
                 PROVE  /\ \A s \in conn[b][a] : s.root # Awaited(a, b, re)'
                        /\ \A e \in SentTo(b, a) : e.key.root # Awaited(a, b, re)'
      BY <1>2, <2>4 DEF Taken
    <3>1. (a = p /\ b = q) \/ j <= Done(a)
      BY <1>3, <2>3 DEF Acks, q
    <3>2. \A s \in conn[b][a] : s.root \in Root /\ s.root.ie \in Ephs
      BY <1>r DEF Numbers
    <3>3. j <= Done(a) => /\ \A s \in conn[b][a] : s.root # Awaited(a, b, re)
                          /\ \A e \in SentTo(b, a) : e.key.root # Awaited(a, b, re)
      BY DEF OrderInv, Taken
    <3>4. QED
      BY <2>6, <2>7, <3>1, <3>2, <3>3
  <2>18. QED
    BY <2>8, <2>9, <2>10, <2>11, <2>12, <2>13, <2>14, <2>15, <2>16, <2>17 DEF OrderInv
<1>6. QED
  BY <1>2, <1>4, <1>5

LEMMA EachRowType ==
  ASSUME TypeInv, NEW p \in Peers, NEW j \in DOMAIN inbox[p]
  PROVE  /\ inbox[p][j] \in Hello \cup Msg
         /\ inbox[p][j].type # "msg" => inbox[p][j].eph \in Ephs
<1> DEFINE S == Hello \cup Msg
<1>1. inbox[p] \in Seq(S)
  BY DEF TypeInv, TypeOK
<1> HIDE DEF S
<1>2. inbox[p][j] \in S
  BY <1>1
<1>3. QED
  BY <1>2 DEF S, Hello, Msg

LEMMA RegisterSessionOrder ==
  ASSUME TypeInv, TypeInv', OrderInv, NEW p \in Peers, RegisterSession(p)
  PROVE  OrderInv'
<1>r. Numbers
  BY TypedNumbers
<1>1. PICK i \in task[p] :
        i.do = "install" /\ conn' = [conn EXCEPT ![p][i.to] = {i.session}]
  BY DEF RegisterSession
<1> DEFINE q == i.to
           s == i.session
<1>2. /\ UNCHANGED <<offers, pending, ephs, inbox, out, shown>>
      /\ task' = [task EXCEPT ![p] = {}]
      /\ got' = [got EXCEPT ![p] = @ + 1]
  BY DEF RegisterSession, Handled, history
<1>3. q \in Peers /\ q # p /\ s \in Session
  BY <1>1, TaskTypes, KeyTypes DEF TypeInv
<1>4. s.root.init = p /\ s.root.resp = q /\ Generated(s.root)
  BY <1>1 DEF OrderInv, InstallsOwn, Fresh
<1>5. conn' = [conn EXCEPT ![p][q] = {s}]
  BY <1>1
<1>6. \A a \in Peers : task'[a] \subseteq task[a] /\ Done(a)' = Done(a)
  <2>1. \A a \in Peers : IF a = p THEN task'[a] = {} /\ got'[a] = got[a] + 1
                                  ELSE task'[a] = task[a] /\ got'[a] = got[a]
    BY <1>2, Tables
  <2>2. QED
    BY <1>1, <2>1 DEF Done
<1>7. \A e \in SentTo(q, p) : e.key.root = s.root => Newer(p, q, e.n)
  BY <1>1 DEF OrderInv, ToInstall
<1>8. task'[p] = {}
  BY <1>2 DEF TypeInv, TypeOK
<1> HIDE DEF q, s
<1>9. \A a, b \in Peers : conn'[a][b] = IF a = p /\ b = q THEN {s} ELSE conn[a][b]
  <2>1. conn \in [Peers -> [Peers -> SUBSET Session]]
    BY Tables
  <2>2. QED
    BY <1>3, <1>5, <2>1
<1>10. \A a, b \in Peers : /\ SentTo(a, b)' = SentTo(a, b)
                           /\ Acks(a, b)' = Acks(a, b) /\ Msgs(a, b)' = Msgs(a, b)
  BY <1>2 DEF SentTo, Acks, Msgs
<1>11. \A a, b, n : Newer(a, b, n)' <=> Newer(a, b, n)
  BY <1>2 DEF Newer
<1>12. Fresh'
  <2>1. \A root : Generated(root)' <=> Generated(root)
    BY <1>2 DEF Generated
  <2>2. \A a, b \in Peers : \A t \in conn'[a][b] : Generated(t.root)
    BY <1>4, <1>9 DEF OrderInv, Fresh
  <2>3. QED
    BY <1>2, <1>6, <2>1, <2>2 DEF OrderInv, Fresh
<1>13. InstallsOwn'
  BY <1>6 DEF OrderInv, InstallsOwn
<1>14. Counted' /\ Monotone' /\ RowsSent' /\ ShownSent' /\ AckOrder'
  BY <1>2, <1>10 DEF OrderInv, Counted, Monotone, RowsSent, ShownSent, AckOrder, Answers
<1>15. AwaitedNewer'
  <2>1. \A a, b, re : Awaited(a, b, re)' = Awaited(a, b, re)
    BY <1>2 DEF Awaited, RootKey
  <2>2. QED
    BY <1>2, <1>10, <1>11, <2>1 DEF OrderInv, AwaitedNewer
\* The session is not its owner's answer.
<1>16. Unique'
  <2> SUFFICES ASSUME NEW a \in Peers, NEW b \in Peers, NEW e \in SentTo(b, a), e.key.root.resp = b,
                      NEW t \in conn'[b][a], Answers(t.root, b, e.key.root.re)
               PROVE  t.root = e.key.root
    BY <1>10 DEF OrderInv, Unique, Answers
  <2>1. t \in conn[b][a]
    BY <1>3, <1>4, <1>9 DEF Answers
  <2>2. QED
    BY <2>1 DEF OrderInv, Unique
<1>17. Expected'
  <2> SUFFICES ASSUME NEW a \in Peers, NEW b \in Peers, NEW t \in conn'[a][b], NEW e \in SentTo(b, a),
                      e.key.root = t.root, e.key.index >= t.recv
               PROVE  Newer(a, b, e.n)
    BY <1>10, <1>11 DEF Expected
  <2>1. CASE a = p /\ b = q
    BY <1>7, <1>9, <2>1
  <2>2. CASE ~(a = p /\ b = q)
    BY <1>9, <2>2 DEF OrderInv, Expected
  <2>3. QED
    BY <2>1, <2>2
<1>18. ToInstall'
  <2>1. \A a \in Peers : \A t \in task[a] : t.to \in Peers
    BY TaskTypes
  <2>2. QED
    BY <1>6, <1>10, <1>11, <2>1 DEF OrderInv, ToInstall
<1>19. ReplyOrder'
  <2> SUFFICES ASSUME NEW a \in Peers, NEW t \in task'[a], t.do = "reply"
               PROVE  /\ \A u \in conn'[a][t.to] : Answers(u.root, a, t.eph)
                      /\ \A e, f \in SentTo(a, t.to)' :
                           Answers(e.key.root, a, t.eph) /\ ~Answers(f.key.root, a, t.eph) => f.n < e.n
    BY DEF ReplyOrder, Answers
  <2>1. a # p /\ t \in task[a] /\ t.to \in Peers
    BY <1>6, <1>8, TaskTypes
  <2>2. conn'[a][t.to] = conn[a][t.to] /\ SentTo(a, t.to)' = SentTo(a, t.to)
    BY <1>9, <1>10, <2>1
  <2>3. QED
    BY <2>1, <2>2 DEF OrderInv, ReplyOrder
<1>20. Taken'
  <2> SUFFICES ASSUME NEW a \in Peers, NEW b \in Peers, NEW j \in Acks(a, b), j <= Done(a),
                      NEW re, re = inbox[a][j].eph
               PROVE  /\ \A t \in conn'[b][a] : t.root # Awaited(a, b, re)
                      /\ \A e \in SentTo(b, a) : e.key.root # Awaited(a, b, re)
    BY <1>2, <1>6, <1>10 DEF Taken, Awaited, RootKey
  <2>1. /\ \A t \in conn[b][a] : t.root # Awaited(a, b, re)
        /\ \A e \in SentTo(b, a) : e.key.root # Awaited(a, b, re)
    BY DEF OrderInv, Taken
  <2>2. CASE b = p /\ a = q
    BY <1>3, <1>4, <1>9, <2>1, <2>2 DEF Awaited, RootKey
  <2>3. CASE ~(b = p /\ a = q)
    BY <1>9, <2>1, <2>3
  <2>4. QED
    BY <2>2, <2>3
<1>21. QED
  BY <1>12, <1>13, <1>14, <1>15, <1>16, <1>17, <1>18, <1>19, <1>20 DEF OrderInv

LEMMA OnHelloOrder ==
  ASSUME TypeInv, TypeInv', OrderInv, NEW p \in Peers, OnHello(p)
  PROVE  OrderInv'
<1>r. Numbers
  BY TypedNumbers
<1> DEFINE q == NextRow(p).from
           next == got[p] + 1
<1>1. /\ q \in Peers /\ q # p /\ NextRow(p).eph \in Ephs /\ NextRow(p).type = "hello"
      /\ Receives(p, "hello")
  BY RowType DEF OnHello, Hello, Msg
<1>2. /\ UNCHANGED <<offers, pending, inbox, got, out, shown>>
      /\ ephs' = ephs + 1
      /\ conn' = [conn EXCEPT ![p][q] = {NewSession(p, q, FALSE, ephs', NextRow(p).eph)}]
      /\ task' = [task EXCEPT ![p] = {[do |-> "reply", to |-> q, eph |-> ephs']}]
  BY DEF OnHello, history, relay
<1>3. /\ next \in DOMAIN inbox[p] /\ inbox[p][next] = NextRow(p)
      /\ task[p] = {} /\ Done(p) = got[p]
      /\ \A j \in DOMAIN inbox[p] : j <= next => j <= Done(p) \/ j = next
  BY <1>1, NextDone
<1>4. ephs \in Nat /\ ephs' \in Ephs /\ ephs < ephs'
  BY <1>r, <1>2 DEF Numbers, Ephs, NoEph
<1>5. PICK s \in Session : /\ s.root = [init |-> q, resp |-> p, ie |-> NextRow(p).eph, re |-> ephs']
                           /\ conn' = [conn EXCEPT ![p][q] = {s}]
  BY <1>1, <1>2, <1>4, RootType DEF NewSession, RootKey
<1>6. NextRow(p).eph <= ephs
  BY <1>1, <1>3 DEF OrderInv, Fresh
<1>7. PICK r : /\ r.do = "reply" /\ r.to = q /\ r.eph = ephs'
               /\ task' = [task EXCEPT ![p] = {r}]
  BY <1>2
<1> HIDE DEF q
<1>8. \A a, b \in Peers : conn'[a][b] = IF a = p /\ b = q THEN {s} ELSE conn[a][b]
  <2>1. conn \in [Peers -> [Peers -> SUBSET Session]]
    BY Tables
  <2>2. QED
    BY <1>1, <1>5, <2>1
<1>9. task'[p] = {r} /\ \A a \in Peers : a # p => task'[a] = task[a]
  BY <1>7 DEF TypeInv, TypeOK
<1>10. Done(p)' = next /\ \A a \in Peers : a # p => Done(a)' = Done(a)
  BY <1>2, <1>9 DEF Done
<1> HIDE DEF next
<1>11. \A a, b \in Peers : /\ SentTo(a, b)' = SentTo(a, b)
                           /\ Acks(a, b)' = Acks(a, b) /\ Msgs(a, b)' = Msgs(a, b)
  BY <1>2 DEF SentTo, Acks, Msgs
<1>12. \A a, b, n : Newer(a, b, n)' <=> Newer(a, b, n)
  BY <1>2 DEF Newer
<1>13. \A a, b, re : Awaited(a, b, re)' = Awaited(a, b, re)
  BY <1>2 DEF Awaited, RootKey
\* Nothing was sent under a key made with an answer that is just generated.
<1>14. \A e \in out : e.key.root.re # ephs'
  BY <1>r, <1>4 DEF Numbers, OrderInv, Fresh, Generated, Ephs
<1>15. \A a, b \in Peers : \A e \in SentTo(a, b) : e \in out
  BY DEF SentTo
<1>16. Fresh'
  <2>1. \A n \in Nat : n <= ephs => n <= ephs'
    BY <1>4 DEF Ephs
  <2>2. \A root : root.ie \in Nat /\ root.re \in Nat /\ Generated(root) => Generated(root)'
    BY <2>1 DEF Generated
  <2>3. Generated(s.root)'
    BY <1>1, <1>4, <1>5, <1>6, <2>1 DEF Generated, Ephs
  <2>4. ASSUME NEW a \in Peers, NEW b \in Peers
        PROVE  pending'[a][b] <= ephs' /\ \A eph \in offers'[a][b] : eph <= ephs'
    <3>1. \A eph \in offers[a][b] : eph \in Nat
      BY DEF TypeInv, TypeOK, Ephs
    <3>2. QED
      BY <1>r, <1>2, <2>1, <3>1 DEF Numbers, OrderInv, Fresh
  <2>5. ASSUME NEW a \in Peers, NEW b \in Peers, NEW t \in conn'[a][b]
        PROVE  Generated(t.root)'
    <3>1. CASE t \in conn[a][b]
      BY <1>r, <2>2, <3>1 DEF Numbers, OrderInv, Fresh, Ephs
    <3>2. QED
      BY <1>8, <2>3, <3>1
  <2>6. ASSUME NEW a \in Peers, NEW t \in task'[a]
        PROVE  /\ (t.do = "install" => Generated(t.session.root)')
               /\ (t.do = "reply" => t.eph <= ephs')
    <3>1. CASE a = p
      BY <1>4, <1>7, <1>9, <3>1 DEF Ephs
    <3>2. CASE a # p
      <4>1. t \in task[a] /\ t \in Reply \cup Install
        BY <1>9, <3>2 DEF TypeInv, TypeOK
      <4>2. t.do = "reply" => t.eph \in Nat
        BY <4>1 DEF Reply, Install, Ephs
      <4>3. t.do = "install" => t.session.root \in Root
        BY <4>1 DEF Reply, Install, Session
      <4>4. t.do = "install" => t.session.root.ie \in Nat /\ t.session.root.re \in Nat
        BY <4>3 DEF Root, Ephs
      <4>5. QED
        BY <2>1, <2>2, <4>1, <4>2, <4>4 DEF OrderInv, Fresh
    <3>3. QED
      BY <3>1, <3>2
  <2>7. ASSUME NEW a \in Peers, NEW j \in DOMAIN inbox[a], inbox[a][j].type # "msg"
        PROVE  inbox[a][j].eph <= ephs'
    <3>1. inbox[a][j].eph \in Nat
      BY <2>7, EachRowType DEF Ephs
    <3>2. QED
      BY <2>1, <2>7, <3>1 DEF OrderInv, Fresh
  <2>8. \A e \in out : Generated(e.key.root)'
    BY <1>r, <2>2 DEF Numbers, OrderInv, Fresh, Ephs
  <2>9. QED
    BY <1>2, <2>4, <2>5, <2>6, <2>7, <2>8 DEF Fresh
<1>17. InstallsOwn'
  BY <1>7, <1>9 DEF OrderInv, InstallsOwn
<1>18. Counted' /\ Monotone' /\ RowsSent' /\ ShownSent' /\ AckOrder'
  BY <1>2, <1>11 DEF OrderInv, Counted, Monotone, RowsSent, ShownSent, AckOrder, Answers
<1>19. AwaitedNewer'
  BY <1>2, <1>11, <1>12, <1>13 DEF OrderInv, AwaitedNewer
<1>20. Unique'
  <2> SUFFICES ASSUME NEW a \in Peers, NEW b \in Peers, NEW e \in SentTo(b, a), e.key.root.resp = b,
                      NEW t \in conn'[b][a], Answers(t.root, b, e.key.root.re)
               PROVE  t.root = e.key.root
    BY <1>11 DEF OrderInv, Unique, Answers
  <2>1. t \in conn[b][a]
    BY <1>5, <1>8, <1>14, <1>15 DEF Answers
  <2>2. QED
    BY <2>1 DEF OrderInv, Unique
<1>21. Expected'
  <2> SUFFICES ASSUME NEW a \in Peers, NEW b \in Peers, NEW t \in conn'[a][b], NEW e \in SentTo(b, a),
                      e.key.root = t.root, e.key.index >= t.recv
               PROVE  Newer(a, b, e.n)
    BY <1>11, <1>12 DEF Expected
  <2>1. t \in conn[a][b]
    BY <1>5, <1>8, <1>14, <1>15
  <2>2. QED
    BY <2>1 DEF OrderInv, Expected
<1>22. ToInstall'
  <2> SUFFICES ASSUME NEW a \in Peers, NEW t \in task'[a], t.do = "install",
                      NEW e \in SentTo(t.to, a)', e.key.root = t.session.root
               PROVE  Newer(a, t.to, e.n)
    BY <1>12 DEF ToInstall
  <2>1. t \in task[a] /\ t.to \in Peers
    BY <1>7, <1>9, TaskTypes
  <2>2. QED
    BY <1>11, <2>1 DEF OrderInv, ToInstall
<1>23. ReplyOrder'
  <2> SUFFICES ASSUME NEW a \in Peers, NEW t \in task'[a], t.do = "reply"
               PROVE  /\ \A u \in conn'[a][t.to] : Answers(u.root, a, t.eph)
                      /\ \A e, f \in SentTo(a, t.to)' :
                           Answers(e.key.root, a, t.eph) /\ ~Answers(f.key.root, a, t.eph) => f.n < e.n
    BY DEF ReplyOrder, Answers
  <2>1. CASE a = p
    <3>1. t.to = q /\ t.eph = ephs'
      BY <1>7, <1>9, <2>1
    <3>2. \A u \in conn'[a][t.to] : Answers(u.root, a, t.eph)
      BY <1>1, <1>5, <1>8, <2>1, <3>1 DEF Answers
    <3>3. \A e \in SentTo(a, t.to)' : ~Answers(e.key.root, a, t.eph)
      BY <1>1, <1>11, <1>14, <1>15, <2>1, <3>1 DEF Answers
    <3>4. QED
      BY <3>2, <3>3
  <2>2. CASE a # p
    <3>1. t \in task[a] /\ t.to \in Peers
      BY <1>9, <2>2, TaskTypes
    <3>2. conn'[a][t.to] = conn[a][t.to] /\ SentTo(a, t.to)' = SentTo(a, t.to)
      BY <1>8, <1>11, <2>2, <3>1
    <3>3. QED
      BY <3>1, <3>2 DEF OrderInv, ReplyOrder
  <2>3. QED
    BY <2>1, <2>2
<1>24. Taken'
  <2> SUFFICES ASSUME NEW a \in Peers, NEW b \in Peers, NEW j \in Acks(a, b), j <= Done(a)',
                      NEW re, re = inbox[a][j].eph
               PROVE  /\ \A t \in conn'[b][a] : t.root # Awaited(a, b, re)
                      /\ \A e \in SentTo(b, a) : e.key.root # Awaited(a, b, re)
    BY <1>2, <1>11, <1>13 DEF Taken
  <2>1. j <= Done(a)
    BY <1>1, <1>3, <1>10 DEF Acks
  <2>2. /\ \A t \in conn[b][a] : t.root # Awaited(a, b, re)
        /\ \A e \in SentTo(b, a) : e.key.root # Awaited(a, b, re)
    BY <2>1 DEF OrderInv, Taken
  <2>3. re # ephs'
    <3>1. re \in Nat /\ re <= ephs
      BY EachRowType DEF Ephs, OrderInv, Fresh, Acks
    <3>2. QED
      BY <1>4, <3>1 DEF Ephs
  <2>4. s.root # Awaited(a, b, re)
    BY <1>5, <2>3 DEF Awaited, RootKey
  <2>5. QED
    BY <1>8, <2>2, <2>4
<1>25. QED
  BY <1>16, <1>17, <1>18, <1>19, <1>20, <1>21, <1>22, <1>23, <1>24 DEF OrderInv

\* The message in a row, if the session there is decrypts it, was sent and is
\* newer than all that was shown.
LEMMA RowIsNewer ==
  ASSUME TypeInv, OrderInv, NEW p \in Peers, NEW q \in Peers, Receives(p, "msg"),
         NextRow(p).from = q, NEW s \in conn[p][q],
         NextRow(p).key = MessageKey(s.root, q, s.recv)
  PROVE  \E g \in SentTo(q, p) :
           /\ g.key = NextRow(p).key /\ g.n = NextRow(p).n
           /\ g.n \in 1..Cardinality(SentTo(q, p)) /\ Newer(p, q, g.n)
<1>r. Numbers
  BY TypedNumbers
<1>1. got[p] + 1 \in Msgs(p, q) /\ NextRow(p) = inbox[p][got[p] + 1]
  BY NextDone DEF Receives, Msgs
<1>2. PICK g \in SentTo(q, p) : g.key = NextRow(p).key /\ g.n = NextRow(p).n
  BY <1>1 DEF OrderInv, RowsSent
<1>3. g.n \in 1..Cardinality(SentTo(q, p))
  BY DEF OrderInv, Counted
<1>4. g.key.root = s.root /\ g.key.index = s.recv /\ s.recv \in Nat
  BY <1>r, <1>2 DEF MessageKey, Numbers
<1>5. g.key.index >= s.recv
  BY <1>4
<1>6. Newer(p, q, g.n)
  BY <1>4, <1>5 DEF OrderInv, Expected
<1>7. QED
  BY <1>2, <1>3, <1>6

LEMMA OnMsgOrder ==
  ASSUME TypeInv, TypeInv', KeyInv, OrderInv, NEW p \in Peers, OnMsg(p)
  PROVE  OrderInv'
<1>r. Numbers
  BY TypedNumbers
<1> DEFINE next == got[p] + 1
<1>1. PICK q \in Peers : /\ q = NextRow(p).from /\ q # p
                        /\ Receives(p, "msg") /\ NextRow(p).type = "msg"
  BY RowType DEF OnMsg
<1>2. /\ UNCHANGED <<offers, task, pending, ephs, inbox, out>>
      /\ \/ got' = [got EXCEPT ![p] = @ + 1] /\ UNCHANGED <<conn, shown>>
         \/ \E s \in conn[p][q] :
              /\ conn' = [conn EXCEPT ![p][q] = {Advanced(s)}]
              /\ \/ UNCHANGED <<shown, got>>
                 \/ /\ NextRow(p).key = MessageKey(s.root, q, s.recv)
                    /\ shown' = [shown EXCEPT ![p][q] = Append(@, NextRow(p).n)]
                    /\ got' = [got EXCEPT ![p] = @ + 1]
  BY <1>1 DEF OnMsg, Handled, relay
<1>3. CASE got' = [got EXCEPT ![p] = @ + 1] /\ UNCHANGED <<conn, shown>>
  <2>1. \A a, b \in Peers : \A s \in conn'[a][b] : \E t \in conn[a][b] : s.root = t.root /\ t.recv <= s.recv
    BY <1>r, <1>3 DEF Numbers
  <2>2. QED
    BY <1>1, <1>2, <1>3, <2>1, PassedOrder
<1>4. ASSUME NEW s \in conn[p][q]
      PROVE  \E t \in Session : /\ t = Advanced(s) /\ t.root = s.root
                                /\ t.recv = s.recv + 1 /\ s.recv \in Nat
  <2>1. s \in Session
    BY <1>1, KeyTypes DEF TypeInv
  <2>2. /\ Advanced(s) \in Session
        /\ Advanced(s).root = s.root /\ Advanced(s).recv = s.recv + 1 /\ s.recv \in Nat
    BY <2>1 DEF Advanced, Session
  <2>3. QED
    BY <2>2
<1>5. ASSUME NEW s \in conn[p][q], conn' = [conn EXCEPT ![p][q] = {Advanced(s)}],
             UNCHANGED <<shown, got>>
      PROVE  OrderInv'
  <2>0. PICK t \in Session : /\ t = Advanced(s) /\ t.root = s.root
                          /\ t.recv = s.recv + 1 /\ s.recv \in Nat
    BY <1>4
  <2>1. conn' = [conn EXCEPT ![p][q] = {t}]
    BY <1>5, <2>0
  <2>2. /\ \A a, b \in Peers : conn'[a][b] = IF a = p /\ b = q THEN {t} ELSE conn[a][b]
        /\ t.root = s.root /\ t.recv = s.recv + 1 /\ s.recv \in Nat
    <3>1. conn \in [Peers -> [Peers -> SUBSET Session]]
      BY Tables
    <3>2. QED
      BY <1>1, <2>0, <2>1, <3>1
  <2>3. ASSUME NEW a \in Peers, NEW b \in Peers, NEW u \in conn'[a][b]
        PROVE  \E v \in conn[a][b] : u.root = v.root /\ v.recv <= u.recv
    <3>1. CASE a = p /\ b = q
      BY <2>2, <3>1
    <3>2. CASE ~(a = p /\ b = q)
      BY <1>r, <2>2, <3>2 DEF Numbers
    <3>3. QED
      BY <3>1, <3>2
  <2>4. QED
    BY <1>1, <1>2, <1>5, <2>3, PassedOrder
<1>6. ASSUME NEW s \in conn[p][q], conn' = [conn EXCEPT ![p][q] = {Advanced(s)}],
             NextRow(p).key = MessageKey(s.root, q, s.recv),
             shown' = [shown EXCEPT ![p][q] = Append(@, NextRow(p).n)],
             got' = [got EXCEPT ![p] = @ + 1]
      PROVE  OrderInv'
  <2>0. PICK t \in Session : /\ t = Advanced(s) /\ t.root = s.root
                          /\ t.recv = s.recv + 1 /\ s.recv \in Nat
    BY <1>4
  <2>a. conn' = [conn EXCEPT ![p][q] = {t}]
    BY <1>6, <2>0
  <2>b. /\ \A a, b \in Peers : conn'[a][b] = IF a = p /\ b = q THEN {t} ELSE conn[a][b]
        /\ t.root = s.root /\ t.recv = s.recv + 1 /\ s.recv \in Nat
    <3>1. conn \in [Peers -> [Peers -> SUBSET Session]]
      BY Tables
    <3>2. QED
      BY <1>1, <2>0, <2>a, <3>1
  <2>1. \A a, b \in Peers : \A u \in conn'[a][b] : \E v \in conn[a][b] : u.root = v.root
    BY <2>b
  <2>2. PICK g \in SentTo(q, p) : g.key = NextRow(p).key /\ g.n = NextRow(p).n
    BY <1>1, <1>6, RowIsNewer
  <2>3. /\ next \in Msgs(p, q) /\ inbox[p][next] = NextRow(p)
        /\ task[p] = {} /\ Done(p) = got[p] /\ got[p] \in Nat
        /\ \A j \in DOMAIN inbox[p] : j <= next => j <= Done(p) \/ j = next
    BY <1>1, NextDone DEF Msgs
  <2>4. g.key.root = s.root /\ g.key.index = s.recv
    BY <1>6, <2>2 DEF MessageKey
  <2>5. /\ Done(p)' = next /\ \A a \in Peers : a # p => Done(a)' = Done(a)
    BY <1>2, <1>6, <2>3 DEF Done, TypeInv, TypeOK
  <2>6. \A a, b \in Peers : /\ SentTo(a, b)' = SentTo(a, b)
                            /\ Acks(a, b)' = Acks(a, b) /\ Msgs(a, b)' = Msgs(a, b)
    BY <1>2 DEF SentTo, Acks, Msgs
  <2>7. \A a, b, re : Awaited(a, b, re)' = Awaited(a, b, re)
    BY <1>2 DEF Awaited, RootKey
  <2>8. /\ \A a, b \in Peers : ~(a = p /\ b = q) => shown'[a][b] = shown[a][b]
        /\ \A i \in DOMAIN shown'[p][q] :
             \/ i \in DOMAIN shown[p][q] /\ shown'[p][q][i] = shown[p][q][i]
             \/ shown'[p][q][i] = g.n
    <3>1. shown \in [Peers -> [Peers -> Seq(Nat)]] /\ g.n \in Nat
      BY <1>r DEF TypeInv, TypeOK, Numbers, SentTo
    <3>2. shown'[p][q] = Append(shown[p][q], g.n) /\ shown[p][q] \in Seq(Nat)
      BY <1>1, <1>6, <2>2, <3>1
    <3>3. \A a, b \in Peers : ~(a = p /\ b = q) => shown'[a][b] = shown[a][b]
      BY <1>1, <1>6, <3>1
    <3>4. QED
      BY <3>1, <3>2, <3>3
  <2>9. /\ \A a, b \in Peers : \A n : ~(a = p /\ b = q) => (Newer(a, b, n)' <=> Newer(a, b, n))
        /\ \A n : Newer(p, q, n) /\ g.n < n => Newer(p, q, n)'
    BY <2>8 DEF Newer
  <2>10. /\ Own(p, s.root) # pending[p][q] /\ Own(p, s.root) \in Ephs
    <3>1. Own(p, s.root) \in Ephs
      BY <1>1, <1>r DEF Numbers, Own
    <3>2. QED
      BY <1>1, <3>1 DEF KeyInv, Offered, Ephs
  <2>11. Fresh'
    <3>1. \A root : Generated(root)' <=> Generated(root)
      BY <1>2 DEF Generated
    <3>2. QED
      BY <1>2, <2>1, <3>1 DEF OrderInv, Fresh
  <2>12. InstallsOwn' /\ Counted' /\ Monotone' /\ RowsSent' /\ AckOrder'
    BY <1>2, <2>6 DEF OrderInv, InstallsOwn, Counted, Monotone, RowsSent, AckOrder, Answers
  <2>13. Unique'
    BY <2>1, <2>6 DEF OrderInv, Unique, Answers
  <2>14. ShownSent'
    <3> SUFFICES ASSUME NEW a \in Peers, NEW b \in Peers, NEW i \in DOMAIN shown'[a][b]
                 PROVE  \E e \in SentTo(b, a) : e.n = shown'[a][b][i] /\ Own(a, e.key.root) # pending[a][b]
      BY <1>2, <2>6 DEF ShownSent
    <3>1. CASE i \in DOMAIN shown[a][b] /\ shown'[a][b][i] = shown[a][b][i]
      BY <3>1 DEF OrderInv, ShownSent
    <3>2. CASE a = p /\ b = q /\ shown'[a][b][i] = g.n
      BY <2>4, <2>10, <3>2
    <3>3. QED
      BY <2>8, <3>1, <3>2
  <2>15. Expected'
    <3> SUFFICES ASSUME NEW a \in Peers, NEW b \in Peers, NEW u \in conn'[a][b], NEW e \in SentTo(b, a),
                        e.key.root = u.root, e.key.index >= u.recv
                 PROVE  Newer(a, b, e.n)'
      BY <2>6 DEF Expected
    <3>1. CASE a = p /\ b = q
      <4>1. u = t /\ e.key.index \in Nat
        BY <1>r, <2>b, <3>1 DEF Numbers, SentTo
      <4>2. e.key.root = s.root /\ e.key.index >= s.recv /\ s.recv < e.key.index
        BY <2>b, <4>1
      <4>3. Newer(p, q, e.n)
        BY <1>1, <3>1, <4>2 DEF OrderInv, Expected
      <4>4. g.n < e.n
        BY <1>1, <2>4, <3>1, <4>2 DEF OrderInv, Monotone
      <4>5. QED
        BY <2>9, <3>1, <4>3, <4>4
    <3>2. CASE ~(a = p /\ b = q)
      <4>1. u \in conn[a][b]
        BY <2>b, <3>2
      <4>2. QED
        BY <2>9, <3>2, <4>1 DEF OrderInv, Expected
    <3>3. QED
      BY <3>1, <3>2
  <2>16. ToInstall'
    <3> SUFFICES ASSUME NEW a \in Peers, NEW i \in task[a], i.do = "install",
                        NEW e \in SentTo(i.to, a)', e.key.root = i.session.root
                 PROVE  Newer(a, i.to, e.n)'
      BY <1>2 DEF ToInstall
    <3>1. a # p /\ i.to \in Peers
      BY <2>3, TaskTypes
    <3>2. QED
      BY <2>6, <2>9, <3>1 DEF OrderInv, ToInstall
  <2>17. AwaitedNewer'
    <3> SUFFICES ASSUME NEW a \in Peers, NEW b \in Peers, NEW j \in Acks(a, b), NEW e \in SentTo(b, a),
                        NEW re, re = inbox[a][j].eph, e.key.root = Awaited(a, b, re)
                 PROVE  Newer(a, b, e.n)'
      BY <1>2, <2>6, <2>7 DEF AwaitedNewer
    <3>1. Newer(a, b, e.n)
      BY DEF OrderInv, AwaitedNewer
    <3>2. CASE a = p /\ b = q
      <4>1. e.key.root.init = p /\ e.key.root.resp = q /\ e.key.root.ie = pending[p][q]
            /\ e.key.root.re = re
        BY <3>2 DEF Awaited, RootKey
      <4>2. ~(j <= Done(p))
        BY <1>1, <3>2 DEF OrderInv, Taken
      <4>3. next < j
        <5>1. j # next
          BY <2>3, <3>2 DEF Acks, Msgs
        <5>2. j \in DOMAIN inbox[p] /\ j \in Nat
          BY <1>r, <3>2 DEF Acks, Numbers
        <5>3. QED
          BY <2>3, <4>2, <5>1, <5>2
      <4>4. ~Answers(g.key.root, q, re)
        <5> SUFFICES ASSUME Answers(g.key.root, q, re) PROVE FALSE
          OBVIOUS
        <5>1. g.key.root = e.key.root
          BY <1>1, <3>2, <4>1 DEF OrderInv, Unique
        <5>2. QED
          BY <2>4, <2>10, <4>1, <5>1 DEF Own
      <4>5. g.n < e.n
        <5>1. Answers(e.key.root, q, re)
          BY <4>1 DEF Answers
        <5>2. inbox[p][next].key = g.key /\ inbox[p][next].n = g.n
          BY <2>2, <2>3
        <5>3. QED
          BY <1>1, <2>3, <3>2, <4>3, <4>4, <5>1, <5>2 DEF OrderInv, AckOrder
      <4>6. QED
        BY <2>9, <3>1, <3>2, <4>5
    <3>3. CASE ~(a = p /\ b = q)
      BY <2>9, <3>1, <3>3
    <3>4. QED
      BY <3>2, <3>3
  <2>18. ReplyOrder'
    <3> SUFFICES ASSUME NEW a \in Peers, NEW i \in task[a], i.do = "reply"
                 PROVE  /\ \A u \in conn'[a][i.to] : Answers(u.root, a, i.eph)
                        /\ \A e, f \in SentTo(a, i.to)' :
                             Answers(e.key.root, a, i.eph) /\ ~Answers(f.key.root, a, i.eph) => f.n < e.n
      BY <1>2 DEF ReplyOrder, Answers
    <3>1. i.to \in Peers
      BY TaskTypes
    <3>2. \A u \in conn'[a][i.to] : \E v \in conn[a][i.to] : u.root = v.root
      BY <2>1, <3>1
    <3>3. QED
      BY <2>6, <3>1, <3>2 DEF OrderInv, ReplyOrder, Answers
  <2>19. Taken'
    <3> SUFFICES ASSUME NEW a \in Peers, NEW b \in Peers, NEW j \in Acks(a, b), j <= Done(a)',
                        NEW re, re = inbox[a][j].eph
                 PROVE  /\ \A u \in conn'[b][a] : u.root # Awaited(a, b, re)
                        /\ \A e \in SentTo(b, a) : e.key.root # Awaited(a, b, re)
      BY <1>2, <2>6, <2>7 DEF Taken
    <3>1. j <= Done(a)
      BY <2>3, <2>5 DEF Acks, Msgs
    <3>2. QED
      BY <2>1, <3>1 DEF OrderInv, Taken
  <2>20. QED
    BY <2>11, <2>12, <2>13, <2>14, <2>15, <2>16, <2>17, <2>18, <2>19 DEF OrderInv
<1>7. QED
  BY <1>2, <1>3, <1>5, <1>6

\* What a message adds: its number is one more than any before it.
LEMMA SendAdds ==
  ASSUME TypeInv, KeyInv, NEW p \in Peers, NEW q \in Peers, SendText(p, q)
  PROVE  \E s \in conn[p][q], t \in Session, new \in [key: Key, to: Peers, n: Nat], f \in Msg :
           /\ p # q
           /\ new.key.root = s.root /\ new.key.index = s.send /\ s.send \in Nat
           /\ new.n = Cardinality(SentTo(p, q)) + 1 /\ Cardinality(SentTo(p, q)) \in Nat
           /\ t.root = s.root /\ t.recv = s.recv
           /\ conn' = [conn EXCEPT ![p][q] = {t}]
           /\ out' = out \cup {new}
           /\ f.type = "msg" /\ f.from = p /\ f.key = new.key /\ f.n = new.n
           /\ inbox' = inbox \/ inbox' = [inbox EXCEPT ![q] = Append(@, f)]
           /\ \A a, b \in Peers :
                SentTo(a, b)' = IF a = p /\ b = q THEN SentTo(p, q) \cup {new} ELSE SentTo(a, b)
           /\ Cardinality(SentTo(p, q)') = Cardinality(SentTo(p, q)) + 1
<1> DEFINE n == Cardinality(SentTo(p, q)) + 1
           key(s) == MessageKey(s.root, p, s.send)
           e(s) == [key |-> key(s), to |-> q, n |-> n]
           m(s) == [type |-> "msg", from |-> p, key |-> key(s), n |-> n]
<1>1. PICK s \in conn[p][q] :
        /\ out' = out \cup {e(s)}
        /\ conn' = [conn EXCEPT ![p][q] = {[s EXCEPT !.send = @ + 1]}]
        /\ inbox' = inbox \/ inbox' = [inbox EXCEPT ![q] = Append(@, m(s))]
  BY DEF SendText, NextIndex, SendTo, relay
<1>2. IsFiniteSet(SentTo(p, q)) /\ Cardinality(SentTo(p, q)) \in Nat /\ n \in Nat
  <2>1. SentTo(p, q) \subseteq out /\ IsFiniteSet(out)
    BY DEF SentTo, TypeInv, Shape
  <2>2. IsFiniteSet(SentTo(p, q))
    BY <2>1, FS_Subset
  <2>3. Cardinality(SentTo(p, q)) \in Nat
    BY <2>2, FS_CardinalityType
  <2>4. QED
    BY <2>2, <2>3
<1>3. s \in Session /\ s.send \in Nat /\ p # q
  BY KeyTypes DEF TypeInv, SendText
<1> DEFINE t == [s EXCEPT !.send = @ + 1]
<1>4. t \in Session /\ t.root = s.root /\ t.recv = s.recv
  BY <1>3 DEF Session
<1>5. key(s) \in Key /\ key(s).root = s.root /\ key(s).index = s.send /\ key(s).by = p
  BY <1>3 DEF MessageKey, Key, Session
<1> HIDE DEF n, key
<1>6. /\ e(s) \in [key: Key, to: Peers, n: Nat] /\ m(s) \in Msg
      /\ e(s).key = key(s) /\ e(s).to = q /\ e(s).n = n
      /\ m(s).type = "msg" /\ m(s).from = p /\ m(s).key = key(s) /\ m(s).n = n
  BY <1>2, <1>5 DEF Msg
<1> HIDE DEF e, m, t
<1>7. \A a, b \in Peers :
        SentTo(a, b)' = IF a = p /\ b = q THEN SentTo(p, q) \cup {e(s)} ELSE SentTo(a, b)
  BY <1>1, <1>5, <1>6 DEF SentTo
<1>8. e(s) \notin SentTo(p, q)
  <2>1. \A f \in SentTo(p, q) : f.key.root = s.root => f.key.index < s.send
    BY DEF KeyInv, Ahead
  <2>2. QED
    BY <1>3, <1>5, <1>6, <2>1
<1>9. Cardinality(SentTo(p, q)') = Cardinality(SentTo(p, q)) + 1
  BY <1>2, <1>7, <1>8, FS_AddElement
<1>10. conn' = [conn EXCEPT ![p][q] = {t}] /\ n = Cardinality(SentTo(p, q)) + 1
  BY <1>1 DEF t, n
<1> USE <1>4, <1>6
<1> WITNESS s \in conn[p][q], t \in Session, e(s) \in [key: Key, to: Peers, n: Nat], m(s) \in Msg
<1>11. QED
  BY <1>1, <1>2, <1>3, <1>4, <1>5, <1>6, <1>7, <1>9, <1>10

LEMMA SendTextOrder ==
  ASSUME TypeInv, TypeInv', KeyInv, OrderInv, NEW p \in Peers, NEW q \in Peers, SendText(p, q)
  PROVE  OrderInv'
<1>r. Numbers
  BY TypedNumbers
<1> DEFINE card == Cardinality(SentTo(p, q))
<1>1. PICK s \in conn[p][q], t \in Session, new \in [key: Key, to: Peers, n: Nat], f \in Msg :
        /\ p # q
        /\ new.key.root = s.root /\ new.key.index = s.send /\ s.send \in Nat
        /\ new.n = card + 1 /\ card \in Nat
        /\ t.root = s.root /\ t.recv = s.recv
        /\ conn' = [conn EXCEPT ![p][q] = {t}]
        /\ out' = out \cup {new}
        /\ f.type = "msg" /\ f.from = p /\ f.key = new.key /\ f.n = new.n
        /\ inbox' = inbox \/ inbox' = [inbox EXCEPT ![q] = Append(@, f)]
        /\ \A a, b \in Peers :
             SentTo(a, b)' = IF a = p /\ b = q THEN SentTo(p, q) \cup {new} ELSE SentTo(a, b)
        /\ Cardinality(SentTo(p, q)') = card + 1
  BY SendAdds
<1>2. UNCHANGED <<offers, task, pending, ephs, got, shown>>
  BY DEF SendText, SendTo, threads, relay
<1>3. \A a, b \in Peers : conn'[a][b] = IF a = p /\ b = q THEN {t} ELSE conn[a][b]
  <2>1. conn' = [conn EXCEPT ![p][q] = {t}]
    BY <1>1
  <2>2. conn \in [Peers -> [Peers -> SUBSET Session]]
    BY Tables
  <2>3. QED
    BY <2>1, <2>2
<1>4. \A a, b \in Peers : \A u \in conn'[a][b] : \E v \in conn[a][b] : u.root = v.root /\ u.recv = v.recv
  BY <1>1, <1>3
<1> DEFINE last == Len(inbox[q]) + 1
<1>5. /\ \A a \in Peers : \A j \in DOMAIN inbox'[a] :
           \/ j \in DOMAIN inbox[a] /\ inbox'[a][j] = inbox[a][j]
           \/ a = q /\ j = last /\ inbox'[a][j] = f
      /\ \A j \in DOMAIN inbox[q] : j < last
      /\ last \in Nat
  <2>1. last \in Nat /\ \A j \in DOMAIN inbox[q] : j < last
    <3> DEFINE S == Hello \cup Msg
    <3>1. inbox[q] \in Seq(S)
      BY DEF TypeInv, TypeOK
    <3> HIDE DEF S
    <3>2. QED
      BY <3>1
  <2> HIDE DEF last
  <2>2. CASE inbox' = inbox
    BY <2>1, <2>2
  <2>3. CASE inbox' = [inbox EXCEPT ![q] = Append(@, f)]
    BY <2>1, <2>3, LastRow DEF last
  <2>4. QED
    BY <1>1, <2>2, <2>3
<1> HIDE DEF last
<1>6. \A a, b \in Peers : \A j \in Acks(a, b)' :
        j \in Acks(a, b) /\ inbox'[a][j] = inbox[a][j]
  BY <1>1, <1>5 DEF Acks
<1>7. \A a, b \in Peers : \A j \in Msgs(a, b)' :
        \/ j \in Msgs(a, b) /\ inbox'[a][j] = inbox[a][j]
        \/ a = q /\ b = p /\ j = last /\ inbox'[a][j] = f
  BY <1>1, <1>5 DEF Msgs
<1>8. \A a, b \in Peers : \A e \in SentTo(a, b)' :
        e \in SentTo(a, b) \/ (a = p /\ b = q /\ e = new)
  BY <1>1
<1>9. \A a, b \in Peers : SentTo(a, b) \subseteq SentTo(a, b)'
  BY <1>1
<1>10. new \in SentTo(p, q)'
  BY <1>1
<1>11. \A e \in SentTo(p, q) : e.n \in 1..card /\ e.n < new.n
  BY <1>1 DEF OrderInv, Counted
<1>12. \A a, b, n : Newer(a, b, n)' <=> Newer(a, b, n)
  BY <1>2 DEF Newer
<1>13. \A a, b, re : Awaited(a, b, re)' = Awaited(a, b, re)
  BY <1>2 DEF Awaited, RootKey
<1>14. Newer(q, p, new.n)
  BY <1>11 DEF Newer, OrderInv, ShownSent
<1> HIDE DEF card
<1>15. Fresh'
  <2>1. \A root : Generated(root)' <=> Generated(root)
    BY <1>2 DEF Generated
  <2>2. \A a, b \in Peers : \A u \in conn'[a][b] : Generated(u.root)
    BY <1>4 DEF OrderInv, Fresh
  <2>3. \A a \in Peers : \A j \in DOMAIN inbox'[a] :
          inbox'[a][j].type # "msg" => inbox'[a][j].eph <= ephs
    BY <1>1, <1>5 DEF OrderInv, Fresh
  <2>4. \A e \in out' : Generated(e.key.root)
    BY <1>1 DEF OrderInv, Fresh
  <2>5. QED
    BY <1>2, <2>1, <2>2, <2>3, <2>4 DEF OrderInv, Fresh
<1>16. InstallsOwn'
  BY <1>2 DEF OrderInv, InstallsOwn
<1>17. Counted'
  <2> SUFFICES ASSUME NEW a \in Peers, NEW b \in Peers, NEW e \in SentTo(b, a)'
               PROVE  e.n \in 1..Cardinality(SentTo(b, a)')
    BY DEF Counted
  <2>1. CASE a = q /\ b = p
    BY <1>1, <1>8, <1>11, <2>1
  <2>2. CASE ~(a = q /\ b = p)
    BY <1>1, <2>2 DEF OrderInv, Counted
  <2>3. QED
    BY <2>1, <2>2
<1>18. RowsSent'
  <2> SUFFICES ASSUME NEW a \in Peers, NEW b \in Peers, NEW j \in Msgs(a, b)'
               PROVE  \E e \in SentTo(b, a)' : e.key = inbox'[a][j].key /\ e.n = inbox'[a][j].n
    BY DEF RowsSent
  <2>1. CASE j \in Msgs(a, b) /\ inbox'[a][j] = inbox[a][j]
    BY <1>9, <2>1 DEF OrderInv, RowsSent
  <2>2. CASE a = q /\ b = p /\ j = last /\ inbox'[a][j] = f
    BY <1>1, <1>10, <2>2
  <2>3. QED
    BY <1>7, <2>1, <2>2
<1>19. ShownSent'
  BY <1>2, <1>9 DEF OrderInv, ShownSent
<1>20. Monotone'
  <2> SUFFICES ASSUME NEW a \in Peers, NEW b \in Peers, NEW e \in SentTo(b, a)', NEW g \in SentTo(b, a)',
                      e.key.root = g.key.root, e.key.index < g.key.index
               PROVE  e.n < g.n
    BY DEF Monotone
  <2>1. CASE e \in SentTo(b, a) /\ g \in SentTo(b, a)
    BY <2>1 DEF OrderInv, Monotone
  <2>2. CASE e \in SentTo(b, a) /\ b = p /\ a = q /\ g = new
    BY <1>11, <2>2
  <2>3. CASE e = new
    <3>1. ~(g = new)
      BY <1>1, <2>3
    <3>2. g \in SentTo(p, q) /\ g.key.index < s.send /\ g.key.index \in Nat
      BY <1>r, <1>1, <1>8, <2>3, <3>1 DEF KeyInv, Ahead, Numbers, SentTo
    <3>3. QED
      BY <1>1, <2>3, <3>2
  <2>4. QED
    BY <1>8, <2>1, <2>2, <2>3
<1>21. Unique'
  <2> SUFFICES ASSUME NEW a \in Peers, NEW b \in Peers, NEW e \in SentTo(b, a)', e.key.root.resp = b
               PROVE  /\ \A g \in SentTo(b, a)' : Answers(g.key.root, b, e.key.root.re) => g.key.root = e.key.root
                      /\ \A u \in conn'[b][a] : Answers(u.root, b, e.key.root.re) => u.root = e.key.root
    BY DEF Unique, Answers
  <2>1. CASE e \in SentTo(b, a)
    <3>1. \A u \in conn'[b][a] : Answers(u.root, b, e.key.root.re) => u.root = e.key.root
      BY <1>4, <2>1 DEF OrderInv, Unique
    <3>2. \A g \in SentTo(b, a)' : g \in SentTo(b, a) \/ \E u \in conn[b][a] : g.key.root = u.root
      BY <1>1, <1>8
    <3>3. QED
      BY <2>1, <3>1, <3>2 DEF OrderInv, Unique
  <2>2. CASE a = q /\ b = p /\ e = new
    <3>1. e.key.root = s.root
      BY <1>1, <2>2
    <3>2. \A u \in conn'[b][a] : u.root = s.root
      BY <1>1, <1>3, <2>2
    <3>3. ASSUME NEW g \in SentTo(p, q), Answers(g.key.root, p, s.root.re) PROVE g.key.root = s.root
      <4>1. g.key.root.resp = p /\ Answers(s.root, p, g.key.root.re)
        BY <2>2, <3>1, <3>3 DEF Answers
      <4>2. QED
        BY <4>1 DEF OrderInv, Unique
    <3>4. \A g \in SentTo(b, a)' : g \in SentTo(p, q) \/ g.key.root = s.root
      BY <1>1, <1>8, <2>2
    <3>5. QED
      BY <2>2, <3>1, <3>2, <3>3, <3>4
  <2>3. QED
    BY <1>8, <2>1, <2>2
<1>22. Expected'
  <2> SUFFICES ASSUME NEW a \in Peers, NEW b \in Peers, NEW u \in conn'[a][b], NEW e \in SentTo(b, a)',
                      e.key.root = u.root, e.key.index >= u.recv
               PROVE  Newer(a, b, e.n)
    BY <1>12 DEF Expected
  <2>1. PICK v \in conn[a][b] : u.root = v.root /\ u.recv = v.recv
    BY <1>4
  <2>2. CASE e \in SentTo(b, a)
    BY <2>1, <2>2 DEF OrderInv, Expected
  <2>3. QED
    BY <1>8, <1>14, <2>2
<1>23. ToInstall'
  <2> SUFFICES ASSUME NEW a \in Peers, NEW i \in task[a], i.do = "install",
                      NEW e \in SentTo(i.to, a)', e.key.root = i.session.root
               PROVE  Newer(a, i.to, e.n)
    BY <1>2, <1>12 DEF ToInstall
  <2>1. i.to \in Peers
    BY TaskTypes
  <2>2. CASE e \in SentTo(i.to, a)
    BY <2>2 DEF OrderInv, ToInstall
  <2>3. QED
    BY <1>8, <1>14, <2>1, <2>2
<1>24. AwaitedNewer'
  <2> SUFFICES ASSUME NEW a \in Peers, NEW b \in Peers, NEW j \in Acks(a, b)', NEW e \in SentTo(b, a)',
                      e.key.root = Awaited(a, b, inbox'[a][j].eph)
               PROVE  Newer(a, b, e.n)
    BY <1>12, <1>13 DEF AwaitedNewer
  <2>1. CASE e \in SentTo(b, a)
    BY <1>6, <2>1 DEF OrderInv, AwaitedNewer
  <2>2. QED
    BY <1>8, <1>14, <2>1
<1>25. AckOrder'
  <2> SUFFICES ASSUME NEW a \in Peers, NEW b \in Peers, NEW i \in Msgs(a, b)', NEW j \in Acks(a, b)',
                      NEW e \in SentTo(b, a)', i < j,
                      ~Answers(inbox'[a][i].key.root, b, inbox'[a][j].eph),
                      Answers(e.key.root, b, inbox'[a][j].eph)
               PROVE  inbox'[a][i].n < e.n
    BY DEF AckOrder, Answers
  <2>1. j \in Acks(a, b) /\ inbox'[a][j] = inbox[a][j] /\ j \in DOMAIN inbox[a] /\ j \in Nat
    BY <1>r, <1>6 DEF Acks, Numbers
  <2>2. i \in Msgs(a, b) /\ inbox'[a][i] = inbox[a][i]
    <3>1. ~(a = q /\ i = last)
      BY <1>5, <2>1
    <3>2. QED
      BY <1>7, <3>1
  <2>3. CASE e \in SentTo(b, a)
    BY <2>1, <2>2, <2>3 DEF OrderInv, AckOrder
  <2>4. CASE a = q /\ b = p /\ e = new
    BY <1>11, <2>2, <2>4 DEF OrderInv, RowsSent
  <2>5. QED
    BY <1>8, <2>3, <2>4
<1>26. ReplyOrder'
  <2> SUFFICES ASSUME NEW a \in Peers, NEW i \in task[a], i.do = "reply"
               PROVE  /\ \A u \in conn'[a][i.to] : Answers(u.root, a, i.eph)
                      /\ \A e, g \in SentTo(a, i.to)' :
                           Answers(e.key.root, a, i.eph) /\ ~Answers(g.key.root, a, i.eph) => g.n < e.n
    BY <1>2 DEF ReplyOrder, Answers
  <2>1. i.to \in Peers
    BY TaskTypes
  <2>2. \A v \in conn[a][i.to] : Answers(v.root, a, i.eph)
    BY DEF OrderInv, ReplyOrder
  <2>3. \A u \in conn'[a][i.to] : Answers(u.root, a, i.eph)
    BY <1>4, <2>1, <2>2
  <2>4. ASSUME NEW e \in SentTo(a, i.to)', NEW g \in SentTo(a, i.to)',
               Answers(e.key.root, a, i.eph), ~Answers(g.key.root, a, i.eph)
        PROVE  g.n < e.n
    <3>1. g \in SentTo(a, i.to)
      BY <1>1, <1>8, <2>1, <2>2, <2>4
    <3>2. CASE e \in SentTo(a, i.to)
      BY <2>4, <3>1, <3>2 DEF OrderInv, ReplyOrder
    <3>3. QED
      BY <1>8, <1>11, <2>1, <3>1, <3>2
  <2>5. QED
    BY <2>3, <2>4
<1>27. Taken'
  <2> SUFFICES ASSUME NEW a \in Peers, NEW b \in Peers, NEW j \in Acks(a, b)', j <= Done(a)
               PROVE  /\ \A u \in conn'[b][a] : u.root # Awaited(a, b, inbox'[a][j].eph)
                      /\ \A e \in SentTo(b, a)' : e.key.root # Awaited(a, b, inbox'[a][j].eph)
    BY <1>2, <1>13 DEF Taken, Done
  <2>1. /\ \A u \in conn[b][a] : u.root # Awaited(a, b, inbox'[a][j].eph)
        /\ \A e \in SentTo(b, a) : e.key.root # Awaited(a, b, inbox'[a][j].eph)
    BY <1>6 DEF OrderInv, Taken
  <2>2. QED
    BY <1>1, <1>4, <1>8, <2>1
<1>28. QED
  BY <1>15, <1>16, <1>17, <1>18, <1>19, <1>20, <1>21, <1>22, <1>23, <1>24, <1>25, <1>26, <1>27
  DEF OrderInv

LEMMA StepOrder == TypeInv /\ TypeInv' /\ KeyInv /\ OrderInv /\ [Next]_vars => OrderInv'
<1> SUFFICES ASSUME TypeInv, TypeInv', KeyInv, OrderInv, [Next]_vars PROVE OrderInv'
  OBVIOUS
<1>1. CASE UNCHANGED vars
  <2>1. UNCHANGED <<offers, task, pending, conn, ephs, inbox, got, out, shown>>
    BY <1>1 DEF vars, threads, sessions, relay, history
  <2>2. \A a \in Peers : Done(a)' = Done(a)
    BY <2>1 DEF Done
  <2>3. Numbers
    BY TypedNumbers
  <2>4. QED
    BY <2>1, <2>2, <2>3, StayOrder DEF Numbers
<1>2. QED
  BY <1>1, CheckConnectOrder, OfferOrder, SendHelloOrder, SendTextOrder, OnHelloOrder,
     SendHelloAckOrder, OnHelloAckOrder, RegisterSessionOrder, OnMsgOrder,
     AcknowledgedOrder, ReconnectOrder, RestartOrder
  DEF Next, RelayThread

----------------------------------------------------------------------------
\* Sessions over a relay implement the lossy FIFO.

LEMMA HistoryInit == Init => History!Init
<1> SUFFICES ASSUME Init PROVE History!Init
  OBVIOUS
<1>1. \A p, q \in Peers : Cardinality(SentTo(p, q)) = 0 /\ shown[p][q] = <<>>
  BY FS_EmptySet DEF Init, SentTo
<1>2. \A c \in Pairs : c[1] \in Peers /\ c[2] \in Peers
  BY DEF Pairs
<1>3. QED
  BY <1>1, <1>2 DEF History!Init

\* A step that sends and shows nothing is none of the history's.
LEMMA HistoryStays ==
  ASSUME UNCHANGED history
  PROVE  UNCHANGED History!vars
BY DEF history, History!vars, SentTo

LEMMA HistorySends ==
  ASSUME TypeInv, KeyInv, NEW p \in Peers, NEW q \in Peers, SendText(p, q)
  PROVE  History!Next
<1> DEFINE c == <<p, q>>
           sent(d) == Cardinality(SentTo(d[1], d[2]))
<1>1. /\ p # q
      /\ \A a, b \in Peers : ~(a = p /\ b = q) => SentTo(a, b)' = SentTo(a, b)
      /\ Cardinality(SentTo(p, q)') = Cardinality(SentTo(p, q)) + 1
  BY SendAdds
<1>2. c \in Pairs /\ \A d \in Pairs : d = <<d[1], d[2]>> /\ d[1] \in Peers /\ d[2] \in Peers
  BY <1>1 DEF Pairs
<1>3. \A d \in Pairs : sent(d)' = IF d = c THEN sent(c) + 1 ELSE sent(d)
  BY <1>1, <1>2
<1>4. shown' = shown
  BY DEF SendText
<1>5. History!Send(c)
  <2>1. [d \in Pairs |-> sent(d)'] = [[d \in Pairs |-> sent(d)] EXCEPT ![c] = @ + 1]
    BY <1>2, <1>3
  <2>2. QED
    BY <1>4, <2>1 DEF History!Send
<1>6. QED
  BY <1>2, <1>5 DEF History!Next

LEMMA HistoryShows ==
  ASSUME TypeInv, OrderInv, NEW p \in Peers, OnMsg(p)
  PROVE  History!Next \/ UNCHANGED History!vars
<1>1. PICK q \in Peers : q = NextRow(p).from /\ q # p /\ Receives(p, "msg")
  BY RowType DEF OnMsg
<1>2. out' = out
  BY DEF OnMsg
<1>3. CASE shown' = shown
  BY <1>2, <1>3, HistoryStays DEF history
<1>4. ASSUME NEW s \in conn[p][q],
             NextRow(p).key = MessageKey(s.root, q, s.recv),
             shown' = [shown EXCEPT ![p][q] = Append(@, NextRow(p).n)]
      PROVE  History!Next
  <2> DEFINE c == <<q, p>>
             seen(d) == shown[d[2]][d[1]]
  <2>1. PICK g \in SentTo(q, p) :
          /\ g.n = NextRow(p).n
          /\ g.n \in 1..Cardinality(SentTo(q, p)) /\ Newer(p, q, g.n)
    BY <1>1, <1>4, RowIsNewer
  <2>2. c \in Pairs /\ \A d \in Pairs : d = <<d[1], d[2]>> /\ d[1] \in Peers /\ d[2] \in Peers
    BY <1>1 DEF Pairs
  <2>3. \A a, b \in Peers : shown'[a][b] = IF a = p /\ b = q THEN Append(shown[p][q], g.n) ELSE shown[a][b]
    BY <1>1, <1>4, <2>1 DEF TypeInv, TypeOK
  <2>4. \A d \in Pairs : seen(d)' = IF d = c THEN Append(seen(c), g.n) ELSE seen(d)
    BY <2>2, <2>3
  <2>5. [d \in Pairs |-> seen(d)'] = [[d \in Pairs |-> seen(d)] EXCEPT ![c] = Append(@, g.n)]
    BY <2>2, <2>4
  <2>6. /\ Cardinality(SentTo(c[1], c[2])) = Cardinality(SentTo(q, p))
        /\ \A i \in DOMAIN seen(c) : seen(c)[i] < g.n
    BY <2>1 DEF Newer
  <2>7. [d \in Pairs |-> Cardinality(SentTo(d[1], d[2])')] = [d \in Pairs |-> Cardinality(SentTo(d[1], d[2]))]
    BY <1>2 DEF SentTo
  <2>8. History!Show(c)
    BY <2>1, <2>2, <2>5, <2>6, <2>7 DEF History!Show
  <2>9. QED
    BY <2>2, <2>8 DEF History!Next
<1>5. QED
  BY <1>1, <1>3, <1>4 DEF OnMsg

LEMMA StepHistory ==
  TypeInv /\ KeyInv /\ OrderInv /\ [Next]_vars => [History!Next]_(History!vars)
<1> SUFFICES ASSUME TypeInv, KeyInv, OrderInv, [Next]_vars
             PROVE  History!Next \/ UNCHANGED History!vars
  OBVIOUS
<1>1. CASE UNCHANGED vars
  BY <1>1, HistoryStays DEF vars
<1>2. ASSUME NEW p \in Peers, NEW q \in Peers, CheckConnect(p, q) \/ Offer(p, q) \/ SendHello(p, q)
      PROVE  UNCHANGED history
  BY <1>2 DEF CheckConnect, Offer, SendHello
<1>3. ASSUME NEW p \in Peers,
             \/ OnHello(p) \/ SendHelloAck(p) \/ OnHelloAck(p) \/ RegisterSession(p)
             \/ Acknowledged(p) \/ Reconnect(p) \/ RestartApp(p)
      PROVE  UNCHANGED history
  BY <1>3 DEF OnHello, SendHelloAck, OnHelloAck, RegisterSession, Acknowledged, Reconnect,
     RestartApp
<1>4. QED
  BY <1>1, <1>2, <1>3, HistoryStays, HistorySends, HistoryShows DEF Next, RelayThread

\* A history shows what was sent to it once and in order, or not at all,
\* however often a hello, an answer or a message is handed over again, sessions
\* are replaced, sends fail and applications are restarted (README.md:320-326,
\* network.py:413-431).
THEOREM SessionIsLossyFifo == Spec => ShownOnceInOrder
<1>1. Init => TypeInv /\ KeyInv /\ OrderInv
  BY InitTypeInv, InitKeyInv, InitOrder
<1>2. TypeInv /\ [Next]_vars => TypeInv'
  BY StepTypeInv
<1>3. TypeInv /\ KeyInv /\ [Next]_vars => KeyInv'
  BY StepKeyInv
<1>4. TypeInv /\ TypeInv' /\ KeyInv /\ OrderInv /\ [Next]_vars => OrderInv'
  BY StepOrder
<1>5. Init => History!Init
  BY HistoryInit
<1>6. TypeInv /\ KeyInv /\ OrderInv /\ [Next]_vars => [History!Next]_(History!vars)
  BY StepHistory
<1>7. QED
  BY <1>1, <1>2, <1>3, <1>4, <1>5, <1>6, PTL DEF Spec, ShownOnceInOrder, History!Spec
============================================================================
