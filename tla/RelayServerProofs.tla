------------------------- MODULE RelayServerProofs -------------------------
(***************************************************************************)
(* Proofs about RelayServer, for any clients, connections, buffer sizes    *)
(* and bounds: types, that a live registration survives, that no stored    *)
(* envelope is stranded, and that the relay implements StoreAndForward.    *)
(***************************************************************************)
EXTENDS RelayServer, TLAPS

----------------------------------------------------------------------------
(* A FIFO channel, seen as the set of frames in it *)

\* Adding at the end and taking from the front of a channel, as sets.
LEMMA RangeAppend ==
  ASSUME NEW S, NEW s \in Seq(S), NEW x \in S
  PROVE  /\ Append(s, x) \in Seq(S) /\ Append(s, x) # <<>>
         /\ Len(Append(s, x)) = Len(s) + 1
         /\ Range(Append(s, x)) = Range(s) \cup {x}
<1>1. /\ DOMAIN s = 1..Len(s) /\ Len(s) \in Nat
      /\ DOMAIN Append(s, x) = 1..(Len(s) + 1)
      /\ \A i \in 1..Len(s) : Append(s, x)[i] = s[i]
      /\ Append(s, x)[Len(s) + 1] = x
  OBVIOUS
<1>2. Range(Append(s, x)) \subseteq Range(s) \cup {x}
  BY <1>1 DEF Range
<1>3. Range(s) \cup {x} \subseteq Range(Append(s, x))
  BY <1>1 DEF Range
<1>4. Append(s, x) \in Seq(S)
  OBVIOUS
<1>5. Append(s, x) # <<>>
  <2>1. Len(Append(s, x)) = Len(s) + 1 /\ Len(<<>>) = 0
    OBVIOUS
  <2>2. QED
    BY <1>1, <2>1
<1>6. Len(Append(s, x)) = Len(s) + 1
  OBVIOUS
<1>7. QED
  BY <1>2, <1>3, <1>4, <1>5, <1>6

LEMMA RangeTail ==
  ASSUME NEW S, NEW s \in Seq(S), s # <<>>
  PROVE  /\ Head(s) \in S
         /\ Tail(s) \in Seq(S)
         /\ Range(s) = {Head(s)} \cup Range(Tail(s))
<1>1. /\ Head(s) = s[1] /\ Head(s) \in S
      /\ Len(s) \in Nat \ {0} /\ DOMAIN s = 1..Len(s)
      /\ Tail(s) \in Seq(S)
  OBVIOUS
<1>2. /\ DOMAIN Tail(s) = 1..(Len(s) - 1)
      /\ \A i \in 1..(Len(s) - 1) : Tail(s)[i] = s[i + 1]
  BY <1>1
<1>3. Range(s) \subseteq {Head(s)} \cup Range(Tail(s))
  <2> SUFFICES ASSUME NEW i \in 1..Len(s), i # 1
               PROVE  s[i] \in Range(Tail(s))
    BY <1>1 DEF Range
  <2>1. i - 1 \in 1..(Len(s) - 1) /\ (i - 1) + 1 = i
    BY <1>1
  <2>2. QED
    BY <1>2, <2>1 DEF Range
<1>4. {Head(s)} \cup Range(Tail(s)) \subseteq Range(s)
  <2>1. \A i \in 1..(Len(s) - 1) : i + 1 \in 1..Len(s)
    BY <1>1
  <2>2. QED
    BY <1>1, <1>2, <2>1 DEF Range
<1>5. QED
  BY <1>1, <1>3, <1>4

\* A non-empty channel keeps its front when a frame is added at the end.
LEMMA FrontAppend ==
  ASSUME NEW S, NEW s \in Seq(S), NEW x \in S, s # <<>>
  PROVE  /\ Append(s, x) # <<>>
         /\ Head(Append(s, x)) = Head(s)
         /\ Tail(Append(s, x)) = Append(Tail(s), x)
OBVIOUS

----------------------------------------------------------------------------
\* Type correctness.  The client takes `.row` of the frame at the front of its
\* channel and the handler `.to` or `.id`: that these fields are there follows
\* from the order of the phases, which the next three invariants record.

\* A handler exists once its client has connected.
Fresh == \A k \in Conns : cphase[k] = "unused" <=> hphase[k] = "unused"

\* The frame a handler has in hand is at the front of its channel.
InHand == \A k \in Conns : hphase[k] = "frame" => up[k] # <<>>

\* "registered" is sent once, after the registration, and the client reads it
\* before it counts itself connected.
Greeting ==
  \A k \in Conns :
    /\ cphase[k] \in {"up", "acking"} => Registered \notin Range(down[k])
    /\ hphase[k] \in {"unused", "handshake", "registered"}
       => /\ cphase[k] \notin {"up", "acking"}
          /\ Registered \notin Range(down[k])
    /\ down[k] # <<>> /\ Head(down[k]) = Registered
       => Registered \notin Range(Tail(down[k]))
    /\ cphase[k] = "acking" => down[k] # <<>>

TypeInv == TypeOK /\ Fresh /\ InHand /\ Greeting

LEMMA InitTypeInv == Init => TypeInv
<1> SUFFICES ASSUME Init PROVE TypeInv
  OBVIOUS
<1>1. TypeOK
  BY ConstAssumption DEF Init, TypeOK, HandlerPhases, ClientPhases
<1>2. \A k \in Conns : down[k] = <<>> /\ Range(down[k]) = {}
  BY DEF Init, Range
<1>3. Fresh /\ InHand /\ Greeting
  BY <1>2 DEF Init, Fresh, InHand, Greeting
<1>4. QED
  BY <1>1, <1>3 DEF TypeInv

LEMMA DeliveryType ==
  ASSUME NEW r \in Row
  PROVE  Delivery(r) \in DownFrame /\ Delivery(r) # Registered /\ Delivery(r).row = r
BY DEF Delivery, DownFrame, Registered, Row

LEMMA FrontFrame ==
  ASSUME TypeInv, NEW k \in Conns, cphase[k] \in {"up", "acking"}, down[k] # <<>>
  PROVE  \E r \in Row : Head(down[k]) = Delivery(r)
<1>1. down[k] \in Seq(DownFrame) /\ Head(down[k]) \in Range(down[k])
  BY RangeTail DEF TypeInv, TypeOK
<1>2. Head(down[k]) \in DownFrame /\ Head(down[k]) # Registered
  BY <1>1, RangeTail DEF TypeInv, Greeting
<1>3. Head(down[k]) \in [type: {"relay"}, row: Row]
  BY <1>2 DEF DownFrame
<1>4. QED
  BY <1>3 DEF Delivery

\* A delivery added to a channel does not disturb the greeting at its front.
LEMMA GreetingAppend ==
  ASSUME NEW s \in Seq(DownFrame), NEW x \in DownFrame, x # Registered,
         s # <<>> /\ Head(s) = Registered => Registered \notin Range(Tail(s))
  PROVE  Head(Append(s, x)) = Registered => Registered \notin Range(Tail(Append(s, x)))
<1>1. CASE s = <<>>
  BY <1>1
<1>2. CASE s # <<>>
  <2> DEFINE t == Tail(s)
             a == Append(s, x)
  <2>1. Head(a) = Head(s) /\ Tail(a) = Append(t, x)
    BY <1>2, FrontAppend
  <2>2. t \in Seq(DownFrame)
    BY <1>2, RangeTail
  <2>3. Head(s) = Registered => Registered \notin Range(t)
    BY <1>2
  <2> HIDE DEF t, a
  <2>4. Range(Append(t, x)) = Range(t) \cup {x}
    BY <2>2, RangeAppend
  <2>5. Head(a) = Registered => Registered \notin Range(Tail(a))
    BY <2>1, <2>3, <2>4
  <2>6. QED
    BY <2>5 DEF a
<1>3. QED
  BY <1>1, <1>2

LEMMA StepTypeInv == TypeInv /\ [Next]_vars => TypeInv'
<1> SUFFICES ASSUME TypeInv, [Next]_vars PROVE TypeInv'
  OBVIOUS
<1> USE ConstAssumption DEF TypeInv
<1>1. ASSUME NEW k \in Conns, Connect(k) PROVE TypeInv'
  BY <1>1 DEF Connect, TypeOK, Fresh, InHand, Greeting, HandlerPhases, ClientPhases
<1>2. ASSUME NEW k \in Conns, ReadReply(k) PROVE TypeInv'
  <2>1. CASE CloseClient(k)
    <3>1. TypeOK'
      BY <1>2, <2>1 DEF ReadReply, CloseClient, TypeOK, serverVars, ClientPhases
    <3>2. Range(<<>>) = {}
      BY DEF Range
    <3>3. QED
      BY <1>2, <2>1, <3>1, <3>2 DEF ReadReply, CloseClient, TypeOK, serverVars, Fresh, InHand, Greeting
  <2>2. CASE /\ Head(down[k]) = Registered
             /\ cphase' = [cphase EXCEPT ![k] = "up"]
             /\ down' = [down EXCEPT ![k] = Tail(@)]
    <3>1. TypeOK'
      BY <1>2, <2>2, RangeTail DEF ReadReply, TypeOK, serverVars, ClientPhases
    <3>2. Registered \notin Range(down'[k])
      BY <1>2, <2>2 DEF ReadReply, TypeOK, Greeting
    <3>3. Fresh' /\ InHand'
      BY <1>2, <2>2 DEF ReadReply, TypeOK, serverVars, Fresh, InHand
    <3>4. Registered \in Range(down[k])
      BY <1>2, <2>2, RangeTail DEF ReadReply, TypeOK
    <3>5. down'[k] # <<>> => Head(down'[k]) # Registered
      BY <3>1, <3>2, RangeTail DEF TypeOK
    <3>6. Greeting'
      BY <1>2, <2>2, <3>2, <3>4, <3>5 DEF ReadReply, TypeOK, serverVars, Greeting
    <3>7. QED
      BY <3>1, <3>3, <3>6
  <2>3. QED
    BY <1>2, <2>1, <2>2 DEF ReadReply
<1>3. ASSUME NEW k \in Conns, OnDeliver(k) PROVE TypeInv'
  <2>1. Head(down[k]).row \in Row
    BY <1>3, FrontFrame, DeliveryType DEF OnDeliver
  <2>2. QED
    BY <1>3, <2>1 DEF OnDeliver, TypeOK, serverVars, ClientPhases, Fresh, InHand, Greeting
<1>4. ASSUME NEW k \in Conns, SendAck(k) PROVE TypeInv'
  <2>1. Head(down[k]).row \in Row /\ down[k] # <<>>
    BY <1>4, FrontFrame, DeliveryType DEF SendAck, Greeting
  <2>2. [type |-> "ack", id |-> Head(down[k]).row.id] \in UpFrame
    BY <2>1 DEF UpFrame, AckFrame, Row
  <2>3. /\ Tail(down[k]) \in Seq(DownFrame)
        /\ Range(Tail(down[k])) \subseteq Range(down[k])
    BY <2>1, RangeTail DEF TypeOK
  <2>4. TypeOK'
    BY <1>4, <2>2, <2>3 DEF SendAck, TypeOK, serverVars, ClientPhases
  <2>5. Fresh' /\ InHand'
    BY <1>4, <2>2 DEF SendAck, TypeOK, serverVars, Fresh, InHand
  <2>6. Registered \notin Range(down'[k])
    BY <1>4, <2>3 DEF SendAck, TypeOK, Greeting
  <2>7. down'[k] # <<>> => Head(down'[k]) # Registered
    BY <2>4, <2>6, RangeTail DEF TypeOK
  <2>8. Greeting'
    BY <1>4, <2>6, <2>7 DEF SendAck, TypeOK, serverVars, Greeting
  <2>9. QED
    BY <2>4, <2>5, <2>8
<1>5. ASSUME NEW k \in Conns, NEW to \in Clients, SendTo(k, to) PROVE TypeInv'
  <2>1. [type |-> "relay", to |-> to, n |-> sent[Owner[k]] + 1] \in UpFrame
    BY DEF TypeOK, UpFrame, RelayFrame
  <2>2. QED
    BY <1>5, <2>1 DEF SendTo, TypeOK, serverVars, Fresh, InHand, Greeting
<1>6. ASSUME NEW k \in Conns, Drop(k) PROVE TypeInv'
  <2>1. Range(<<>>) = {}
    BY DEF Range
  <2>2. QED
    BY <1>6, <2>1 DEF Drop, CloseClient, TypeOK, serverVars, ClientPhases, Fresh, InHand, Greeting
<1>7. ASSUME NEW k \in Conns, HandshakeFails(k) PROVE TypeInv'
  BY <1>7 DEF HandshakeFails, TypeOK, clientVars, HandlerPhases, Fresh, InHand, Greeting
<1>8. ASSUME NEW k \in Conns, Register(k) PROVE TypeInv'
  BY <1>8 DEF Register, TypeOK, clientVars, HandlerPhases, Fresh, InHand, Greeting
<1>9. ASSUME NEW k \in Conns, SendRegistered(k) PROVE TypeInv'
  <2>1. Registered \in DownFrame
    BY DEF DownFrame
  <2>2. TypeOK'
    <3>1. Append(down[k], Registered) \in Seq(DownFrame)
      BY <2>1, RangeAppend DEF TypeOK
    <3>2. down' \in [Conns -> Seq(DownFrame)]
      BY <1>9, <3>1 DEF SendRegistered, TypeOK
    <3>3. QED
      BY <1>9, <3>2 DEF SendRegistered, TypeOK, clientVars, HandlerPhases
  <2>3. Fresh' /\ InHand'
    BY <1>9 DEF SendRegistered, TypeOK, clientVars, Fresh, InHand
  <2>4. cphase'[k] \notin {"up", "acking"} /\ hphase'[k] = "select"
    BY <1>9 DEF SendRegistered, TypeOK, clientVars, Greeting
  <2>5. CASE down' = down
    BY <1>9, <2>2, <2>3, <2>4, <2>5 DEF SendRegistered, TypeOK, clientVars, Greeting
  <2>6. CASE down' = [down EXCEPT ![k] = Append(@, Registered)]
    <3>1. Registered \notin Range(down[k])
      BY <1>9 DEF SendRegistered, Greeting
    <3>2. down'[k] = Append(down[k], Registered)
      BY <2>6 DEF TypeOK
    <3>3. CASE down[k] = <<>>
      <4>1. Tail(down'[k]) = <<>>
        BY <3>2, <3>3
      <4>2. Range(Tail(down'[k])) = {}
        BY <4>1 DEF Range
      <4>3. QED
        BY <1>9, <2>2, <2>3, <2>4, <2>6, <4>2 DEF SendRegistered, TypeOK, clientVars, Greeting
    <3>4. CASE down[k] # <<>>
      <4>1. Head(down'[k]) = Head(down[k])
        BY <2>1, <3>2, <3>4, FrontAppend DEF TypeOK
      <4>2. Head(down[k]) # Registered
        BY <3>1, <3>4, RangeTail DEF TypeOK
      <4>3. QED
        BY <1>9, <2>2, <2>3, <2>4, <2>6, <4>1, <4>2 DEF SendRegistered, TypeOK, clientVars, Greeting
    <3>5. QED
      BY <3>3, <3>4
  <2>7. QED
    BY <1>9, <2>5, <2>6 DEF SendRegistered
<1>10. ASSUME NEW k \in Conns, SelectQueued(k) PROVE TypeInv'
  BY <1>10 DEF SelectQueued, TypeOK, clientVars, HandlerPhases, AfterDelivery, RowsFor, Fresh, InHand, Greeting
<1>11. ASSUME NEW k \in Conns, Lookup(k) PROVE TypeInv'
  <2>1. PICK r \in work[k] : Lookup(k)!2!(r)
    BY <1>11 DEF Lookup
  <2>2. r \in Row /\ r.to \in Clients /\ work[k] \ {r} \in SUBSET Row
    BY DEF TypeOK, Row
  <2>3. /\ hphase[k] = "deliver"
        /\ UNCHANGED <<queue, lastId, clients, closed, clientVars, up, down, restarts>>
    BY <1>11 DEF Lookup
  <2>4. CASE clients[r.to] = NoConn
    <3>1. /\ work' = [work EXCEPT ![k] = @ \ {r}]
          /\ hphase' = [hphase EXCEPT ![k] = AfterDelivery(work[k] \ {r})]
          /\ target' = target
      BY <2>1, <2>4
    <3>2. work' \in [Conns -> SUBSET Row]
      BY <2>2, <3>1 DEF TypeOK
    <3>3. AfterDelivery(work[k] \ {r}) \in {"serve", "deliver"}
      BY DEF AfterDelivery
    <3>4. QED
      BY <2>3, <3>1, <3>2, <3>3 DEF TypeOK, clientVars, HandlerPhases, Fresh, InHand, Greeting
  <2>5. CASE clients[r.to] # NoConn
    <3>1. /\ target' = [target EXCEPT ![k] = clients[r.to]]
          /\ hphase' = [hphase EXCEPT ![k] = "send"]
          /\ work' = work
      BY <2>1, <2>5
    <3>2. QED
      BY <2>2, <2>3, <3>1 DEF TypeOK, clientVars, HandlerPhases, Fresh, InHand, Greeting
  <2>6. QED
    BY <2>4, <2>5
<1>12. ASSUME NEW k \in Conns, Send(k) PROVE TypeInv'
  <2>1. PICK r \in work[k] : Send(k)!2!(r)
    BY <1>12 DEF Send
  <2>2. r \in Row
    BY DEF TypeOK
  <2>3. /\ hphase[k] = "send"
        /\ hphase' = [hphase EXCEPT ![k] = AfterDelivery(work[k] \ {r})]
        /\ work' = [work EXCEPT ![k] = @ \ {r}]
        /\ target' = [target EXCEPT ![k] = NoConn]
        /\ UNCHANGED <<queue, lastId, clients, closed, clientVars, up, restarts>>
    BY <1>12, <2>1 DEF Send
  <2>4. \/ down' = down
        \/ down' = [down EXCEPT ![target[k]] = Append(@, Delivery(r))]
    BY <2>1
  <2>5. TypeOK'
    <3>1. \A t \in Conns : Append(down[t], Delivery(r)) \in Seq(DownFrame)
      BY <2>2, DeliveryType, RangeAppend DEF TypeOK
    <3>2. down' \in [Conns -> Seq(DownFrame)]
      <4>1. CASE down' = down
        BY <4>1 DEF TypeOK
      <4>2. CASE down' = [down EXCEPT ![target[k]] = Append(@, Delivery(r))]
        BY <3>1, <4>2 DEF TypeOK
      <4>3. QED
        BY <2>4, <4>1, <4>2
    <3>3. hphase' \in [Conns -> HandlerPhases]
      BY <2>3 DEF TypeOK, HandlerPhases, AfterDelivery
    <3>4. work' \in [Conns -> SUBSET Row]
      BY <2>3 DEF TypeOK
    <3>5. QED
      BY <2>3, <3>2, <3>3, <3>4 DEF TypeOK, clientVars
  <2>6. Fresh' /\ InHand'
    BY <2>3 DEF TypeOK, clientVars, AfterDelivery, Fresh, InHand
  <2>7. ASSUME NEW j \in Conns, down'[j] # down[j]
        PROVE  down'[j] = Append(down[j], Delivery(r))
    BY <2>4, <2>7 DEF TypeOK
  <2>8. ASSUME NEW j \in Conns, down'[j] # down[j]
        PROVE  /\ Range(down'[j]) = Range(down[j]) \cup {Delivery(r)}
               /\ down'[j] # <<>>
               /\ Head(down'[j]) = Registered => Registered \notin Range(Tail(down'[j]))
    <3>1. /\ down[j] \in Seq(DownFrame)
          /\ Delivery(r) \in DownFrame
          /\ Delivery(r) # Registered
      BY <2>2, DeliveryType DEF TypeOK
    <3>2. down'[j] = Append(down[j], Delivery(r))
      BY <2>7, <2>8
    <3> DEFINE s == down[j]
               x == Delivery(r)
    <3>a. s \in Seq(DownFrame) /\ x \in DownFrame
      BY <3>1
    <3> HIDE DEF s, x
    <3>b. /\ Range(Append(s, x)) = Range(s) \cup {x}
          /\ Append(s, x) # <<>>
      BY <3>a, RangeAppend
    <3>3. /\ Range(Append(down[j], Delivery(r))) = Range(down[j]) \cup {Delivery(r)}
          /\ Append(down[j], Delivery(r)) # <<>>
      BY <3>b DEF s, x
    <3>4. Head(Append(down[j], Delivery(r))) = Registered
          => Registered \notin Range(Tail(Append(down[j], Delivery(r))))
      BY <3>1, GreetingAppend DEF Greeting
    <3>5. QED
      BY <3>2, <3>3, <3>4
  <2>9. Greeting'
    <3> SUFFICES ASSUME NEW j \in Conns PROVE Greeting!(j)'
      BY DEF Greeting
    <3>1. cphase'[j] = cphase[j]
      BY <2>3 DEF clientVars
    <3>2. hphase'[j] \in {"unused", "handshake", "registered"} => hphase'[j] = hphase[j]
      BY <2>3 DEF TypeOK, AfterDelivery
    <3>3. Delivery(r) # Registered
      BY <2>2, DeliveryType
    <3>4. CASE down'[j] = down[j]
      BY <3>1, <3>2, <3>4 DEF Greeting
    <3>5. CASE down'[j] # down[j]
      BY <2>8, <3>1, <3>2, <3>3, <3>5 DEF Greeting
    <3>6. QED
      BY <3>4, <3>5
  <2>10. QED
    BY <2>5, <2>6, <2>9
<1>13. ASSUME NEW k \in Conns, Recv(k) PROVE TypeInv'
  BY <1>13 DEF Recv, TypeOK, clientVars, HandlerPhases, Fresh, InHand, Greeting
<1>14. ASSUME NEW k \in Conns, Enqueue(k) PROVE TypeInv'
  <2>1. up[k] # <<>>
    BY <1>14 DEF Enqueue, InHand
  <2>2. Head(up[k]) \in UpFrame /\ Tail(up[k]) \in Seq(UpFrame)
    BY <2>1, RangeTail DEF TypeOK
  <2>3. Head(up[k]).to \in Clients /\ Head(up[k]).n \in Nat
    BY <1>14, <2>2 DEF Enqueue, UpFrame, RelayFrame, AckFrame
  <2>4. TypeOK'
    <3> DEFINE r == [id |-> NextId, from |-> Owner[k],
                     to |-> Head(up[k]).to, n |-> Head(up[k]).n]
    <3>1. NextId \in Nat /\ r \in Row
      BY <2>3 DEF NextId, TypeOK, Row
    <3>2. queue' = queue \cup {r} /\ work' = [work EXCEPT ![k] = {r}]
      BY <1>14 DEF Enqueue
    <3> HIDE DEF r
    <3>3. QED
      BY <1>14, <2>2, <3>1, <3>2 DEF Enqueue, TypeOK, clientVars, HandlerPhases
  <2>5. QED
    BY <1>14, <2>4 DEF Enqueue, TypeOK, clientVars, Fresh, InHand, Greeting
<1>15. ASSUME NEW k \in Conns, DeleteQueued(k) PROVE TypeInv'
  <2>1. Tail(up[k]) \in Seq(UpFrame)
    BY <1>15, RangeTail DEF DeleteQueued, InHand, TypeOK
  <2>2. QED
    BY <1>15, <2>1 DEF DeleteQueued, TypeOK, clientVars, HandlerPhases, Fresh, InHand, Greeting
<1>16. ASSUME NEW k \in Conns, HandlerExit(k) PROVE TypeInv'
  BY <1>16 DEF HandlerExit, Unregister, TypeOK, clientVars, HandlerPhases, Fresh, InHand, Greeting
<1>17. CASE Restart
  BY <1>17 DEF Restart, TypeOK, clientVars, HandlerPhases, Fresh, InHand, Greeting
<1>18. CASE UNCHANGED vars
  BY <1>18 DEF vars, serverVars, clientVars, TypeOK, Fresh, InHand, Greeting
<1>19. QED
  BY <1>1, <1>2, <1>3, <1>4, <1>5, <1>6, <1>7, <1>8, <1>9, <1>10, <1>11, <1>12,
     <1>13, <1>14, <1>15, <1>16, <1>17, <1>18
  DEF Next, ClientStep, HandlerStep, ConnectionLost

LEMMA TypeInvariant == Spec => []TypeInv
BY InitTypeInv, StepTypeInv, PTL DEF Spec

\* Every variable keeps its type in every reachable state (relay_server.py).
THEOREM TypeCorrect == Spec => []TypeOK
<1>1. TypeInv => TypeOK
  BY DEF TypeInv
<1>2. QED
  BY <1>1, TypeInvariant, PTL

----------------------------------------------------------------------------
\* The routing table.

\* A handle on file is open and belongs to a handler that has registered it.
Route ==
  \A c \in Clients : clients[c] # NoConn =>
    /\ Owner[clients[c]] = c
    /\ ~closed[clients[c]]
    /\ hphase[clients[c]] \notin {"unused", "handshake", "done"}

\* Nobody closes a handle before it is on file.
OpenBefore == \A k \in Conns : hphase[k] \in {"unused", "handshake"} => ~closed[k]

RouteInv == Route /\ OpenBefore /\ RegistrationSurvives

LEMMA InitRouteInv == Init => RouteInv
BY ConstAssumption DEF Init, RouteInv, Route, OpenBefore, RegistrationSurvives

LEMMA StepRouteInv == TypeInv /\ RouteInv /\ [Next]_vars => RouteInv'
<1> SUFFICES ASSUME TypeInv, RouteInv, [Next]_vars PROVE RouteInv'
  OBVIOUS
<1> USE ConstAssumption DEF TypeInv, TypeOK, RouteInv, Route, OpenBefore, RegistrationSurvives
<1>1. ASSUME NEW k \in Conns, Connect(k) PROVE RouteInv'
  BY <1>1 DEF Connect, Fresh
<1>2. ASSUME NEW k \in Conns, HandshakeFails(k) PROVE RouteInv'
  BY <1>2 DEF HandshakeFails
<1>3. ASSUME NEW k \in Conns, Register(k) PROVE RouteInv'
  <2> DEFINE old == clients[Owner[k]]
  <2>1. /\ hphase[k] = "handshake" /\ ~closed[k]
        /\ clients' = [clients EXCEPT ![Owner[k]] = k]
        /\ closed' = [j \in Conns |-> closed[j] \/ j = old]
        /\ hphase' = [hphase EXCEPT ![k] = "registered"]
        /\ Owner[k] \in Clients
    BY <1>3 DEF Register
  <2>2. old # NoConn => hphase[old] \notin {"unused", "handshake"} /\ Owner[old] = Owner[k]
    BY <2>1
  <2>3. old # k
    BY <2>1, <2>2
  <2> HIDE DEF old
  <2>4. OpenBefore'
    BY <2>1, <2>2
  <2>5. Route'
    <3>1. \A c \in Clients : clients[c] # NoConn /\ c # Owner[k] => clients[c] # old
      BY <2>1, <2>2
    <3>2. QED
      BY <2>1, <2>3, <3>1
  <2>6. RegistrationSurvives'
    <3> SUFFICES ASSUME NEW j \in Conns, ~closed'[j],
                        hphase'[j] \notin {"unused", "handshake", "done"}
                 PROVE  clients'[Owner[j]] = j
      OBVIOUS
    <3>1. CASE j = k
      BY <2>1, <3>1
    <3>2. CASE j # k
      <4>1. closed'[j] = (closed[j] \/ j = old)
        BY <2>1, Zenon
      <4>2. ~closed[j] /\ j # old
        BY <4>1
      <4>3. hphase'[j] = hphase[j] /\ clients[Owner[j]] = j
        BY <2>1, <3>2, <4>2
      <4>4. Owner[j] # Owner[k]
        BY <4>2, <4>3 DEF old
      <4>5. QED
        BY <2>1, <4>3, <4>4
    <3>3. QED
      BY <3>1, <3>2
  <2>7. QED
    BY <2>4, <2>5, <2>6
<1>4. ASSUME NEW k \in Conns, SendRegistered(k) PROVE RouteInv'
  BY <1>4 DEF SendRegistered
<1>5. ASSUME NEW k \in Conns, SelectQueued(k) PROVE RouteInv'
  BY <1>5 DEF SelectQueued, AfterDelivery
<1>6. ASSUME NEW k \in Conns, Lookup(k) \/ Send(k) PROVE RouteInv'
  <2>1. /\ UNCHANGED <<clients, closed>>
        /\ hphase[k] \in {"deliver", "send"}
        /\ \E p \in {"serve", "deliver", "send"} : hphase' = [hphase EXCEPT ![k] = p]
    BY <1>6 DEF Lookup, Send, AfterDelivery
  <2>2. QED
    BY <2>1
<1>7. ASSUME NEW k \in Conns, Recv(k) \/ Enqueue(k) \/ DeleteQueued(k) PROVE RouteInv'
  <2>1. /\ UNCHANGED <<clients, closed>>
        /\ hphase[k] \in {"serve", "frame"}
        /\ \E p \in {"serve", "deliver", "frame"} : hphase' = [hphase EXCEPT ![k] = p]
    BY <1>7 DEF Recv, Enqueue, DeleteQueued
  <2>2. QED
    BY <2>1
<1>8. ASSUME NEW k \in Conns, HandlerExit(k) PROVE RouteInv'
  BY <1>8 DEF HandlerExit, Unregister
<1>9. CASE Restart
  BY <1>9 DEF Restart
<1>10. CASE UNCHANGED <<clients, closed, hphase>>
  BY <1>10
<1>11. QED
  BY <1>1, <1>2, <1>3, <1>4, <1>5, <1>6, <1>7, <1>8, <1>9, <1>10
  DEF Next, ClientStep, HandlerStep, ReadReply, OnDeliver, SendAck, ConnectionLost,
      SendTo, Drop, vars, serverVars

LEMMA RouteInvariant == Spec => []RouteInv
BY InitRouteInv, StepRouteInv, TypeInvariant, PTL DEF Spec

\* The cleanup of a dead or replaced connection never removes the registration
\* that took its place (relay_server.py:330-336).
THEOREM LiveRegistrationSurvives == Spec => []RegistrationSurvives
<1>1. RouteInv => RegistrationSurvives
  BY DEF RouteInv
<1>2. QED
  BY <1>1, RouteInvariant, PTL

----------------------------------------------------------------------------
\* Rows, wherever they are.

\* The rows that were ever stored and are not forgotten.
Seen == queue \cup handled

\* An id names one row, and none has the ids still to come.
Ids ==
  /\ \A r \in Seen : r.id <= lastId
  /\ \A r, q \in Seen : r.id = q.id => r = q

\* Handlers and channels carry rows that were stored.
Known ==
  \A k \in Conns :
    /\ work[k] \subseteq Seen
    /\ \A f \in Range(down[k]) : f = Registered \/ f.row \in Seen

\* An acknowledgement in flight is for a row that was handled.
AckSound ==
  \A k \in Conns : \A f \in Range(up[k]) :
    f.type = "ack" => f.id <= lastId /\ \A r \in queue : r.id = f.id => r \in handled

\* So is the one about to be sent.
AckingSound == \A k \in Conns : cphase[k] = "acking" => Head(down[k]).row \in handled

DataInv == Ids /\ Known /\ AckSound /\ AckingSound

LEMMA InitDataInv == Init => DataInv
<1> SUFFICES ASSUME Init PROVE DataInv
  OBVIOUS
<1>1. Range(<<>>) = {}
  BY DEF Range
<1>2. QED
  BY <1>1 DEF Init, DataInv, Ids, Known, AckSound, AckingSound, Seen

\* A step that stores, handles and acknowledges nothing keeps DataInv when
\* what it puts in hand or in flight was stored.
LEMMA CarriesSeen ==
  ASSUME DataInv,
         UNCHANGED <<queue, lastId, handled>>,
         \A k \in Conns :
           /\ work'[k] \subseteq Seen
           /\ \A f \in Range(down'[k]) :
                f \in Range(down[k]) \/ f = Registered \/ f.row \in Seen
           /\ \A f \in Range(up'[k]) : f \in Range(up[k]) \/ f.type # "ack"
           /\ cphase'[k] = "acking"
              => cphase[k] = "acking" /\ Head(down'[k]) = Head(down[k])
  PROVE  DataInv'
<1>1. Seen' = Seen
  BY DEF Seen
<1>2. Ids'
  BY <1>1 DEF DataInv, Ids
<1>3. Known'
  BY <1>1 DEF DataInv, Known
<1>4. AckSound'
  BY DEF DataInv, AckSound
<1>5. AckingSound'
  BY DEF DataInv, AckingSound
<1>6. QED
  BY <1>2, <1>3, <1>4, <1>5 DEF DataInv

LEMMA StepDataInv == TypeInv /\ DataInv /\ [Next]_vars => DataInv'
<1> SUFFICES ASSUME TypeInv, DataInv, [Next]_vars PROVE DataInv'
  OBVIOUS
<1> USE DEF TypeInv, TypeOK
<1>1. Range(<<>>) = {}
  BY DEF Range
<1>2. \A k \in Conns : work[k] \subseteq Seen
  BY DEF DataInv, Known
<1>3. \A k \in Conns : \A f \in Range(down[k]) : f = Registered \/ f.row \in Seen
  BY DEF DataInv, Known
<1>4. ASSUME NEW k \in Conns,
             Connect(k) \/ HandshakeFails(k) \/ Register(k) \/ Recv(k)
      PROVE  DataInv'
  <2>1. /\ UNCHANGED <<queue, lastId, handled, work, up, down>>
        /\ \A j \in Conns : cphase'[j] = "acking" => cphase[j] = "acking"
    BY <1>4 DEF Connect, HandshakeFails, Register, Recv, clientVars
  <2>2. QED
    BY <1>2, <2>1, CarriesSeen
<1>5. ASSUME NEW k \in Conns, Drop(k) \/ ReadReply(k) PROVE DataInv'
  <2>1. /\ UNCHANGED <<queue, lastId, handled, work, up>>
        /\ \A j \in Conns : cphase'[j] = "acking" => cphase[j] = "acking" /\ j # k
        /\ \A j \in Conns : j # k => down'[j] = down[j]
    BY <1>5 DEF Drop, ReadReply, CloseClient, serverVars
  <2>2. Range(down'[k]) \subseteq Range(down[k])
    <3>1. CASE down'[k] = <<>>
      BY <1>1, <3>1
    <3>2. CASE down[k] # <<>> /\ down'[k] = Tail(down[k])
      BY <3>2, RangeTail
    <3>3. QED
      BY <1>5, <3>1, <3>2 DEF Drop, ReadReply, CloseClient
  <2>3. QED
    BY <1>2, <2>1, <2>2, CarriesSeen
<1>6. ASSUME NEW k \in Conns, OnDeliver(k) PROVE DataInv'
  <2> DEFINE r == Head(down[k]).row
  <2>1. /\ handled' = handled \cup {r}
        /\ cphase' = [cphase EXCEPT ![k] = "acking"]
        /\ UNCHANGED <<queue, lastId, work, up, down>>
    BY <1>6 DEF OnDeliver, serverVars
  <2>2. r \in Seen
    <3>1. PICK q \in Row : Head(down[k]) = Delivery(q)
      BY <1>6, FrontFrame DEF OnDeliver
    <3>2. Head(down[k]) \in Range(down[k])
      BY <1>6, RangeTail DEF OnDeliver
    <3>3. QED
      BY <1>3, <3>1, <3>2, DeliveryType
  <2>3. Seen' = Seen
    BY <2>1, <2>2 DEF Seen
  <2>4. Ids' /\ Known'
    BY <2>1, <2>3 DEF DataInv, Ids, Known
  <2>5. AckSound'
    BY <2>1 DEF DataInv, AckSound
  <2>6. AckingSound'
    BY <2>1 DEF DataInv, AckingSound
  <2>7. QED
    BY <2>4, <2>5, <2>6 DEF DataInv
<1>7. ASSUME NEW k \in Conns, SendAck(k) PROVE DataInv'
  <2> DEFINE r == Head(down[k]).row
             a == [type |-> "ack", id |-> r.id]
  <2>1. /\ up' = [up EXCEPT ![k] = Append(@, a)]
        /\ down' = [down EXCEPT ![k] = Tail(@)]
        /\ cphase' = [cphase EXCEPT ![k] = "up"]
        /\ UNCHANGED <<queue, lastId, handled, work>>
    BY <1>7 DEF SendAck, serverVars
  <2>2. r \in handled /\ r \in Row /\ down[k] # <<>>
    BY <1>7, FrontFrame, DeliveryType DEF SendAck, DataInv, AckingSound, Greeting
  <2>3. Range(Tail(down[k])) \subseteq Range(down[k])
    BY <2>2, RangeTail
  <2>4. Range(Append(up[k], a)) = Range(up[k]) \cup {a}
    <3>1. a \in UpFrame
      BY <2>2 DEF UpFrame, AckFrame, Row
    <3>2. QED
      BY <3>1, RangeAppend
  <2>5. a.id <= lastId /\ \A q \in queue : q.id = a.id => q \in handled
    BY <2>2 DEF DataInv, Ids, Seen
  <2> HIDE DEF r, a
  <2>6. Ids' /\ Known'
    BY <2>1, <2>3 DEF DataInv, Ids, Known, Seen
  <2>7. AckSound'
    BY <2>1, <2>4, <2>5 DEF DataInv, AckSound
  <2>8. AckingSound'
    BY <2>1 DEF DataInv, AckingSound
  <2>9. QED
    BY <2>6, <2>7, <2>8 DEF DataInv
<1>8. ASSUME NEW k \in Conns, NEW to \in Clients, SendTo(k, to) PROVE DataInv'
  <2> DEFINE f == [type |-> "relay", to |-> to, n |-> sent[Owner[k]] + 1]
  <2>1. /\ up' = [up EXCEPT ![k] = Append(@, f)]
        /\ UNCHANGED <<queue, lastId, handled, work, down, cphase>>
    BY <1>8 DEF SendTo, serverVars
  <2>2. f \in UpFrame /\ f.type # "ack"
    BY ConstAssumption DEF UpFrame, RelayFrame
  <2>3. Range(Append(up[k], f)) = Range(up[k]) \cup {f}
    BY <2>2, RangeAppend
  <2> HIDE DEF f
  <2>4. QED
    BY <1>2, <2>1, <2>2, <2>3, CarriesSeen
<1>9. ASSUME NEW k \in Conns, SendRegistered(k) PROVE DataInv'
  <2>1. /\ UNCHANGED <<queue, lastId, handled, work, up, cphase>>
        /\ down' = down \/ down' = [down EXCEPT ![k] = Append(@, Registered)]
    BY <1>9 DEF SendRegistered, clientVars
  <2>2. Registered \in DownFrame
    BY DEF DownFrame
  <2>3. Range(Append(down[k], Registered)) = Range(down[k]) \cup {Registered}
    BY <2>2, RangeAppend
  <2>4. cphase[k] # "acking"
    BY <1>9 DEF SendRegistered, Greeting
  <2>5. \A j \in Conns : /\ Range(down'[j]) \subseteq Range(down[j]) \cup {Registered}
                         /\ j # k => down'[j] = down[j]
    BY <2>1, <2>3
  <2>6. QED
    BY <1>2, <2>1, <2>4, <2>5, CarriesSeen
<1>10. ASSUME NEW k \in Conns, SelectQueued(k) PROVE DataInv'
  <2>1. /\ UNCHANGED <<queue, lastId, handled, up, down, cphase>>
        /\ work' = [work EXCEPT ![k] = RowsFor(Owner[k])]
    BY <1>10 DEF SelectQueued, clientVars
  <2>2. RowsFor(Owner[k]) \subseteq Seen
    BY DEF RowsFor, Seen
  <2>3. QED
    BY <1>2, <2>1, <2>2, CarriesSeen
<1>11. ASSUME NEW k \in Conns, Lookup(k) PROVE DataInv'
  <2>1. /\ UNCHANGED <<queue, lastId, handled, up, down, cphase>>
        /\ work' = work \/ \E r \in work[k] : work' = [work EXCEPT ![k] = @ \ {r}]
    BY <1>11 DEF Lookup, clientVars
  <2>2. QED
    BY <1>2, <2>1, CarriesSeen
<1>12. ASSUME NEW k \in Conns, Send(k) PROVE DataInv'
  <2>1. PICK r \in work[k] : Send(k)!2!(r)
    BY <1>12 DEF Send
  <2>2. /\ r \in Row /\ r \in Seen
        /\ work' = [work EXCEPT ![k] = @ \ {r}]
        /\ UNCHANGED <<queue, lastId, handled, up, cphase>>
        /\ \/ down' = down
           \/ down' = [down EXCEPT ![target[k]] = Append(@, Delivery(r))]
    BY <1>2, <1>12, <2>1 DEF Send, clientVars
  <2>3. Delivery(r) \in DownFrame /\ Delivery(r).row = r
    BY <2>2, DeliveryType
  <2>4. \A j \in Conns :
          down'[j] = down[j] \/ down'[j] = Append(down[j], Delivery(r))
    BY <2>2
  <2>5. \A j \in Conns : Range(down'[j]) \subseteq Range(down[j]) \cup {Delivery(r)}
    <3>1. \A j \in Conns :
            Range(Append(down[j], Delivery(r))) = Range(down[j]) \cup {Delivery(r)}
      BY <2>3, RangeAppend
    <3>2. QED
      BY <2>4, <3>1
  <2>6. ASSUME NEW j \in Conns, cphase[j] = "acking" PROVE Head(down'[j]) = Head(down[j])
    <3>1. down[j] \in Seq(DownFrame) /\ down[j] # <<>>
      BY <2>6 DEF Greeting
    <3>2. Head(Append(down[j], Delivery(r))) = Head(down[j])
      BY <2>3, <3>1, FrontAppend
    <3>3. QED
      BY <2>4, <3>2
  <2>7. QED
    BY <1>2, <2>2, <2>3, <2>5, <2>6, CarriesSeen
<1>13. ASSUME NEW k \in Conns, Enqueue(k) PROVE DataInv'
  <2> DEFINE r == [id |-> NextId, from |-> Owner[k],
                   to |-> Head(up[k]).to, n |-> Head(up[k]).n]
  <2>1. /\ queue' = queue \cup {r}
        /\ work' = [work EXCEPT ![k] = {r}]
        /\ lastId' = lastId + 1
        /\ up' = [up EXCEPT ![k] = Tail(@)]
        /\ UNCHANGED <<handled, down, cphase>>
    BY <1>13 DEF Enqueue, NextId, clientVars
  <2>2. r.id = lastId + 1
    BY DEF NextId
  <2> HIDE DEF r
  <2>3. Seen' = Seen \cup {r}
    BY <2>1 DEF Seen
  <2>4. \A q \in Seen : q.id \in Nat /\ q.id <= lastId
    BY DEF DataInv, Ids, Seen, Row
  <2>5. Ids'
    BY <2>1, <2>2, <2>3, <2>4 DEF DataInv, Ids
  <2>6. Known'
    BY <1>2, <2>1, <2>3 DEF DataInv, Known
  <2>7. \A j \in Conns : Range(up'[j]) \subseteq Range(up[j])
    BY <1>13, <2>1, RangeTail DEF Enqueue, InHand
  <2>8. \A j \in Conns : \A f \in Range(up'[j]) : f.type = "ack" => f.id \in Nat
    <3>1. \A j \in Conns : \A f \in Range(up[j]) : f \in UpFrame
      BY DEF Range
    <3>2. QED
      BY <2>7, <3>1 DEF UpFrame, RelayFrame, AckFrame
  <2>9. AckSound'
    <3> SUFFICES ASSUME NEW j \in Conns, NEW f \in Range(up'[j]), f.type = "ack"
                 PROVE  /\ f.id <= lastId + 1
                        /\ \A q \in queue \cup {r} : q.id = f.id => q \in handled
      BY <2>1 DEF AckSound
    <3>1. /\ f.id \in Nat /\ f.id <= lastId
          /\ \A q \in queue : q.id = f.id => q \in handled
      BY <2>7, <2>8 DEF DataInv, AckSound
    <3>2. r.id # f.id
      BY <2>2, <3>1
    <3>3. QED
      BY <3>1, <3>2
  <2>10. AckingSound'
    BY <2>1 DEF DataInv, AckingSound
  <2>11. QED
    BY <2>5, <2>6, <2>9, <2>10 DEF DataInv
<1>14. ASSUME NEW k \in Conns, DeleteQueued(k) PROVE DataInv'
  <2> DEFINE a == Head(up[k])
  <2>1. /\ queue' = {r \in queue : r.id # a.id}
        /\ up' = [up EXCEPT ![k] = Tail(@)]
        /\ UNCHANGED <<lastId, handled, work, down, cphase>>
    BY <1>14 DEF DeleteQueued, clientVars
  <2>2. /\ a \in Range(up[k]) /\ a.type = "ack"
        /\ Range(Tail(up[k])) \subseteq Range(up[k])
    BY <1>14, RangeTail DEF DeleteQueued, InHand
  <2>3. \A r \in queue : r.id = a.id => r \in handled
    BY <2>2 DEF DataInv, AckSound
  <2> HIDE DEF a
  <2>4. Seen' = Seen
    BY <2>1, <2>3 DEF Seen
  <2>5. Ids' /\ Known'
    BY <2>1, <2>4 DEF DataInv, Ids, Known
  <2>6. AckSound'
    BY <2>1, <2>2 DEF DataInv, AckSound
  <2>7. AckingSound'
    BY <2>1 DEF DataInv, AckingSound
  <2>8. QED
    BY <2>5, <2>6, <2>7 DEF DataInv
<1>15. ASSUME NEW k \in Conns, HandlerExit(k) PROVE DataInv'
  BY <1>1, <1>2, <1>15, CarriesSeen DEF HandlerExit, clientVars
<1>16. CASE Restart
  BY <1>1, <1>2, <1>16, CarriesSeen DEF Restart, clientVars
<1>17. CASE UNCHANGED vars
  BY <1>2, <1>17, CarriesSeen DEF vars, serverVars, clientVars
<1>18. QED
  BY <1>4, <1>5, <1>6, <1>7, <1>8, <1>9, <1>10, <1>11, <1>12, <1>13, <1>14, <1>15,
     <1>16, <1>17
  DEF Next, ClientStep, HandlerStep, ConnectionLost

LEMMA DataInvariant == Spec => []DataInv
BY InitDataInv, StepDataInv, TypeInvariant, PTL DEF Spec

----------------------------------------------------------------------------
\* The relay implements StoreAndForward.

LEMMA StepContract ==
  TypeInv /\ DataInv /\ [Next]_vars => [Contract!Next]_(Contract!vars)
<1> SUFFICES ASSUME TypeInv, DataInv, [Next]_vars
             PROVE  Contract!Next \/ UNCHANGED <<queue, handled>>
  BY DEF Contract!vars
<1>1. ASSUME NEW k \in Conns, OnDeliver(k)
      PROVE  Contract!Next \/ UNCHANGED <<queue, handled>>
  <2> DEFINE r == Head(down[k]).row
  <2>1. handled' = handled \cup {r} /\ queue' = queue
    BY <1>1 DEF OnDeliver, serverVars
  <2>2. r \in queue \cup handled
    <3>1. PICK q \in Row : Head(down[k]) = Delivery(q)
      BY <1>1, FrontFrame DEF OnDeliver
    <3>2. Head(down[k]) \in Range(down[k])
      BY <1>1, RangeTail DEF OnDeliver, TypeInv, TypeOK
    <3>3. QED
      BY <3>1, <3>2, DeliveryType DEF DataInv, Known, Seen
  <2> HIDE DEF r
  <2>3. CASE r \in queue
    BY <2>1, <2>3 DEF Contract!Next, Contract!Handle
  <2>4. CASE r \in handled
    BY <2>1, <2>4
  <2>5. QED
    BY <2>2, <2>3, <2>4
<1>2. ASSUME NEW k \in Conns, Enqueue(k) PROVE Contract!Next
  <2> DEFINE r == [id |-> NextId, from |-> Owner[k],
                   to |-> Head(up[k]).to, n |-> Head(up[k]).n]
  <2>1. queue' = queue \cup {r} /\ handled' = handled /\ r.id = lastId + 1
    BY <1>2 DEF Enqueue, clientVars, NextId
  <2> HIDE DEF r
  <2>2. \A q \in queue \cup handled : q.id \in Nat /\ q.id <= lastId
    BY DEF TypeInv, TypeOK, Row, DataInv, Ids, Seen
  <2>3. r \notin queue \cup handled
    BY <2>1, <2>2 DEF TypeInv, TypeOK
  <2>4. r \in queue' /\ Contract!Accept(r)
    BY <2>1, <2>3 DEF Contract!Accept
  <2>5. QED
    BY <2>4 DEF Contract!Next
<1>3. ASSUME NEW k \in Conns, DeleteQueued(k)
      PROVE  Contract!Next \/ UNCHANGED <<queue, handled>>
  <2> DEFINE a == Head(up[k])
  <2>1. queue' = {r \in queue : r.id # a.id} /\ handled' = handled
    BY <1>3 DEF DeleteQueued, clientVars
  <2>2. a \in Range(up[k]) /\ a.type = "ack"
    BY <1>3, RangeTail DEF DeleteQueued, TypeInv, TypeOK, InHand
  <2>3. \A r \in queue : r.id = a.id => r \in handled
    BY <2>2 DEF DataInv, AckSound
  <2> HIDE DEF a
  <2>4. CASE \E r \in queue : r.id = a.id
    <3>1. PICK r \in queue : r.id = a.id
      BY <2>4
    <3>2. queue' = queue \ {r}
      BY <2>1, <3>1 DEF DataInv, Ids, Seen
    <3>3. QED
      BY <2>1, <2>3, <3>1, <3>2 DEF Contract!Next, Contract!Forget
  <2>5. CASE ~ \E r \in queue : r.id = a.id
    BY <2>1, <2>5
  <2>6. QED
    BY <2>4, <2>5
<1>4. ASSUME NEW k \in Conns,
             \/ Register(k) \/ SendRegistered(k) \/ SelectQueued(k) \/ Lookup(k) \/ Send(k)
             \/ Recv(k) \/ HandlerExit(k)
      PROVE  UNCHANGED <<queue, handled>>
  BY <1>4
  DEF Register, SendRegistered, SelectQueued, Lookup, Send, Recv, HandlerExit, clientVars
<1>5. ASSUME NEW k \in Conns,
             \/ Connect(k) \/ HandshakeFails(k) \/ Drop(k) \/ ReadReply(k) \/ SendAck(k)
             \/ ConnectionLost(k) \/ \E to \in Clients : SendTo(k, to)
      PROVE  UNCHANGED <<queue, handled>>
  BY <1>5
  DEF Connect, HandshakeFails, Drop, ReadReply, SendAck, ConnectionLost, SendTo, serverVars,
      clientVars
<1>6. CASE Restart \/ UNCHANGED vars
  BY <1>6 DEF Restart, vars, serverVars, clientVars
<1>7. ASSUME NEW k \in Conns, ClientStep(k)
      PROVE  Contract!Next \/ UNCHANGED <<queue, handled>>
  BY <1>1, <1>5, <1>7 DEF ClientStep
<1>8. ASSUME NEW k \in Conns, HandlerStep(k)
      PROVE  Contract!Next \/ UNCHANGED <<queue, handled>>
  BY <1>2, <1>3, <1>4, <1>8 DEF HandlerStep
<1>9. CASE Next
  <2>1. CASE Restart
    BY <1>6, <2>1
  <2>2. ASSUME NEW k \in Conns,
               \/ Connect(k) \/ Drop(k) \/ HandshakeFails(k) \/ ClientStep(k) \/ HandlerStep(k)
               \/ \E to \in Clients : SendTo(k, to)
        PROVE  Contract!Next \/ UNCHANGED <<queue, handled>>
    BY <1>5, <1>7, <1>8, <2>2
  <2>3. QED
    BY <1>9, <2>1, <2>2 DEF Next
<1>10. QED
  BY <1>6, <1>9

\* At-least-once delivery (relay_client.py:97-100, relay_server.py:340-347): the
\* relay forgets a stored envelope only after its recipient's on_deliver had
\* it, whatever crashes, reconnections, duplicates and late acknowledgements
\* come between.
THEOREM RelayIsStoreAndForward == Spec => AtLeastOnce
<1>1. Init => Contract!Init
  BY DEF Init, Contract!Init
<1>2. TypeInv /\ DataInv /\ [Next]_vars => [Contract!Next]_(Contract!vars)
  BY StepContract
<1>3. QED
  BY <1>1, <1>2, TypeInvariant, DataInvariant, PTL DEF Spec, AtLeastOnce, Contract!Spec

----------------------------------------------------------------------------
\* No stored envelope is stranded.

\* The connections NoStranded speaks of.
Served(k) ==
  /\ hphase[k] \in {"deliver", "send", "serve", "frame"}
  /\ clients[Owner[k]] = k
  /\ cphase[k] # "closed"

\* A step that stores nothing, leaves what is in hand for delivery alone and
\* takes neither a queued row nor its acknowledgement off a served connection.
LEMMA KeepsOnItsWay ==
  ASSUME NoStranded,
         queue' \subseteq queue,
         \A k \in Conns : Served(k)' =>
           /\ Served(k)
           /\ \A r \in queue' :
                /\ Delivery(r) \in Range(down[k]) => Delivery(r) \in Range(down'[k])
                /\ [type |-> "ack", id |-> r.id] \in Range(up[k])
                   => [type |-> "ack", id |-> r.id] \in Range(up'[k]),
         \A k, h \in Conns : Served(k)' /\ hphase[h] \in {"deliver", "send"} =>
           hphase'[h] = hphase[h] /\ work'[h] = work[h] /\ target'[h] = target[h]
  PROVE  NoStranded'
<1> SUFFICES ASSUME NEW k \in Conns, Served(k)',
                    NEW r \in queue', r.to = Owner[k]
             PROVE  OnItsWay(r, k)'
  BY DEF NoStranded, Served, RowsFor
<1>1. Served(k) /\ r \in RowsFor(Owner[k])
  BY DEF RowsFor
<1>2. OnItsWay(r, k)
  BY <1>1 DEF NoStranded, Served
<1>3. CASE Delivery(r) \in Range(down[k]) \/ [type |-> "ack", id |-> r.id] \in Range(up[k])
  BY <1>3 DEF OnItsWay, Delivery
<1>4. ASSUME NEW h \in Conns, r \in work[h],
             \/ hphase[h] = "deliver"
             \/ hphase[h] = "send" /\ (IsFirst(r, work[h]) => target[h] = k)
      PROVE  OnItsWay(r, k)'
  BY <1>4 DEF OnItsWay, IsFirst
<1>5. QED
  BY <1>2, <1>3, <1>4 DEF OnItsWay

\* The row at hand is the only oldest one.
LEMMA FirstUnique ==
  ASSUME TypeInv, DataInv, NEW k \in Conns, NEW r \in work[k], NEW q \in work[k],
         IsFirst(r, work[k]), IsFirst(q, work[k])
  PROVE  q = r
<1>1. r \in Seen /\ q \in Seen /\ r.id \in Nat /\ q.id \in Nat
  BY DEF TypeInv, TypeOK, DataInv, Known, Row
<1>2. r.id = q.id
  BY <1>1 DEF IsFirst
<1>3. QED
  BY <1>1, <1>2 DEF DataInv, Ids

LEMMA StepNoStranded ==
  TypeInv /\ RouteInv /\ DataInv /\ NoStranded /\ [Next]_vars => NoStranded'
<1> SUFFICES ASSUME TypeInv, RouteInv, DataInv, NoStranded, [Next]_vars
             PROVE  NoStranded'
  OBVIOUS
<1> USE ConstAssumption DEF TypeInv, TypeOK
<1>1. ASSUME NEW k \in Conns, Connect(k) \/ HandshakeFails(k) \/ Recv(k)
      PROVE  NoStranded'
  <2>1. /\ UNCHANGED <<queue, clients, work, target, up, down>>
        /\ \A j \in Conns : Served(j)' => Served(j)
        /\ \A h \in Conns : hphase[h] \in {"deliver", "send"} => hphase'[h] = hphase[h]
    BY <1>1 DEF Connect, HandshakeFails, Recv, Served, clientVars, Fresh
  <2>2. QED
    BY <2>1, KeepsOnItsWay
<1>2. ASSUME NEW k \in Conns, Drop(k) \/ ReadReply(k) PROVE NoStranded'
  <2>1. /\ UNCHANGED <<queue, clients, hphase, work, target, up>>
        /\ \A j \in Conns : Served(j)' => Served(j)
    BY <1>2 DEF Drop, ReadReply, CloseClient, Served, serverVars
  <2>2. ASSUME NEW j \in Conns, Served(j)', NEW r \in queue,
               Delivery(r) \in Range(down[j])
        PROVE  Delivery(r) \in Range(down'[j])
    <3>1. CASE down'[j] = down[j]
      BY <2>2, <3>1
    <3>2. CASE down'[j] # down[j]
      <4>1. /\ down[j] # <<>> /\ Head(down[j]) = Registered
            /\ down'[j] = Tail(down[j])
        BY <1>2, <2>2, <3>2 DEF Drop, ReadReply, CloseClient, Served
      <4>2. Delivery(r) # Registered
        BY DeliveryType
      <4>3. QED
        BY <2>2, <4>1, <4>2, RangeTail
    <3>3. QED
      BY <3>1, <3>2
  <2>3. QED
    BY <2>1, <2>2, KeepsOnItsWay
<1>3. ASSUME NEW k \in Conns, OnDeliver(k) PROVE NoStranded'
  <2>1. /\ UNCHANGED <<queue, clients, hphase, work, target, up, down>>
        /\ \A j \in Conns : Served(j)' => Served(j)
    BY <1>3 DEF OnDeliver, Served, serverVars
  <2>2. QED
    BY <2>1, KeepsOnItsWay
<1>4. ASSUME NEW k \in Conns, SendAck(k) PROVE NoStranded'
  <2> DEFINE d == Head(down[k]).row
             a == [type |-> "ack", id |-> d.id]
  <2>1. /\ up' = [up EXCEPT ![k] = Append(@, a)]
        /\ down' = [down EXCEPT ![k] = Tail(@)]
        /\ cphase' = [cphase EXCEPT ![k] = "up"]
        /\ cphase[k] = "acking" /\ down[k] # <<>>
        /\ UNCHANGED <<queue, clients, hphase, work, target>>
    BY <1>4 DEF SendAck, serverVars, Greeting
  <2>2. Head(down[k]) = Delivery(d) /\ d \in Row
    BY <2>1, FrontFrame, DeliveryType
  <2>3. /\ Range(down[k]) = {Delivery(d)} \cup Range(down'[k])
        /\ Range(up'[k]) = Range(up[k]) \cup {a}
    <3>1. a \in UpFrame
      BY <2>2 DEF UpFrame, AckFrame, Row
    <3>2. Range(Append(up[k], a)) = Range(up[k]) \cup {a}
      BY <3>1, RangeAppend
    <3>3. Range(down[k]) = {Head(down[k])} \cup Range(Tail(down[k]))
      BY <2>1, RangeTail
    <3> HIDE DEF d, a
    <3>4. QED
      BY <2>1, <2>2, <3>2, <3>3
  <2>4. \A r \in Row : Delivery(r) = Delivery(d) => [type |-> "ack", id |-> r.id] = a
    BY <2>2 DEF Delivery
  <2> HIDE DEF d, a
  <2>5. ASSUME NEW j \in Conns, Served(j)', NEW r \in queue, r.to = Owner[j]
        PROVE  OnItsWay(r, j)'
    <3>1. OnItsWay(r, j)
      BY <2>1, <2>5 DEF NoStranded, Served, RowsFor
    <3>2. CASE j # k
      BY <2>1, <3>1, <3>2 DEF OnItsWay, Delivery
    <3>3. CASE j = k
      BY <2>1, <2>3, <2>4, <3>1, <3>3 DEF OnItsWay, Delivery
    <3>4. QED
      BY <3>2, <3>3
  <2>6. QED
    BY <2>1, <2>5 DEF NoStranded, Served, RowsFor
<1>5. ASSUME NEW k \in Conns, NEW to \in Clients, SendTo(k, to) PROVE NoStranded'
  <2> DEFINE f == [type |-> "relay", to |-> to, n |-> sent[Owner[k]] + 1]
  <2>1. /\ up' = [up EXCEPT ![k] = Append(@, f)]
        /\ UNCHANGED <<queue, clients, hphase, cphase, work, target, down>>
    BY <1>5 DEF SendTo, serverVars
  <2>2. f \in UpFrame
    BY DEF UpFrame, RelayFrame
  <2>3. Range(Append(up[k], f)) = Range(up[k]) \cup {f}
    BY <2>2, RangeAppend
  <2> HIDE DEF f
  <2>4. QED
    BY <2>1, <2>3, KeepsOnItsWay DEF Served
<1>6. ASSUME NEW k \in Conns, Register(k) PROVE NoStranded'
  <2>1. /\ UNCHANGED <<queue, work, target, up, down, cphase>>
        /\ \A j \in Conns : Served(j)' => Served(j)
        /\ \A h \in Conns : hphase[h] \in {"deliver", "send"} => hphase'[h] = hphase[h]
    BY <1>6 DEF Register, Served, clientVars
  <2>2. QED
    BY <2>1, KeepsOnItsWay
<1>7. ASSUME NEW k \in Conns, SendRegistered(k) PROVE NoStranded'
  <2>1. /\ UNCHANGED <<queue, clients, work, target, up, cphase>>
        /\ \A j \in Conns : Served(j)' => Served(j) /\ j # k
        /\ \A h \in Conns : hphase[h] \in {"deliver", "send"} => hphase'[h] = hphase[h]
        /\ \A j \in Conns : j # k => down'[j] = down[j]
    BY <1>7 DEF SendRegistered, Served, clientVars
  <2>2. QED
    BY <2>1, KeepsOnItsWay
<1>8. ASSUME NEW k \in Conns, SelectQueued(k) PROVE NoStranded'
  <2>1. /\ hphase[k] = "select"
        /\ work' = [work EXCEPT ![k] = RowsFor(Owner[k])]
        /\ hphase' = [hphase EXCEPT ![k] = AfterDelivery(RowsFor(Owner[k]))]
        /\ UNCHANGED <<queue, clients, target, up, down, cphase>>
    BY <1>8 DEF SelectQueued, clientVars
  <2>2. ASSUME NEW j \in Conns, Served(j)', NEW r \in queue, r.to = Owner[j]
        PROVE  OnItsWay(r, j)'
    <3>1. CASE j = k
      <4>1. r \in work'[k] /\ hphase'[k] = "deliver"
        BY <2>1, <2>2, <3>1 DEF RowsFor, AfterDelivery
      <4>2. QED
        BY <3>1, <4>1 DEF OnItsWay
    <3>2. CASE j # k
      <4>1. OnItsWay(r, j)
        BY <2>1, <2>2, <3>2 DEF NoStranded, Served, RowsFor
      <4>2. QED
        BY <2>1, <4>1 DEF OnItsWay, Delivery
    <3>3. QED
      BY <3>1, <3>2
  <2>3. QED
    BY <2>1, <2>2 DEF NoStranded, Served, RowsFor
<1>9. ASSUME NEW k \in Conns, Lookup(k) PROVE NoStranded'
  <2>1. PICK q \in work[k] : Lookup(k)!2!(q)
    BY <1>9 DEF Lookup
  <2>2. /\ hphase[k] = "deliver" /\ IsFirst(q, work[k])
        /\ UNCHANGED <<queue, clients, up, down, cphase>>
        /\ q \in Row /\ q.to \in Clients
    BY <1>9, <2>1 DEF Lookup, clientVars, Row
  <2>3. \A j \in Conns : Served(j)' => Served(j)
    BY <2>1, <2>2 DEF Served
  <2>4. ASSUME NEW j \in Conns, Served(j)', NEW r \in queue, r.to = Owner[j],
               r \in work[k]
        PROVE  OnItsWay(r, j)'
    <3>1. clients[r.to] = j
      BY <2>3, <2>4 DEF Served
    <3>2. CASE clients[q.to] = NoConn
      <4>1. r # q
        BY <3>1, <3>2
      <4>2. r \in work'[k] /\ hphase'[k] = "deliver"
        BY <2>1, <2>4, <3>2, <4>1 DEF AfterDelivery
      <4>3. QED
        BY <4>2 DEF OnItsWay
    <3>3. CASE clients[q.to] # NoConn
      <4>1. /\ r \in work'[k] /\ work'[k] = work[k] /\ hphase'[k] = "send"
            /\ target'[k] = clients[q.to]
        BY <2>1, <2>4, <3>3
      <4>2. IsFirst(r, work[k]) => target'[k] = j
        BY <2>2, <2>4, <3>1, <4>1, FirstUnique
      <4>3. QED
        BY <4>1, <4>2 DEF OnItsWay, IsFirst
    <3>4. QED
      BY <3>2, <3>3
  <2>5. ASSUME NEW j \in Conns, Served(j)', NEW r \in queue, r.to = Owner[j]
        PROVE  OnItsWay(r, j)'
    <3>1. OnItsWay(r, j)
      BY <2>3, <2>5 DEF NoStranded, Served, RowsFor
    <3>2. CASE r \in work[k]
      BY <2>4, <2>5, <3>2
    <3>3. CASE r \notin work[k]
      <4>1. \A h \in Conns : h # k =>
              hphase'[h] = hphase[h] /\ work'[h] = work[h] /\ target'[h] = target[h]
        BY <2>1
      <4>2. QED
        BY <2>2, <3>1, <3>3, <4>1 DEF OnItsWay, Delivery, IsFirst
    <3>4. QED
      BY <3>2, <3>3
  <2>6. QED
    BY <2>2, <2>5 DEF NoStranded, Served, RowsFor
<1>10. ASSUME NEW k \in Conns, Send(k) PROVE NoStranded'
  <2>1. PICK q \in work[k] : Send(k)!2!(q)
    BY <1>10 DEF Send
  <2>2. /\ hphase[k] = "send" /\ IsFirst(q, work[k])
        /\ work' = [work EXCEPT ![k] = @ \ {q}]
        /\ hphase' = [hphase EXCEPT ![k] = AfterDelivery(work[k] \ {q})]
        /\ target' = [target EXCEPT ![k] = NoConn]
        /\ UNCHANGED <<queue, clients, closed, up, cphase>>
        /\ q \in Row
    BY <1>10, <2>1 DEF Send, clientVars
  <2>3. \A j \in Conns : Served(j)' => Served(j)
    BY <2>2 DEF Served, AfterDelivery
  <2>4. \/ down' = [down EXCEPT ![target[k]] = Append(@, Delivery(q))]
        \/ down' = down /\ ~Reachable(target[k])
    BY <2>1
  <2>5. \A j \in Conns : Range(Append(down[j], Delivery(q))) = Range(down[j]) \cup {Delivery(q)}
    BY <2>2, DeliveryType, RangeAppend
  <2>6. \A j \in Conns : Range(down[j]) \subseteq Range(down'[j])
    <3>1. \A j \in Conns :
            down'[j] = down[j] \/ down'[j] = Append(down[j], Delivery(q))
      BY <2>4
    <3>2. QED
      BY <2>5, <3>1
  <2>7. ASSUME NEW j \in Conns, Served(j)', NEW r \in queue, r.to = Owner[j],
               r \in work[k], IsFirst(r, work[k]) => target[k] = j
        PROVE  OnItsWay(r, j)'
    <3>1. CASE r = q
      <4>1. target[k] = j /\ ~closed[j] /\ cphase[j] # "closed"
        BY <2>2, <2>3, <2>7, <3>1 DEF Served, RouteInv, Route
      <4>2. Delivery(r) \in Range(down'[j])
        BY <2>4, <2>5, <3>1, <4>1 DEF Reachable
      <4>3. QED
        BY <4>2 DEF OnItsWay, Delivery
    <3>2. CASE r # q
      <4>1. r \in work'[k] /\ hphase'[k] = "deliver"
        BY <2>2, <2>7, <3>2 DEF AfterDelivery
      <4>2. QED
        BY <4>1 DEF OnItsWay
    <3>3. QED
      BY <3>1, <3>2
  <2>8. ASSUME NEW j \in Conns, Served(j)', NEW r \in queue, r.to = Owner[j]
        PROVE  OnItsWay(r, j)'
    <3>1. OnItsWay(r, j)
      BY <2>3, <2>8 DEF NoStranded, Served, RowsFor
    <3>2. CASE r \in work[k] /\ (IsFirst(r, work[k]) => target[k] = j)
      BY <2>7, <2>8, <3>2
    <3>3. CASE ~(r \in work[k] /\ (IsFirst(r, work[k]) => target[k] = j))
      <4>1. \A h \in Conns : h # k =>
              hphase'[h] = hphase[h] /\ work'[h] = work[h] /\ target'[h] = target[h]
        BY <2>2
      <4>2. QED
        BY <2>2, <2>6, <3>1, <3>3, <4>1 DEF OnItsWay, Delivery, IsFirst
    <3>4. QED
      BY <3>2, <3>3
  <2>9. QED
    BY <2>2, <2>8 DEF NoStranded, Served, RowsFor
<1>11. ASSUME NEW k \in Conns, Enqueue(k) PROVE NoStranded'
  <2> DEFINE q == [id |-> NextId, from |-> Owner[k],
                   to |-> Head(up[k]).to, n |-> Head(up[k]).n]
  <2>1. /\ hphase[k] = "frame" /\ Head(up[k]).type = "relay"
        /\ queue' = queue \cup {q}
        /\ work' = [work EXCEPT ![k] = {q}]
        /\ hphase' = [hphase EXCEPT ![k] = "deliver"]
        /\ up' = [up EXCEPT ![k] = Tail(@)]
        /\ UNCHANGED <<clients, target, down, cphase>>
    BY <1>11 DEF Enqueue, clientVars
  <2> HIDE DEF q
  <2>2. Range(up[k]) = {Head(up[k])} \cup Range(up'[k])
    BY <1>11, <2>1, RangeTail DEF InHand
  <2>3. \A j \in Conns : \A r \in Row :
          [type |-> "ack", id |-> r.id] \in Range(up[j])
          => [type |-> "ack", id |-> r.id] \in Range(up'[j])
    <3>1. \A r \in Row : [type |-> "ack", id |-> r.id] # Head(up[k])
      BY <2>1
    <3>2. QED
      BY <2>1, <2>2, <3>1
  <2>4. \A j \in Conns : Served(j)' => Served(j)
    BY <2>1 DEF Served
  <2>5. ASSUME NEW j \in Conns, Served(j)', NEW r \in queue', r.to = Owner[j]
        PROVE  OnItsWay(r, j)'
    <3>1. CASE r = q
      BY <2>1, <3>1 DEF OnItsWay
    <3>2. CASE r \in queue
      <4>1. OnItsWay(r, j)
        BY <2>4, <2>5, <3>2 DEF NoStranded, Served, RowsFor
      <4>2. QED
        BY <2>1, <2>3, <3>2, <4>1 DEF OnItsWay, Delivery
    <3>3. QED
      BY <2>1, <3>1, <3>2
  <2>6. QED
    BY <2>5 DEF NoStranded, Served, RowsFor
<1>12. ASSUME NEW k \in Conns, DeleteQueued(k) PROVE NoStranded'
  <2>1. /\ hphase[k] = "frame"
        /\ queue' = {r \in queue : r.id # Head(up[k]).id}
        /\ up' = [up EXCEPT ![k] = Tail(@)]
        /\ hphase' = [hphase EXCEPT ![k] = "serve"]
        /\ UNCHANGED <<clients, work, target, down, cphase>>
    BY <1>12 DEF DeleteQueued, clientVars
  <2>2. Range(up[k]) = {Head(up[k])} \cup Range(up'[k])
    BY <2>1, RangeTail DEF InHand
  <2>3. \A j \in Conns : Served(j)' => Served(j)
    BY <2>1 DEF Served
  <2>4. \A j \in Conns : \A r \in queue' :
          [type |-> "ack", id |-> r.id] \in Range(up[j])
          => [type |-> "ack", id |-> r.id] \in Range(up'[j])
    <3>1. \A r \in queue' : [type |-> "ack", id |-> r.id] # Head(up[k])
      BY <2>1
    <3>2. QED
      BY <2>1, <2>2, <3>1
  <2>5. QED
    BY <2>1, <2>3, <2>4, KeepsOnItsWay
<1>13. ASSUME NEW k \in Conns, HandlerExit(k) PROVE NoStranded'
  <2>1. /\ UNCHANGED <<queue, work, target, down, cphase>>
        /\ hphase[k] \in {"registered", "serve"}
        /\ hphase' = [hphase EXCEPT ![k] = "done"]
        /\ up' = [up EXCEPT ![k] = <<>>]
    BY <1>13 DEF HandlerExit, clientVars
  <2>2. \A c \in Clients : clients'[c] \in {clients[c], NoConn}
    BY <1>13 DEF HandlerExit, Unregister
  <2>3. \A j \in Conns : Served(j)' => Served(j) /\ j # k
    BY <2>1, <2>2 DEF Served
  <2>4. QED
    BY <2>1, <2>3, KeepsOnItsWay
<1>14. CASE Restart
  BY <1>14 DEF Restart, NoStranded
<1>15. CASE UNCHANGED vars
  BY <1>15, KeepsOnItsWay DEF vars, serverVars, clientVars, Served
<1>16. QED
  BY <1>1, <1>2, <1>3, <1>4, <1>5, <1>6, <1>7, <1>8, <1>9, <1>10, <1>11, <1>12,
     <1>13, <1>14, <1>15
  DEF Next, ClientStep, HandlerStep, ConnectionLost

LEMMA InitNoStranded == Init => NoStranded
BY DEF Init, NoStranded

\* Whatever the interleaving of a sender's store-then-look-up with the
\* recipient's register-then-select (relay_server.py:195-197, 343-344) and of
\* both with lost connections, no stored envelope is left without a handler or
\* a channel that takes it to a recipient that is registered.
THEOREM NothingStranded == Spec => []NoStranded
BY InitNoStranded, StepNoStranded, TypeInvariant, RouteInvariant, DataInvariant, PTL
DEF Spec
============================================================================
