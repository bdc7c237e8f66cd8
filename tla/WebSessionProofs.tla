------------------------- MODULE WebSessionProofs --------------------------
(***************************************************************************)
(* Theorems about WebSession: types, BrowserKeyUsedOnce and                *)
(* BrowserShowsOnceInOrder, for any number of messages, losses and         *)
(* reconnects.                                                             *)
(***************************************************************************)
EXTENDS WebSession, SequenceTheorems, TLAPS

----------------------------------------------------------------------------
(* The inductive invariant *)

\* A handler's frame was handed over on its connection, and a handler derives a
\* session if and only if its frame is a hello_ack.
Fits ==
  \A r \in receiving :
    /\ r.link <= link
    /\ r.link = link => r.id \in handed
    /\ r.at = "derive" <=> rows[r.id] = HelloAck

TypeInv == TypeOK /\ Fits

InStep(j) == j.at = "ratchet"
Sealed(f) == [n |-> f.n, key |-> f.key, index |-> f.index]

\* A message is on its chain if its index is the position of its key.
OnChain(e) == e.key = e.index

\* The sender's chain may lag behind its index and never leads it.  Indices are
\* unique, and messages on the chain are in the order of sending.
Chain ==
  /\ sendKey <= sendIndex
  /\ \A j \in sending : j.n <= sent /\ (InStep(j) => j.key <= sendIndex)
  /\ \A e \in sealed : e.n <= sent /\ e.index < sendIndex
  /\ \A e, f \in sealed : e.index = f.index => e = f
  /\ \A e, f \in sealed :
       OnChain(e) /\ OnChain(f) /\ e.index < f.index => e.n < f.n
  /\ \A e \in sealed, j \in sending :
       OnChain(e) /\ InStep(j) /\ j.key = sendIndex => e.n < j.n

\* Without two calls in ratchetStep, every message is on the chain.
Alone ==
  "sent together" \in causes \/
    /\ sendKey = sendIndex
    /\ \A j \in sending : InStep(j) => j.key = sendKey
    /\ \A i, j \in sending : InStep(i) /\ InStep(j) => i = j
    /\ \A e \in sealed : OnChain(e)

\* What is on its way was sealed, each message in one row at most.
Carried ==
  /\ \A j \in sending : j.at = "seal" => Sealed(j) \in sealed
  /\ \A a \in 1..Len(rows) : rows[a] # HelloAck =>
       /\ Sealed(rows[a]) \in sealed
       /\ \A j \in sending : j.at = "seal" => j.index # rows[a].index
       /\ \A b \in 1..Len(rows) :
            rows[b] # HelloAck /\ rows[b].index = rows[a].index => a = b

\* The session is registered once, and nothing is decrypted before.
Once ==
  /\ hello => ~connected /\ \A r \in receiving : r.at # "derive"
  /\ \A r \in receiving : r.at = "derive" => ~connected
  /\ \A r, s \in receiving : r.at = "derive" /\ s.at = "derive" => r = s
  /\ ~connected => /\ recvKey = 0 /\ recvIndex = 0 /\ shown = <<>>
                   /\ \A r \in receiving : r.at \in {"derive", "fingerprint"}

\* No row is in two handlers, so the receiver's chain follows its index.
Follows ==
  "in hand twice" \in causes \/
    /\ \A r, s \in receiving : r.id = s.id => r = s
    /\ recvKey = recvIndex
    /\ \A r \in receiving :
         /\ r.at = "ratchet" => r.key = recvKey /\ rows[r.id].index = recvIndex
         /\ r.at = "open" => r.key = rows[r.id].index /\ rows[r.id].index < recvIndex

\* What was shown is on the chain, and before whatever is being opened.
InOrder ==
  causes \cap {"in hand twice", "saved out of order"} # {} \/
    /\ \A i, k \in 1..Len(shown) : i < k => shown[i] < shown[k]
    /\ \A i \in 1..Len(shown) : \E e \in sealed :
         /\ OnChain(e) /\ e.n = shown[i] /\ e.index < recvIndex
         /\ \A r \in receiving : r.at = "open" => e.index < rows[r.id].index

Inv == TypeInv /\ Chain /\ Alone /\ Carried /\ Once /\ Follows /\ InOrder

----------------------------------------------------------------------------
(* Types *)

\* A frame is a message or the hello_ack, and not both.
LEMMA Frames ==
  ASSUME TypeOK, NEW id \in 1..Len(rows)
  PROVE  /\ rows[id] # HelloAck => rows[id] \in Msg
         /\ rows[id].type = "hello_ack" <=> rows[id] = HelloAck
<1>1. rows[id] \in Msg \cup {HelloAck}
  BY DEF TypeOK
<1>2. QED
  BY <1>1 DEF Msg, HelloAck

\* What a send does to the rows.
LEMMA Sends ==
  ASSUME TypeOK, NEW frame \in Msg \cup {HelloAck}, SendTo(frame)
  PROVE  /\ rows' \in Seq(Msg \cup {HelloAck})
         /\ Len(rows') \in Nat /\ Len(rows') >= Len(rows)
         /\ \A a \in 1..Len(rows) : rows'[a] = rows[a]
         /\ \A a \in 1..Len(rows') : a \in 1..Len(rows) \/ (a = Len(rows) + 1 /\ rows'[a] = frame)
         /\ losses' \in 0..MaxLosses
         /\ UNCHANGED <<deleted, link, routed, due, flush, handed, acks>>
<1>1. rows \in Seq(Msg \cup {HelloAck}) /\ Len(rows) \in Nat
  BY DEF TypeOK
<1>2. CASE /\ rows' = Append(rows, frame)
           /\ UNCHANGED <<losses, deleted, link, routed, due, flush, handed, acks>>
  BY <1>1, <1>2 DEF TypeOK
<1>3. CASE losses < MaxLosses /\ losses' = losses + 1 /\ UNCHANGED relay
  BY <1>1, <1>3, WebAssumption DEF TypeOK, relay
<1>4. QED
  BY <1>2, <1>3 DEF SendTo

\* One call, two, or none.
LEMMA OneOrTwo ==
  1..0 = {} /\ 1..1 = {1} /\ 1 \in 0..2 /\ \A k \in 0..2 : k > 1 \/ k = 1 \/ k = 0
OBVIOUS

LEMMA NextAbove == \A b \in Nat : b < b + 1 /\ \A a \in Nat : a < b => a < b + 1
OBVIOUS

LEMMA NoneIn == 1..Len(<<>>) = {}
<1>1. Len(<<>>) = 0
  BY EmptySeq
<1>2. 1..0 = {}
  OBVIOUS
<1>3. QED
  BY <1>1, <1>2

\* The calls that Start adds.
LEMMA Starts ==
  ASSUME TypeOK, NEW k \in 0..2, Start(k)
  PROVE  /\ sent' = sent + k /\ sent' \in 0..MaxSend
         /\ sending' \subseteq Sending /\ sending \subseteq sending'
         /\ \A j \in sending' :
              j \in sending \/
              (j.n \in sent + 1..sent + k /\ j.key = sendKey /\ j.at = "ratchet")
<1> USE WebAssumption DEF TypeOK
<1>1. sent' = sent + k /\ sent' \in 0..MaxSend
  BY DEF Start
<1>2. ASSUME NEW i \in 1..k
      PROVE  [n |-> sent + i, key |-> sendKey, at |-> "ratchet", index |-> 0] \in Sending
  BY <1>2 DEF Start, Sending
<1>3. \A j \in sending' : j \in sending \/ \E i \in 1..k :
        j = [n |-> sent + i, key |-> sendKey, at |-> "ratchet", index |-> 0]
  BY DEF Start
<1>4. sending \subseteq sending'
  BY DEF Start
<1>5. sending' \subseteq Sending
  BY <1>2, <1>3
<1>6. \A j \in sending' :
        j \in sending \/ (j.n \in sent + 1..sent + k /\ j.key = sendKey /\ j.at = "ratchet")
  BY <1>3
<1>7. QED
  BY <1>1, <1>4, <1>5, <1>6

\* What is left when a handler is done.
LEMMA Finishes ==
  ASSUME TypeInv, NEW j \in receiving, Finished(j, receiving \ {j})
  PROVE  /\ UNCHANGED <<rows, deleted, link, routed, due, flush, handed>>
         /\ receiving' = receiving \ {j}
         /\ acks' \in Seq(handed)
<1>1. acks \in Seq(handed)
  BY DEF TypeInv, TypeOK
<1>2. j.link = link => j.id \in handed
  BY DEF TypeInv, TypeOK, Fits, Receiving
<1>3. acks' = acks \/ (acks' = Append(acks, j.id) /\ j.link = link)
  BY DEF Finished
<1>4. acks' \in Seq(handed)
  BY <1>1, <1>2, <1>3, AppendProperties
<1>5. QED
  BY <1>4 DEF Finished

LEMMA TypeInit == Init => TypeInv
<1> SUFFICES ASSUME Init PROVE TypeInv
  OBVIOUS
<1> USE WebAssumption DEF Init
<1>1. rows \in Seq(Msg \cup {HelloAck}) /\ shown \in Seq(1..MaxSend) /\ acks \in Seq(handed)
  BY EmptySeq
<1>2. Len(rows) = 0
  BY EmptySeq
<1>3. 0 \in 0..MaxSend /\ 0 \in 0..MaxLosses /\ 1 \in 1..MaxLinks /\ 0 \in 0..Len(rows)
  BY <1>2
<1>4. TypeOK
  BY <1>1, <1>3 DEF TypeOK
<1>5. QED
  BY <1>4 DEF TypeInv, Fits

\* Frames that are there stay what they are: a send disturbs no handler's type.
LEMMA SendKept ==
  ASSUME TypeInv, NEW frame \in Msg \cup {HelloAck}, SendTo(frame),
         greeted' \in BOOLEAN, sent' \in 0..MaxSend, sending' \subseteq Sending,
         causes' \subseteq Causes,
         UNCHANGED <<sendKey, sendIndex, hello, connected, receiving, recvKey, recvIndex,
                     sealed, seen, shown>>
  PROVE  TypeInv'
<1>1. /\ rows' \in Seq(Msg \cup {HelloAck})
      /\ Len(rows') \in Nat /\ Len(rows') >= Len(rows)
      /\ \A a \in 1..Len(rows) : rows'[a] = rows[a]
      /\ losses' \in 0..MaxLosses
      /\ UNCHANGED <<deleted, link, routed, due, flush, handed, acks>>
  BY Sends DEF TypeInv
<1>2. Len(rows) \in Nat
  BY DEF TypeInv, TypeOK
<1>3. routed' \in 0..Len(rows')
  BY <1>1, <1>2 DEF TypeInv, TypeOK
<1>4. 1..Len(rows) \subseteq 1..Len(rows')
  BY <1>1, <1>2
<1>5. TypeOK'
  BY <1>1, <1>3, <1>4 DEF TypeInv, TypeOK
<1>6. Fits'
  BY <1>1 DEF TypeInv, TypeOK, Fits
<1>7. QED
  BY <1>5, <1>6 DEF TypeInv

LEMMA TypeStep == TypeInv /\ [Next]_vars => TypeInv'
<1> SUFFICES ASSUME TypeInv, [Next]_vars PROVE TypeInv'
  OBVIOUS
<1> USE WebAssumption
<1>1. ASSUME NEW k \in 0..2, Greet(k) PROVE TypeInv'
  <2>1. HelloAck \in Msg \cup {HelloAck} /\ SendTo(HelloAck)
    BY <1>1 DEF Greet
  <2>2. Start(k) /\ UNCHANGED <<sendKey, sendIndex, initiator, sealed, seen, shown>>
    BY <1>1 DEF Greet
  <2>3. greeted' = TRUE /\ causes' \subseteq Causes
    BY <1>1 DEF Greet, Cause, Causes, TypeInv, TypeOK
  <2>4. sent' \in 0..MaxSend /\ sending' \subseteq Sending
    BY <2>2, Starts DEF TypeInv
  <2>5. QED
    BY <2>1, <2>2, <2>3, <2>4, SendKept DEF TypeInv, TypeOK, initiator
<1>2. ASSUME SendText PROVE TypeInv'
  <2>1. Start(1) /\ causes' \subseteq Causes
    BY <1>2 DEF SendText, Cause, Causes, TypeInv, TypeOK
  <2>2. UNCHANGED <<greeted, sendKey, sendIndex, losses, relay, initiator, sealed, seen, shown>>
    BY <1>2 DEF SendText
  <2>3. sent' \in 0..MaxSend /\ sending' \subseteq Sending
    BY <2>1, Starts DEF TypeInv
  <2>4. QED
    BY <2>1, <2>2, <2>3 DEF TypeInv, TypeOK, Fits, relay, initiator
<1>3. ASSUME NEW j \in sending, Ratchet(j) PROVE TypeInv'
  <2>1. sendKey' \in Nat /\ sendIndex' \in Nat
    <3>1. sendKey' = j.key + 1 /\ sendIndex' = sendIndex + 1
      BY <1>3 DEF Ratchet, NextKey
    <3>2. QED
      BY <3>1 DEF TypeInv, TypeOK, Sending
  <2>2. sending' \subseteq Sending
    BY <1>3 DEF Ratchet, TypeInv, TypeOK, Sending
  <2>3. sealed' \subseteq [n: 1..MaxSend, key: Nat, index: Nat]
    BY <1>3 DEF Ratchet, TypeInv, TypeOK, Sending
  <2>4. QED
    BY <1>3, <2>1, <2>2, <2>3 DEF Ratchet, TypeInv, TypeOK, Fits, relay, initiator
<1>4. ASSUME NEW j \in sending, Transmit(j) PROVE TypeInv'
  <2> DEFINE frame == [type |-> "msg", n |-> j.n, key |-> j.key, index |-> j.index]
  <2>1. frame \in Msg \cup {HelloAck} /\ SendTo(frame)
    BY <1>4 DEF Transmit, Msg, Sending, TypeInv, TypeOK
  <2>2. /\ sending' \subseteq Sending
        /\ UNCHANGED <<greeted, sent, sendKey, sendIndex, initiator, sealed, seen, shown>>
    BY <1>4 DEF Transmit, TypeInv, TypeOK
  <2>3. causes' \subseteq Causes
    BY <1>4 DEF Transmit, Cause, Causes, TypeInv, TypeOK
  <2> HIDE DEF frame
  <2>4. QED
    BY <2>1, <2>2, <2>3, SendKept DEF TypeInv, TypeOK, initiator
<1>5. ASSUME NEW id \in 1..Len(rows), NEW live \in BOOLEAN, Deliver(id, live) PROVE TypeInv'
  <2> DEFINE job == [id |-> id, link |-> link, key |-> 0,
                     at |-> IF rows[id] = HelloAck THEN "derive" ELSE "fingerprint"]
  <2>1. id \in Nat /\ Len(rows) \in Nat /\ handed' = handed \cup {id} /\ seen' = seen \cup {id}
    <3>1. Len(rows) \in Nat
      BY DEF TypeInv, TypeOK
    <3>2. handed' = handed \cup {id} /\ seen' = seen \cup {id}
      BY <1>5 DEF Deliver
    <3>3. QED
      BY <3>1, <3>2
  <2>2. job \in Receiving
    BY <2>1 DEF Receiving, TypeInv, TypeOK
  <2>3. receiving' = receiving \/ receiving' = receiving \cup {job}
    BY <1>5 DEF Deliver
  <2>4. acks' \in Seq(handed')
    <3>1. acks \in Seq(handed')
      BY <2>1, SeqMonotonic DEF TypeInv, TypeOK
    <3>2. acks' = acks \/ acks' = Append(acks, id)
      BY <1>5 DEF Deliver
    <3>3. QED
      BY <2>1, <3>1, <3>2, AppendProperties
  <2>5. causes' \subseteq Causes /\ hello' \in BOOLEAN
    BY <1>5 DEF Deliver, Cause, Causes, TypeInv, TypeOK
  <2>6. UNCHANGED <<responder, rows, deleted, link, due, connected, recvKey, recvIndex,
                    sealed, shown>>
    BY <1>5 DEF Deliver
  <2>11. routed' \in 0..Len(rows) /\ flush' \subseteq 1..Len(rows)
    <3>1. (routed' = routed \/ routed' = id) /\ flush' \subseteq flush
      BY <1>5 DEF Deliver
    <3>2. routed \in 0..Len(rows) /\ flush \subseteq 1..Len(rows)
      BY DEF TypeInv, TypeOK
    <3>3. QED
      BY <2>1, <3>1, <3>2
  <2>7. job.id = id /\ job.link = link /\ (job.at = "derive" <=> rows[id] = HelloAck)
    OBVIOUS
  <2> HIDE DEF job
  <2>8. TypeOK'
    BY <2>1, <2>2, <2>3, <2>4, <2>5, <2>6, <2>7, <2>11 DEF TypeInv, TypeOK, responder
  <2>9. Fits'
    BY <2>1, <2>3, <2>6, <2>7 DEF TypeInv, TypeOK, Fits, Receiving
  <2>10. QED
    BY <2>8, <2>9 DEF TypeInv
<1>6. ASSUME NEW j \in receiving, Register(j) PROVE TypeInv'
  BY <1>6, Finishes DEF Register, TypeInv, TypeOK, Fits, responder, history
<1>7. ASSUME NEW j \in receiving, LookUp(j) PROVE TypeInv'
  <2>1. causes' \subseteq Causes
    BY <1>7 DEF LookUp, Cause, Causes, TypeInv, TypeOK
  <2>2. UNCHANGED <<responder, hello, connected, recvKey, recvIndex, sealed, seen, shown>>
    BY <1>7 DEF LookUp
  <2>3. CASE Finished(j, receiving \ {j})
    BY <2>1, <2>2, <2>3, Finishes DEF TypeInv, TypeOK, Fits, responder
  <2>4. CASE Goes(j, [j EXCEPT !.at = "ratchet", !.key = recvKey]) /\ UNCHANGED relay
    <3> DEFINE to == [j EXCEPT !.at = "ratchet", !.key = recvKey]
    <3>1. to \in Receiving /\ to.id = j.id /\ to.link = j.link /\ to.at = "ratchet"
      BY DEF TypeInv, TypeOK, Receiving
    <3>2. rows[j.id] # HelloAck
      BY <1>7 DEF LookUp, TypeInv, Fits
    <3>3. receiving' = (receiving \ {j}) \cup {to}
      BY <2>4 DEF Goes
    <3> HIDE DEF to
    <3>4. QED
      BY <2>1, <2>2, <2>4, <3>1, <3>2, <3>3 DEF TypeInv, TypeOK, Fits, responder, relay
  <2>5. QED
    BY <1>7, <2>3, <2>4 DEF LookUp
<1>8. ASSUME NEW j \in receiving, Advance(j) PROVE TypeInv'
  <2> DEFINE to == [j EXCEPT !.at = "open"]
  <2>1. to \in Receiving /\ to.id = j.id /\ to.link = j.link /\ to.at = "open"
    BY DEF TypeInv, TypeOK, Receiving
  <2>2. rows[j.id] # HelloAck
    BY <1>8 DEF Advance, TypeInv, Fits
  <2>3. receiving' = (receiving \ {j}) \cup {to}
    BY <1>8 DEF Advance, Goes
  <2>4. recvKey' = j.key + 1 /\ recvIndex' = recvIndex + 1
    BY <1>8 DEF Advance, NextKey, IndexAfter
  <2>5. UNCHANGED <<responder, relay, hello, connected, history>>
    BY <1>8 DEF Advance
  <2> HIDE DEF to
  <2>6. recvKey' \in Nat /\ recvIndex' \in Nat
    BY <2>4 DEF TypeInv, TypeOK, Receiving
  <2>7. QED
    BY <2>1, <2>2, <2>3, <2>5, <2>6 DEF TypeInv, TypeOK, Fits, responder, relay, history
<1>9. ASSUME NEW j \in receiving, Open(j) PROVE TypeInv'
  <2>1. causes' \subseteq Causes
    BY <1>9 DEF Open, Cause, Causes, TypeInv, TypeOK
  <2>2. rows[j.id] \in Msg
    BY <1>9, Frames DEF Open, TypeInv, TypeOK, Fits
  <2>3. shown' \in Seq(1..MaxSend)
    <3>1. rows[j.id].n \in 1..MaxSend /\ shown \in Seq(1..MaxSend)
      BY <2>2 DEF Msg, TypeInv, TypeOK
    <3>2. shown' = shown \/ shown' = Append(shown, rows[j.id].n)
      BY <1>9 DEF Open
    <3>3. QED
      BY <3>1, <3>2, AppendProperties
  <2>4. Finished(j, receiving \ {j})
        /\ UNCHANGED <<responder, hello, connected, recvKey, recvIndex, sealed, seen>>
    BY <1>9 DEF Open
  <2>5. QED
    BY <2>1, <2>3, <2>4, Finishes DEF TypeInv, TypeOK, Fits, responder
<1>10. ASSUME NEW k \in 0..Len(acks), NEW m \in routed..Len(rows), Reconnect(k, m) PROVE TypeInv'
  <2>1. /\ link' \in 1..MaxLinks /\ link' = link + 1 /\ routed' \in 0..Len(rows)
        /\ due' = TRUE /\ flush' = {} /\ handed' = {} /\ acks' = <<>>
    BY <1>10 DEF Reconnect, TypeInv, TypeOK
  <2>2. deleted' \subseteq 1..Len(rows)
    <3>1. acks \in Seq(handed) /\ Len(acks) \in Nat /\ handed \subseteq 1..Len(rows)
      BY DEF TypeInv, TypeOK
    <3>2. \A i \in 1..k : acks[i] \in 1..Len(rows)
      <4>1. \A i \in 1..k : i \in 1..Len(acks)
        BY <3>1
      <4>2. QED
        BY <3>1, <4>1, ElementOfSeq
    <3>3. QED
      BY <1>10, <3>2 DEF Reconnect, TypeInv, TypeOK
  <2>3. UNCHANGED <<responder, rows, initiator, history>>
    BY <1>10 DEF Reconnect
  <2>4. acks' \in Seq(handed')
    BY <2>1, EmptySeq
  <2>5. TypeOK'
    BY <2>1, <2>2, <2>3, <2>4 DEF TypeInv, TypeOK, responder, initiator, history
  <2>6. Fits'
    BY <2>1, <2>3 DEF TypeInv, TypeOK, Fits, Receiving, initiator
  <2>7. QED
    BY <2>5, <2>6 DEF TypeInv
<1>11. CASE UNCHANGED vars
  BY <1>11 DEF vars, responder, relay, initiator, history, TypeInv, TypeOK, Fits
<1>12. CASE Select
  BY <1>12 DEF Select, responder, initiator, history, TypeInv, TypeOK, Fits
<1>13. QED
  BY <1>1, <1>2, <1>3, <1>4, <1>5, <1>6, <1>7, <1>8, <1>9, <1>10, <1>11, <1>12
     DEF Next, SenderSteps, ReceiverSteps, Handover

----------------------------------------------------------------------------
(* The sender *)

\* A call that goes on from ratchetStep: what it leaves, and what it sealed.
LEMMA Ratchets ==
  ASSUME TypeInv, NEW j \in sending, Ratchet(j)
  PROVE  /\ InStep(j) /\ j.n \in Nat /\ j.key \in Nat
         /\ sendKey' = j.key + 1 /\ sendIndex' = sendIndex + 1
         /\ \E k : /\ sending' = (sending \ {j}) \cup {k}
                  /\ k.n = j.n /\ k.key = j.key /\ k.at = "seal" /\ k.index = sendIndex
         /\ \E e : /\ sealed' = sealed \cup {e}
                  /\ e.n = j.n /\ e.key = j.key /\ e.index = sendIndex
                  /\ e = [n |-> j.n, key |-> j.key, index |-> sendIndex]
         /\ UNCHANGED <<sent, rows, causes>>
<1>1. j \in Sending
  BY DEF TypeInv, TypeOK
<1> DEFINE k == [j EXCEPT !.at = "seal", !.index = sendIndex]
           e == [n |-> j.n, key |-> j.key, index |-> sendIndex]
<1>2. k.n = j.n /\ k.key = j.key /\ k.at = "seal" /\ k.index = sendIndex
  BY <1>1 DEF Sending
<1>3. e.n = j.n /\ e.key = j.key /\ e.index = sendIndex
  OBVIOUS
<1>4. sending' = (sending \ {j}) \cup {k} /\ sealed' = sealed \cup {e}
  BY DEF Ratchet
<1>5. sendKey' = j.key + 1 /\ sendIndex' = sendIndex + 1 /\ UNCHANGED <<sent, rows, causes>>
  BY DEF Ratchet, NextKey, relay
<1>6. InStep(j) /\ j.n \in Nat /\ j.key \in Nat
  BY <1>1 DEF Ratchet, InStep, Sending
<1> HIDE DEF k, e
<1>7. e = [n |-> j.n, key |-> j.key, index |-> sendIndex]
  BY DEF e
<1>8. QED
  BY <1>2, <1>3, <1>4, <1>5, <1>6, <1>7

\* Everything else leaves the sender as it is.
SenderIdle == UNCHANGED <<sent, sending, sendKey, sendIndex, sealed>>

LEMMA OtherSteps ==
  ASSUME [Next]_vars
  PROVE  \/ \E k \in 0..2 : Greet(k)
         \/ SendText
         \/ \E j \in sending : Ratchet(j) \/ Transmit(j)
         \/ SenderIdle /\ UNCHANGED rows
<1>1. ASSUME NEW j \in receiving, Register(j) \/ LookUp(j) \/ Advance(j) \/ Open(j)
      PROVE  SenderIdle /\ UNCHANGED rows
  BY <1>1 DEF Register, LookUp, Advance, Open, Finished, Goes, SenderIdle, responder, relay, history
<1>2. ASSUME NEW id \in 1..Len(rows), NEW live \in BOOLEAN, Deliver(id, live)
      PROVE  SenderIdle /\ UNCHANGED rows
  BY <1>2 DEF Deliver, SenderIdle, responder
<1>3. ASSUME NEW k \in 0..Len(acks), NEW m \in routed..Len(rows), Reconnect(k, m)
      PROVE  SenderIdle /\ UNCHANGED rows
  BY <1>3 DEF Reconnect, SenderIdle, responder, history
<1>4. CASE UNCHANGED vars
  BY <1>4 DEF vars, SenderIdle, responder, relay, history
<1>5. CASE Select
  BY <1>5 DEF Select, SenderIdle, responder, history
<1>6. QED
  BY <1>1, <1>2, <1>3, <1>4, <1>5 DEF Next, SenderSteps, ReceiverSteps, Handover

LEMMA ChainStep == TypeInv /\ Chain /\ [Next]_vars => Chain'
<1> SUFFICES ASSUME TypeInv, Chain, [Next]_vars PROVE Chain'
  OBVIOUS
<1>1. /\ sendKey \in Nat /\ sendIndex \in Nat /\ sent \in Nat
      /\ \A j \in sending : j.n \in Nat /\ j.key \in Nat
      /\ \A e \in sealed : e.n \in Nat /\ e.key \in Nat /\ e.index \in Nat
  BY DEF TypeInv, TypeOK, Sending
<1>2. ASSUME NEW k \in 0..2, Start(k), UNCHANGED <<sendKey, sendIndex, sealed>>
      PROVE  Chain'
  <2>1. /\ sent' = sent + k
        /\ \A j \in sending' : j \in sending \/
             (j.n \in sent + 1..sent + k /\ j.key = sendKey /\ j.at = "ratchet")
    BY <1>2, Starts DEF TypeInv
  <2>2. \A j \in sending' : j.n <= sent' /\ (InStep(j) => j.key <= sendIndex)
    BY <1>1, <2>1 DEF Chain, InStep
  <2>3. \A e \in sealed, j \in sending' :
          OnChain(e) /\ InStep(j) /\ j.key = sendIndex => e.n < j.n
    BY <1>1, <2>1 DEF Chain, InStep
  <2>4. \A e \in sealed : e.n <= sent'
    BY <1>1, <2>1 DEF Chain
  <2>5. QED
    BY <1>2, <2>2, <2>3, <2>4 DEF Chain
<1>3. CASE \E j \in sending : Ratchet(j)
  <2>1. PICK j \in sending : Ratchet(j)
    BY <1>3
  <2>2. PICK k : /\ sending' = (sending \ {j}) \cup {k}
                 /\ k.n = j.n /\ k.key = j.key /\ k.at = "seal" /\ k.index = sendIndex
    BY <2>1, Ratchets
  <2>3. PICK e : /\ sealed' = sealed \cup {e}
                 /\ e.n = j.n /\ e.key = j.key /\ e.index = sendIndex
    BY <2>1, Ratchets
  <2>4. InStep(j) /\ sendKey' = j.key + 1 /\ sendIndex' = sendIndex + 1 /\ sent' = sent
    BY <2>1, Ratchets
  <2>5. sendKey' <= sendIndex'
    BY <1>1, <2>4 DEF Chain
  <2>6. \A i \in sending' : i.n <= sent' /\ (InStep(i) => i.key <= sendIndex)
    BY <2>2, <2>4 DEF Chain, InStep
  <2>7. \A f \in sealed' : f.n <= sent' /\ f.index < sendIndex'
    BY <1>1, <2>3, <2>4 DEF Chain
  <2>8. \A f \in sealed : f.index < e.index
    BY <2>3 DEF Chain
  <2>9. \A f, g \in sealed' : f.index = g.index => f = g
    BY <1>1, <2>3, <2>8 DEF Chain
  <2>10. \A f \in sealed : OnChain(f) /\ OnChain(e) => f.n < e.n
    BY <2>3, <2>4 DEF Chain, OnChain
  <2>11. \A f, g \in sealed' : OnChain(f) /\ OnChain(g) /\ f.index < g.index => f.n < g.n
    BY <1>1, <2>3, <2>8, <2>10 DEF Chain
  <2>12. \A i \in sending' : InStep(i) => i.key # sendIndex' /\ i.key <= sendIndex'
    BY <1>1, <2>2, <2>4, <2>6 DEF InStep
  <2>13. QED
    BY <2>5, <2>6, <2>7, <2>9, <2>11, <2>12 DEF Chain
<1>4. CASE \E j \in sending : Transmit(j)
  BY <1>4 DEF Transmit, Chain, InStep
<1>5. CASE SenderIdle
  BY <1>5 DEF SenderIdle, Chain
<1>6. ASSUME NEW k \in 0..2, Greet(k) PROVE Chain'
  BY <1>2, <1>6 DEF Greet
<1>7. CASE SendText
  <2>1. 1 \in 0..2 /\ Start(1) /\ UNCHANGED <<sendKey, sendIndex, sealed>>
    BY <1>7, OneOrTwo DEF SendText
  <2>2. QED
    BY <1>2, <2>1
<1>8. QED
  BY <1>3, <1>4, <1>5, <1>6, <1>7, OtherSteps

LEMMA AloneStep == TypeInv /\ Chain /\ Alone /\ [Next]_vars => Alone'
<1> SUFFICES ASSUME TypeInv, Chain, Alone, [Next]_vars, "sent together" \notin causes'
             PROVE  Alone'
  BY DEF Alone
<1>1. causes \subseteq causes'
  BY DEF Next, SenderSteps, ReceiverSteps, Handover, Greet, SendText, Ratchet, Transmit, Select,
         Deliver, Register, LookUp, Advance, Open, Reconnect, vars, history
<1>2. /\ sendKey = sendIndex
      /\ \A j \in sending : InStep(j) => j.key = sendKey
      /\ \A i, j \in sending : InStep(i) /\ InStep(j) => i = j
      /\ \A e \in sealed : OnChain(e)
  BY <1>1 DEF Alone
<1>3. ASSUME Start(1), ~InRatchet, UNCHANGED <<sendKey, sendIndex, sealed>>
      PROVE  Alone'
  <2> DEFINE new == [n |-> sent + 1, key |-> sendKey, at |-> "ratchet", index |-> 0]
  <2>1. sending' = sending \cup {new}
    BY <1>3, OneOrTwo DEF Start
  <2>2. new.key = sendKey
    OBVIOUS
  <2>3. \A i \in sending : ~InStep(i)
    BY <1>3 DEF InRatchet, InStep
  <2> HIDE DEF new
  <2>4. QED
    BY <1>2, <1>3, <2>1, <2>2, <2>3 DEF Alone
<1>4. ASSUME NEW k \in 0..2, Greet(k) PROVE Alone'
  <2>1. Start(k) /\ UNCHANGED <<sendKey, sendIndex, sealed>> /\ ~(k > 1 \/ (k = 1 /\ InRatchet))
    BY <1>4 DEF Greet, Cause
  <2>2. CASE k = 1
    BY <1>3, <2>1, <2>2
  <2>3. CASE k = 0
    <3>1. sending' = sending
      BY <2>1, <2>3, OneOrTwo DEF Start
    <3>2. QED
      BY <1>2, <2>1, <3>1 DEF Alone
  <2>4. QED
    BY <2>1, <2>2, <2>3, OneOrTwo
<1>5. CASE SendText
  BY <1>3, <1>5 DEF SendText, Cause
<1>6. CASE \E j \in sending : Ratchet(j)
  <2>1. PICK j \in sending : Ratchet(j)
    BY <1>6
  <2>2. PICK k : sending' = (sending \ {j}) \cup {k} /\ k.at = "seal"
    BY <2>1, Ratchets
  <2>3. PICK e : sealed' = sealed \cup {e} /\ e.key = j.key /\ e.index = sendIndex
    BY <2>1, Ratchets
  <2>4. InStep(j) /\ sendKey' = j.key + 1 /\ sendIndex' = sendIndex + 1
    BY <2>1, Ratchets
  <2>5. \A i \in sending' : ~InStep(i)
    BY <1>2, <2>2, <2>4 DEF InStep
  <2>6. QED
    BY <1>2, <2>3, <2>4, <2>5 DEF Alone, OnChain
<1>7. CASE \E j \in sending : Transmit(j)
  BY <1>2, <1>7 DEF Transmit, Alone
<1>8. CASE SenderIdle
  BY <1>2, <1>8 DEF SenderIdle, Alone
<1>9. QED
  BY <1>4, <1>5, <1>6, <1>7, <1>8, OtherSteps

\* Two calls that are encrypting have different indices.
LEMMA OwnIndex ==
  ASSUME TypeInv, Chain, Carried, NEW i \in sending, NEW j \in sending,
         i.at = "seal", j.at = "seal", i.index = j.index
  PROVE  i = j
<1>1. Sealed(i) \in sealed /\ Sealed(j) \in sealed
  BY DEF Carried
<1>2. Sealed(i).index = Sealed(j).index
  BY DEF Sealed
<1>3. Sealed(i) = Sealed(j)
  BY <1>1, <1>2 DEF Chain
<1>4. i.n = j.n /\ i.key = j.key
  BY <1>3 DEF Sealed
<1>5. i \in Sending /\ j \in Sending
  BY DEF TypeInv, TypeOK
<1>6. QED
  BY <1>4, <1>5 DEF Sending

LEMMA CarriedStep == TypeInv /\ Chain /\ Carried /\ [Next]_vars => Carried'
<1> SUFFICES ASSUME TypeInv, Chain, Carried, [Next]_vars PROVE Carried'
  OBVIOUS
<1>1. /\ \A j \in sending : j.at = "seal" => Sealed(j) \in sealed
      /\ \A a \in 1..Len(rows) : rows[a] # HelloAck =>
           /\ Sealed(rows[a]) \in sealed
           /\ \A j \in sending : j.at = "seal" => j.index # rows[a].index
           /\ \A b \in 1..Len(rows) :
                rows[b] # HelloAck /\ rows[b].index = rows[a].index => a = b
  BY DEF Carried
<1>2. ASSUME NEW k \in 0..2, Greet(k) PROVE Carried'
  <2>1. Start(k) /\ SendTo(HelloAck) /\ HelloAck \in Msg \cup {HelloAck} /\ sealed' = sealed
    BY <1>2 DEF Greet
  <2>2. \A j \in sending' : j.at = "seal" => j \in sending
    BY <2>1, Starts DEF TypeInv
  <2>3. \A a \in 1..Len(rows') : rows'[a] # HelloAck => a \in 1..Len(rows) /\ rows'[a] = rows[a]
    BY <2>1, Sends DEF TypeInv
  <2>4. QED
    BY <1>1, <2>1, <2>2, <2>3 DEF Carried, Sealed
<1>3. CASE SendText
  <2>1. Start(1) /\ 1 \in 0..2 /\ sealed' = sealed /\ rows' = rows
    BY <1>3, OneOrTwo DEF SendText, relay
  <2>2. \A j \in sending' : j.at = "seal" => j \in sending
    BY <2>1, Starts DEF TypeInv
  <2>3. QED
    BY <1>1, <2>1, <2>2 DEF Carried, Sealed
<1>4. CASE \E j \in sending : Ratchet(j)
  <2>1. PICK j \in sending : Ratchet(j)
    BY <1>4
  <2>2. PICK k : /\ sending' = (sending \ {j}) \cup {k}
                 /\ k.n = j.n /\ k.key = j.key /\ k.at = "seal" /\ k.index = sendIndex
    BY <2>1, Ratchets
  <2>3. PICK e : /\ sealed' = sealed \cup {e}
                 /\ e = [n |-> j.n, key |-> j.key, index |-> sendIndex]
    BY <2>1, Ratchets
  <2>4. rows' = rows
    BY <2>1, Ratchets
  <2>5. Sealed(k) = e
    BY <2>2, <2>3 DEF Sealed
  <2>6. \A a \in 1..Len(rows) : rows[a] # HelloAck => rows[a].index # sendIndex
    <3>1. SUFFICES ASSUME NEW a \in 1..Len(rows), rows[a] # HelloAck
                   PROVE  rows[a].index # sendIndex
      OBVIOUS
    <3>2. Sealed(rows[a]) \in sealed /\ Sealed(rows[a]).index = rows[a].index
      BY <1>1, <3>1 DEF Sealed
    <3>3. rows[a].index < sendIndex
      BY <3>2 DEF Chain
    <3>4. rows[a].index \in Nat /\ sendIndex \in Nat
      BY <3>2 DEF TypeInv, TypeOK
    <3>5. QED
      BY <3>3, <3>4
  <2>7. \A i \in sending' : i.at = "seal" => Sealed(i) \in sealed'
    BY <1>1, <2>2, <2>3, <2>5
  <2>8. \A a \in 1..Len(rows) : rows[a] # HelloAck =>
          \A i \in sending' : i.at = "seal" => i.index # rows[a].index
    BY <1>1, <2>2, <2>6
  <2>9. QED
    BY <1>1, <2>3, <2>4, <2>7, <2>8 DEF Carried, Sealed
<1>5. CASE \E j \in sending : Transmit(j)
  <2>1. PICK j \in sending : Transmit(j)
    BY <1>5
  <2> DEFINE frame == [type |-> "msg", n |-> j.n, key |-> j.key, index |-> j.index]
  <2>2. SendTo(frame) /\ j.at = "seal" /\ sending' = sending \ {j} /\ sealed' = sealed
    BY <2>1 DEF Transmit
  <2>3. frame \in Msg \cup {HelloAck} /\ frame.index = j.index /\ Sealed(frame) = Sealed(j)
    BY DEF Msg, Sending, TypeInv, TypeOK, Sealed
  <2> HIDE DEF frame
  <2>4. \A a \in 1..Len(rows') :
          (a \in 1..Len(rows) /\ rows'[a] = rows[a]) \/ (a = Len(rows) + 1 /\ rows'[a] = frame)
    BY <2>2, <2>3, Sends DEF TypeInv
  <2>5. ASSUME NEW a \in 1..Len(rows'), rows'[a] # HelloAck
        PROVE  /\ Sealed(rows'[a]) \in sealed'
               /\ \A i \in sending' : i.at = "seal" => i.index # rows'[a].index
               /\ \A b \in 1..Len(rows') :
                    rows'[b] # HelloAck /\ rows'[b].index = rows'[a].index => a = b
    <3>1. \A i \in sending' : i.at = "seal" => i.index # j.index
      BY <2>2, OwnIndex
    <3>2. Sealed(j) \in sealed
      BY <1>1, <2>2
    <3>3. CASE a \in 1..Len(rows) /\ rows'[a] = rows[a]
      <4>1. rows[a].index # j.index
        BY <1>1, <2>2, <2>5, <3>3
      <4>2. QED
        BY <1>1, <2>2, <2>3, <2>4, <2>5, <3>3, <4>1
    <3>4. CASE a = Len(rows) + 1 /\ rows'[a] = frame
      <4>1. \A b \in 1..Len(rows) : rows[b] # HelloAck => rows[b].index # j.index
        BY <1>1, <2>2
      <4>2. QED
        BY <2>2, <2>3, <2>4, <3>1, <3>2, <3>4, <4>1
    <3>5. QED
      BY <2>4, <3>3, <3>4
  <2>6. \A i \in sending' : i.at = "seal" => Sealed(i) \in sealed'
    BY <1>1, <2>2
  <2>7. QED
    BY <2>5, <2>6 DEF Carried, Sealed
<1>6. CASE SenderIdle /\ UNCHANGED rows
  BY <1>1, <1>6 DEF SenderIdle, Carried, Sealed
<1>7. QED
  BY <1>2, <1>3, <1>4, <1>5, <1>6, OtherSteps

----------------------------------------------------------------------------
(* The receiver *)

ReceiverIdle == UNCHANGED <<hello, connected, receiving, recvKey, recvIndex, shown>>
RowsStay == \A a \in 1..Len(rows) : a \in 1..Len(rows') /\ rows'[a] = rows[a]

\* What is there stays, and what the receiver does not do leaves it alone.
LEMMA Stays ==
  ASSUME TypeInv, [Next]_vars
  PROVE  RowsStay /\ sealed \subseteq sealed' /\ causes \subseteq causes'
<1>1. Len(rows) \in Nat
  BY DEF TypeInv, TypeOK
<1>2. ASSUME NEW frame \in Msg \cup {HelloAck}, SendTo(frame) PROVE RowsStay
  BY <1>1, <1>2, Sends DEF TypeInv, RowsStay
<1>3. ASSUME rows' = rows PROVE RowsStay
  BY <1>3 DEF RowsStay
<1>4. CASE \E k \in 0..2 : Greet(k)
  <2>1. SendTo(HelloAck) /\ HelloAck \in Msg \cup {HelloAck}
    BY <1>4 DEF Greet
  <2>2. QED
    BY <1>2, <1>4, <2>1 DEF Greet
<1>5. CASE SendText
  BY <1>3, <1>5 DEF SendText, relay
<1>6. CASE \E j \in sending : Ratchet(j) \/ Transmit(j)
  <2>1. PICK j \in sending : Ratchet(j) \/ Transmit(j)
    BY <1>6
  <2>2. CASE Ratchet(j)
    BY <1>3, <2>2 DEF Ratchet, relay
  <2>3. CASE Transmit(j)
    <3> DEFINE frame == [type |-> "msg", n |-> j.n, key |-> j.key, index |-> j.index]
    <3>1. SendTo(frame) /\ frame \in Msg \cup {HelloAck}
      BY <2>3 DEF Transmit, Msg, Sending, TypeInv, TypeOK
    <3>2. sealed' = sealed /\ causes \subseteq causes'
      BY <2>3 DEF Transmit
    <3> HIDE DEF frame
    <3>3. QED
      BY <1>2, <3>1, <3>2
  <2>4. QED
    BY <2>1, <2>2, <2>3
<1>7. CASE SenderIdle /\ UNCHANGED rows
  <2>1. causes \subseteq causes'
    BY DEF Next, SenderSteps, ReceiverSteps, Handover, Greet, SendText, Ratchet, Transmit, Select,
           Deliver, Register, LookUp, Advance, Open, Reconnect, vars, history
  <2>2. QED
    BY <1>3, <1>7, <2>1 DEF SenderIdle
<1>8. QED
  BY <1>4, <1>5, <1>6, <1>7, OtherSteps

LEMMA ReceiverCases ==
  ASSUME [Next]_vars
  PROVE  \/ \E id \in 1..Len(rows), live \in BOOLEAN : Deliver(id, live)
         \/ \E j \in receiving : Register(j) \/ LookUp(j) \/ Advance(j) \/ Open(j)
         \/ ReceiverIdle
<1>1. ASSUME NEW k \in 0..2, Greet(k) PROVE ReceiverIdle
  BY <1>1 DEF Greet, ReceiverIdle, initiator
<1>2. CASE SendText
  BY <1>2 DEF SendText, ReceiverIdle, initiator
<1>3. ASSUME NEW j \in sending, Ratchet(j) \/ Transmit(j) PROVE ReceiverIdle
  BY <1>3 DEF Ratchet, Transmit, ReceiverIdle, initiator
<1>4. ASSUME NEW k \in 0..Len(acks), NEW m \in routed..Len(rows), Reconnect(k, m) PROVE ReceiverIdle
  BY <1>4 DEF Reconnect, ReceiverIdle, initiator, history
<1>5. CASE UNCHANGED vars
  BY <1>5 DEF vars, ReceiverIdle, initiator, history
<1>6. CASE Select
  BY <1>6 DEF Select, ReceiverIdle, initiator, history
<1>7. QED
  BY <1>1, <1>2, <1>3, <1>4, <1>5, <1>6 DEF Next, SenderSteps, ReceiverSteps, Handover

\* A frame is handed to onmessage.
LEMMA Delivers ==
  ASSUME TypeInv, NEW id \in 1..Len(rows), NEW live \in BOOLEAN, Deliver(id, live)
  PROVE  /\ UNCHANGED <<rows, connected, recvKey, recvIndex, sealed, shown>>
         /\ \/ /\ receiving' = receiving /\ hello' = hello
            \/ \E job : /\ receiving' = receiving \cup {job}
                        /\ job.id = id
                        /\ job.at \in {"derive", "fingerprint"}
                        /\ job.at = "derive" => hello /\ ~hello'
                        /\ job.at # "derive" => hello' = hello
                        /\ (\E j \in receiving : j.id = id) => "in hand twice" \in causes'
<1> DEFINE job == [id |-> id, link |-> link, key |-> 0,
                   at |-> IF rows[id] = HelloAck THEN "derive" ELSE "fingerprint"]
<1>1. UNCHANGED <<rows, connected, recvKey, recvIndex, sealed, shown>>
  BY DEF Deliver
<1>2. CASE rows[id] = HelloAck => hello
  <2>1. receiving' = receiving \cup {job}
    BY <1>2 DEF Deliver
  <2>2. hello' = (hello /\ rows[id] # HelloAck)
    BY DEF Deliver
  <2>3. (\E j \in receiving : j.id = id) => "in hand twice" \in causes'
    BY <1>2 DEF Deliver, Cause
  <2>4. /\ job.id = id
        /\ job.at = IF rows[id] = HelloAck THEN "derive" ELSE "fingerprint"
    OBVIOUS
  <2> HIDE DEF job
  <2>5. hello \in BOOLEAN
    BY DEF TypeInv, TypeOK
  <2>6. QED
    BY <1>1, <1>2, <2>1, <2>2, <2>3, <2>4, <2>5
<1>3. CASE ~(rows[id] = HelloAck => hello)
  <2>1. receiving' = receiving
    BY <1>3 DEF Deliver
  <2>2. hello' = hello
    BY <1>3 DEF Deliver, TypeInv, TypeOK
  <2>3. QED
    BY <1>1, <2>1, <2>2
<1>4. QED
  BY <1>2, <1>3

\* A message's session is looked up: its handler is done, or goes on.
LEMMA LooksUp ==
  ASSUME TypeInv, NEW j \in receiving, LookUp(j)
  PROVE  /\ UNCHANGED <<rows, hello, connected, recvKey, recvIndex, sealed, shown>>
         /\ j.at = "fingerprint"
         /\ \/ receiving' = receiving \ {j}
            \/ /\ connected /\ rows[j.id].index = recvIndex
               /\ \E to : /\ receiving' = (receiving \ {j}) \cup {to}
                          /\ to.id = j.id /\ to.at = "ratchet" /\ to.key = recvKey
<1> DEFINE to == [j EXCEPT !.at = "ratchet", !.key = recvKey]
<1>1. to.id = j.id /\ to.at = "ratchet" /\ to.key = recvKey
  BY DEF TypeInv, TypeOK, Receiving
<1>2. UNCHANGED <<hello, connected, recvKey, recvIndex, sealed, shown>> /\ j.at = "fingerprint"
  BY DEF LookUp
<1>3. CASE connected /\ Expected(rows[j.id]) /\ Goes(j, to) /\ UNCHANGED relay
  <2>1. receiving' = (receiving \ {j}) \cup {to}
    BY <1>3 DEF Goes
  <2>2. connected /\ rows[j.id].index = recvIndex /\ rows' = rows
    BY <1>3 DEF Expected, relay
  <2> HIDE DEF to
  <2>3. QED
    BY <1>1, <1>2, <2>1, <2>2
<1>4. CASE Finished(j, receiving \ {j})
  BY <1>2, <1>4 DEF Finished
<1>5. QED
  BY <1>3, <1>4 DEF LookUp

\* The chain is moved on, and the plaintext is awaited.
LEMMA Advances ==
  ASSUME TypeInv, NEW j \in receiving, Advance(j)
  PROVE  /\ UNCHANGED <<rows, hello, connected, sealed, shown>>
         /\ j.at = "ratchet" /\ recvKey' = j.key + 1 /\ recvIndex' = recvIndex + 1
         /\ \E to : /\ receiving' = (receiving \ {j}) \cup {to}
                    /\ to.id = j.id /\ to.at = "open" /\ to.key = j.key
<1> DEFINE to == [j EXCEPT !.at = "open"]
<1>1. to.id = j.id /\ to.at = "open" /\ to.key = j.key
  BY DEF TypeInv, TypeOK, Receiving
<1>2. receiving' = (receiving \ {j}) \cup {to}
  BY DEF Advance, Goes
<1>3. UNCHANGED <<rows, hello, connected, sealed, shown>> /\ j.at = "ratchet"
  BY DEF Advance, relay, history
<1>4. recvKey' = j.key + 1 /\ recvIndex' = recvIndex + 1
  BY DEF Advance, NextKey, IndexAfter
<1> HIDE DEF to
<1>5. QED
  BY <1>1, <1>2, <1>3, <1>4

LEMMA OnceStep == TypeInv /\ Once /\ [Next]_vars => Once'
<1> SUFFICES ASSUME TypeInv, Once, [Next]_vars PROVE Once'
  OBVIOUS
<1>1. ASSUME NEW id \in 1..Len(rows), NEW live \in BOOLEAN, Deliver(id, live) PROVE Once'
  <2>1. UNCHANGED <<connected, recvKey, recvIndex, shown>>
    BY <1>1, Delivers
  <2>2. CASE receiving' = receiving /\ hello' = hello
    BY <2>1, <2>2 DEF Once
  <2>3. CASE ~(receiving' = receiving /\ hello' = hello)
    <3>1. PICK job : /\ receiving' = receiving \cup {job}
                     /\ job.at \in {"derive", "fingerprint"}
                     /\ job.at = "derive" => hello /\ ~hello'
                     /\ job.at # "derive" => hello' = hello
      BY <1>1, <2>3, Delivers
    <3>2. QED
      BY <2>1, <3>1 DEF Once
  <2>4. QED
    BY <2>2, <2>3
<1>2. ASSUME NEW j \in receiving, Register(j) PROVE Once'
  <2>1. /\ j.at = "derive" /\ connected' = TRUE /\ receiving' = receiving \ {j} /\ hello' = hello
    BY <1>2 DEF Register, Finished
  <2>2. ~hello
    BY <2>1 DEF Once
  <2>3. \A r \in receiving' : r.at # "derive"
    BY <2>1 DEF Once
  <2>4. QED
    BY <2>1, <2>2, <2>3 DEF Once
<1>3. ASSUME NEW j \in receiving, LookUp(j) PROVE Once'
  <2>1. UNCHANGED <<hello, connected, recvKey, recvIndex, shown>>
    BY <1>3, LooksUp
  <2>2. CASE receiving' = receiving \ {j}
    BY <2>1, <2>2 DEF Once
  <2>3. CASE receiving' # receiving \ {j}
    <3>1. PICK to : connected /\ receiving' = (receiving \ {j}) \cup {to} /\ to.at = "ratchet"
      BY <1>3, <2>3, LooksUp
    <3>2. QED
      BY <2>1, <3>1 DEF Once
  <2>4. QED
    BY <2>2, <2>3
<1>4. ASSUME NEW j \in receiving, Advance(j) PROVE Once'
  <2>1. UNCHANGED <<hello, connected, shown>> /\ j.at = "ratchet"
    BY <1>4, Advances
  <2>2. PICK to : receiving' = (receiving \ {j}) \cup {to} /\ to.at = "open"
    BY <1>4, Advances
  <2>3. connected
    BY <2>1 DEF Once
  <2>4. QED
    BY <2>1, <2>2, <2>3 DEF Once
<1>5. ASSUME NEW j \in receiving, Open(j) PROVE Once'
  <2>1. /\ UNCHANGED <<hello, connected, recvKey, recvIndex>> /\ j.at = "open"
        /\ receiving' = receiving \ {j}
    BY <1>5 DEF Open, Finished
  <2>2. connected
    BY <2>1 DEF Once
  <2>3. QED
    BY <2>1, <2>2 DEF Once
<1>6. CASE ReceiverIdle
  BY <1>6 DEF ReceiverIdle, Once
<1>7. QED
  BY <1>1, <1>2, <1>3, <1>4, <1>5, <1>6, ReceiverCases

\* Two handlers that hold the same message's index hold the same row.
LEMMA OneRow ==
  ASSUME TypeInv, Carried, NEW r \in receiving, NEW s \in receiving,
         r.at # "derive", s.at # "derive", rows[r.id].index = rows[s.id].index
  PROVE  r.id = s.id
<1>1. r.id \in 1..Len(rows) /\ s.id \in 1..Len(rows)
  BY DEF TypeInv, TypeOK
<1>2. rows[r.id] # HelloAck /\ rows[s.id] # HelloAck
  BY DEF TypeInv, Fits
<1>3. QED
  BY <1>1, <1>2 DEF Carried

LEMMA FollowsStep ==
  TypeInv /\ Carried /\ Once /\ Follows /\ [Next]_vars => Follows'
<1> SUFFICES ASSUME TypeInv, Carried, Once, Follows, [Next]_vars, "in hand twice" \notin causes'
             PROVE  Follows'
  BY DEF Follows
<1>1. RowsStay /\ causes \subseteq causes'
  BY Stays
<1>2. /\ \A r, s \in receiving : r.id = s.id => r = s
      /\ recvKey = recvIndex
      /\ \A r \in receiving :
           /\ r.at = "ratchet" => r.key = recvKey /\ rows[r.id].index = recvIndex
           /\ r.at = "open" => r.key = rows[r.id].index /\ rows[r.id].index < recvIndex
  BY <1>1 DEF Follows
<1>3. \A r \in receiving : r.id \in 1..Len(rows) /\ rows'[r.id] = rows[r.id]
  BY <1>1 DEF RowsStay, TypeInv, TypeOK
<1>4. ASSUME NEW id \in 1..Len(rows), NEW live \in BOOLEAN, Deliver(id, live) PROVE Follows'
  <2>1. UNCHANGED <<recvKey, recvIndex>>
    BY <1>4, Delivers
  <2>2. CASE receiving' = receiving
    BY <1>2, <1>3, <2>1, <2>2 DEF Follows
  <2>3. CASE receiving' # receiving
    <3>1. PICK job : /\ receiving' = receiving \cup {job}
                     /\ job.id = id
                     /\ job.at \in {"derive", "fingerprint"}
                     /\ (\E j \in receiving : j.id = id) => "in hand twice" \in causes'
      BY <1>4, <2>3, Delivers
    <3>2. \A r, s \in receiving' : r.id = s.id => r = s
      BY <1>2, <3>1
    <3>3. QED
      BY <1>2, <1>3, <2>1, <3>1, <3>2 DEF Follows
  <2>4. QED
    BY <2>2, <2>3
<1>5. ASSUME NEW j \in receiving, Register(j) PROVE Follows'
  <2>1. /\ j.at = "derive" /\ receiving' = receiving \ {j} /\ recvKey' = 0 /\ recvIndex' = 0
    BY <1>5 DEF Register, Finished
  <2>2. \A r \in receiving : r.at \in {"derive", "fingerprint"}
    BY <2>1 DEF Once
  <2>3. QED
    BY <1>2, <2>1, <2>2 DEF Follows
<1>6. ASSUME NEW j \in receiving, LookUp(j) PROVE Follows'
  <2>1. UNCHANGED <<recvKey, recvIndex>>
    BY <1>6, LooksUp
  <2>2. CASE receiving' = receiving \ {j}
    BY <1>2, <1>3, <2>1, <2>2 DEF Follows
  <2>3. CASE receiving' # receiving \ {j}
    <3>1. PICK to : /\ rows[j.id].index = recvIndex
                    /\ receiving' = (receiving \ {j}) \cup {to}
                    /\ to.id = j.id /\ to.at = "ratchet" /\ to.key = recvKey
      BY <1>6, <2>3, LooksUp
    <3>2. \A r, s \in receiving' : r.id = s.id => r = s
      <4>1. \A r, s \in receiving : r.id = s.id => r = s
        BY <1>2
      <4>2. receiving' = (receiving \ {j}) \cup {to} /\ to.id = j.id
        BY <3>1
      <4>3. QED
        BY <4>1, <4>2
    <3>3. QED
      BY <1>2, <1>3, <2>1, <3>1, <3>2 DEF Follows
  <2>4. QED
    BY <2>2, <2>3
<1>7. ASSUME NEW j \in receiving, Advance(j) PROVE Follows'
  <2>1. j.at = "ratchet" /\ recvKey' = j.key + 1 /\ recvIndex' = recvIndex + 1
    BY <1>7, Advances
  <2>2. PICK to : /\ receiving' = (receiving \ {j}) \cup {to}
                  /\ to.id = j.id /\ to.at = "open" /\ to.key = j.key
    BY <1>7, Advances
  <2>3. j.key = recvIndex /\ rows[j.id].index = recvIndex /\ recvIndex \in Nat
    <3>1. j.key = recvKey /\ recvKey = recvIndex /\ rows[j.id].index = recvIndex
      BY <1>2, <2>1
    <3>2. recvIndex \in Nat
      BY DEF TypeInv, TypeOK
    <3>3. QED
      BY <3>1, <3>2
  <2>4. ASSUME NEW r \in receiving, r.at = "ratchet" PROVE r = j
    <3>1. rows[r.id].index = rows[j.id].index
      BY <1>2, <2>3, <2>4
    <3>2. r.at # "derive" /\ j.at # "derive"
      BY <2>1, <2>4
    <3>3. r.id = j.id
      BY <3>1, <3>2, OneRow
    <3>4. QED
      BY <1>2, <3>3
  <2>5. \A r, s \in receiving' : r.id = s.id => r = s
    <3>1. \A r, s \in receiving : r.id = s.id => r = s
      BY <1>2
    <3>2. receiving' = (receiving \ {j}) \cup {to} /\ to.id = j.id
      BY <2>2
    <3>3. QED
      BY <3>1, <3>2
  <2>6. ASSUME NEW r \in receiving', r.at = "open"
        PROVE  r.key = rows'[r.id].index /\ rows'[r.id].index < recvIndex'
    <3>1. CASE r = to
      <4>1. r.id = j.id /\ r.key = j.key /\ rows'[j.id] = rows[j.id]
        BY <1>3, <2>2, <3>1
      <4>2. rows'[r.id].index = recvIndex /\ r.key = recvIndex
        BY <2>3, <4>1
      <4>3. recvIndex < recvIndex'
        BY <2>1, <2>3, NextAbove
      <4>4. QED
        BY <4>2, <4>3
    <3>2. CASE r \in receiving
      <4>1. rows[r.id].index < recvIndex /\ r.key = rows[r.id].index /\ rows[r.id] \in Msg
        BY <1>2, <1>3, <2>6, <3>2, Frames DEF TypeInv, Fits
      <4>2. rows[r.id].index \in Nat
        BY <4>1 DEF Msg
      <4>3. rows[r.id].index < recvIndex'
        BY <2>1, <2>3, <4>1, <4>2, NextAbove
      <4>4. rows'[r.id] = rows[r.id]
        BY <1>3, <3>2
      <4>5. QED
        BY <4>1, <4>3, <4>4
    <3>3. QED
      BY <2>2, <3>1, <3>2
  <2>7. \A r \in receiving' : r.at # "ratchet"
    BY <2>2, <2>4
  <2>8. recvKey' = recvIndex'
    BY <2>1, <2>3
  <2>9. QED
    BY <2>5, <2>6, <2>7, <2>8 DEF Follows
<1>8. ASSUME NEW j \in receiving, Open(j) PROVE Follows'
  <2>1. UNCHANGED <<recvKey, recvIndex>> /\ receiving' = receiving \ {j}
    BY <1>8 DEF Open, Finished
  <2>2. QED
    BY <1>2, <1>3, <2>1 DEF Follows
<1>9. CASE ReceiverIdle
  BY <1>2, <1>3, <1>9 DEF ReceiverIdle, Follows
<1>10. QED
  BY <1>4, <1>5, <1>6, <1>7, <1>8, <1>9, ReceiverCases

\* What the invariant's last conjunct says of a state without either cause.
ShownBefore ==
  \A i \in 1..Len(shown) : \E e \in sealed :
    /\ OnChain(e) /\ e.n = shown[i] /\ e.index < recvIndex
    /\ \A r \in receiving : r.at = "open" => e.index < rows[r.id].index

\* The message being opened comes after all that was shown.
LEMMA OpensNext ==
  ASSUME TypeInv, Chain, Carried, ShownBefore,
         \A i, k \in 1..Len(shown) : i < k => shown[i] < shown[k],
         \A r, s \in receiving : r.id = s.id => r = s,
         NEW j \in receiving, j.at = "open",
         j.key = rows[j.id].index, rows[j.id].index < recvIndex,
         \A r \in receiving : r.at = "open" => ~(rows[r.id].index < rows[j.id].index),
         Open(j), UNCHANGED <<recvIndex, sealed>>
  PROVE  InOrder'
<1>1. /\ rows[j.id] # HelloAck /\ j.id \in 1..Len(rows)
      /\ rows[j.id].index \in Nat /\ rows[j.id].n \in 1..MaxSend
  BY Frames DEF TypeInv, TypeOK, Fits, Msg
<1>2. receiving' = receiving \ {j} /\ rows' = rows
  BY DEF Open, Finished
<1>3. /\ shown \in Seq(1..MaxSend) /\ Len(shown) \in Nat
      /\ \A e \in sealed : e.n \in Nat /\ e.index \in Nat
  BY DEF TypeInv, TypeOK
<1>4. CASE j.key # rows[j.id].key
  <2>1. shown' = shown
    BY <1>4 DEF Open
  <2>2. QED
    BY <1>2, <2>1 DEF InOrder, ShownBefore
<1>5. CASE j.key = rows[j.id].key
  <2> DEFINE m == Sealed(rows[j.id])
             n == rows[j.id].n
  <2>1. m \in sealed /\ OnChain(m) /\ m.n = n /\ m.index = rows[j.id].index
    BY <1>1, <1>5 DEF Carried, Sealed, OnChain
  <2> HIDE DEF m
  <2>2. shown' = Append(shown, n)
    BY <1>5 DEF Open
  <2>3. ASSUME NEW i \in 1..Len(shown) PROVE shown[i] < n
    <3>1. PICK e \in sealed : OnChain(e) /\ e.n = shown[i] /\ e.index < m.index
      BY <2>1, <2>3 DEF ShownBefore
    <3>2. e.n < m.n
      BY <2>1, <3>1 DEF Chain
    <3>3. QED
      BY <2>1, <3>1, <3>2
  <2>4. ASSUME NEW r \in receiving', r.at = "open" PROVE m.index < rows'[r.id].index
    <3>1. r \in receiving /\ r # j
      BY <1>2, <2>4
    <3>2. rows[r.id].index # rows[j.id].index
      BY <2>4, <3>1, OneRow
    <3>3. rows[r.id].index \in Nat
      BY <2>4, <3>1, Frames DEF TypeInv, TypeOK, Fits, Msg
    <3>4. ~(rows[r.id].index < rows[j.id].index)
      BY <2>4, <3>1
    <3>5. QED
      BY <1>1, <1>2, <2>1, <3>2, <3>3, <3>4
  <2> HIDE DEF n
  <2>5. /\ Len(shown') = Len(shown) + 1 /\ shown'[Len(shown) + 1] = n
        /\ \A i \in 1..Len(shown) : shown'[i] = shown[i]
    BY <1>1, <1>3, <2>2, AppendProperties DEF n
  <2>6. \A i \in 1..Len(shown') : i \in 1..Len(shown) \/ i = Len(shown) + 1
    BY <1>3, <2>5
  <2>7. \A i, k \in 1..Len(shown') : i < k => shown'[i] < shown'[k]
    <3>1. SUFFICES ASSUME NEW i \in 1..Len(shown'), NEW k \in 1..Len(shown'), i < k
                   PROVE  shown'[i] < shown'[k]
      OBVIOUS
    <3>2. i \in 1..Len(shown)
      BY <1>3, <2>5, <3>1
    <3>3. CASE k \in 1..Len(shown)
      BY <2>5, <3>1, <3>2, <3>3
    <3>4. CASE k = Len(shown) + 1
      BY <2>3, <2>5, <3>2, <3>4
    <3>5. QED
      BY <2>6, <3>3, <3>4
  <2>8. ASSUME NEW i \in 1..Len(shown')
        PROVE  \E e \in sealed' :
                 /\ OnChain(e) /\ e.n = shown'[i] /\ e.index < recvIndex'
                 /\ \A r \in receiving' : r.at = "open" => e.index < rows'[r.id].index
    <3>1. CASE i \in 1..Len(shown)
      BY <1>2, <2>5, <3>1 DEF ShownBefore
    <3>2. CASE i = Len(shown) + 1
      BY <2>1, <2>4, <2>5, <3>2
    <3>3. QED
      BY <2>6, <2>8, <3>1, <3>2
  <2>9. QED
    BY <2>7, <2>8 DEF InOrder
<1>6. QED
  BY <1>4, <1>5

LEMMA InOrderStep ==
  TypeInv /\ Chain /\ Carried /\ Once /\ Follows /\ InOrder /\ [Next]_vars => InOrder'
<1> SUFFICES ASSUME TypeInv, Chain, Carried, Once, Follows, InOrder, [Next]_vars,
                    causes' \cap {"in hand twice", "saved out of order"} = {}
             PROVE  InOrder'
  BY DEF InOrder
<1>1. RowsStay /\ sealed \subseteq sealed' /\ causes \subseteq causes'
  BY Stays
<1>2. "in hand twice" \notin causes' /\ "saved out of order" \notin causes'
  OBVIOUS
<1>3. ShownBefore /\ \A i, k \in 1..Len(shown) : i < k => shown[i] < shown[k]
  BY <1>1 DEF InOrder, ShownBefore
<1>4. /\ \A r, s \in receiving : r.id = s.id => r = s
      /\ \A r \in receiving :
           /\ r.at = "ratchet" => rows[r.id].index = recvIndex
           /\ r.at = "open" => r.key = rows[r.id].index /\ rows[r.id].index < recvIndex
  BY <1>1, <1>2 DEF Follows
<1>5. \A r \in receiving : rows'[r.id] = rows[r.id]
  BY <1>1 DEF RowsStay, TypeInv, TypeOK
<1>6. ASSUME shown' = shown, recvIndex' = recvIndex,
             \A r \in receiving' : r.at = "open" => r \in receiving
      PROVE  InOrder'
  BY <1>1, <1>3, <1>5, <1>6 DEF InOrder, ShownBefore, OnChain
<1>7. ASSUME NEW id \in 1..Len(rows), NEW live \in BOOLEAN, Deliver(id, live) PROVE InOrder'
  <2>1. UNCHANGED <<recvIndex, shown>> /\ \A r \in receiving' : r.at = "open" => r \in receiving
    BY <1>7, Delivers
  <2>2. QED
    BY <1>6, <2>1
<1>8. ASSUME NEW j \in receiving, Register(j) PROVE InOrder'
  <2>1. j.at = "derive" /\ UNCHANGED shown
    BY <1>8 DEF Register, history
  <2>2. shown = <<>> /\ shown' = shown
    BY <2>1 DEF Once
  <2>3. 1..Len(shown) = {}
    BY <2>2, NoneIn
  <2>4. QED
    BY <2>2, <2>3 DEF InOrder
<1>9. ASSUME NEW j \in receiving, LookUp(j) PROVE InOrder'
  <2>1. UNCHANGED <<recvIndex, shown>> /\ \A r \in receiving' : r.at = "open" => r \in receiving
    BY <1>9, LooksUp
  <2>2. QED
    BY <1>6, <2>1
<1>10. ASSUME NEW j \in receiving, Advance(j) PROVE InOrder'
  <2>1. UNCHANGED <<sealed, shown>> /\ j.at = "ratchet" /\ recvIndex' = recvIndex + 1
    BY <1>10, Advances
  <2>2. PICK to : /\ receiving' = (receiving \ {j}) \cup {to} /\ to.id = j.id
    BY <1>10, Advances
  <2>3. recvIndex \in Nat /\ \A e \in sealed : e.index \in Nat
    BY DEF TypeInv, TypeOK
  <2>4. rows'[to.id].index = recvIndex
    BY <1>4, <1>5, <2>1, <2>2
  <2>5. \A r \in receiving' : r = to \/ r \in receiving
    BY <2>2
  <2>6. ASSUME NEW i \in 1..Len(shown)
        PROVE  \E e \in sealed :
                 /\ OnChain(e) /\ e.n = shown[i] /\ e.index < recvIndex'
                 /\ \A r \in receiving' : r.at = "open" => e.index < rows'[r.id].index
    <3>1. PICK e \in sealed :
            /\ OnChain(e) /\ e.n = shown[i] /\ e.index < recvIndex
            /\ \A r \in receiving : r.at = "open" => e.index < rows[r.id].index
      BY <1>3, <2>6 DEF ShownBefore
    <3>2. e.index < recvIndex'
      <4>1. e.index \in Nat /\ e.index < recvIndex
        BY <2>3, <3>1
      <4>2. QED
        BY <2>1, <2>3, <4>1, NextAbove
    <3>3. \A r \in receiving' : r.at = "open" => e.index < rows'[r.id].index
      BY <1>5, <2>4, <2>5, <3>1
    <3>4. QED
      BY <3>1, <3>2, <3>3
  <2>7. QED
    BY <1>3, <2>1, <2>6 DEF InOrder
<1>11. ASSUME NEW j \in receiving, Open(j) PROVE InOrder'
  <2>1. UNCHANGED <<recvIndex, sealed>> /\ j.at = "open"
    BY <1>11 DEF Open
  <2>2. \A r \in receiving : r.at = "open" => ~(rows[r.id].index < rows[j.id].index)
    BY <1>2, <1>11 DEF Open, Cause
  <2>3. QED
    BY <1>3, <1>4, <1>11, <2>1, <2>2, OpensNext
<1>12. CASE ReceiverIdle
  BY <1>6, <1>12 DEF ReceiverIdle
<1>13. QED
  BY <1>7, <1>8, <1>9, <1>10, <1>11, <1>12, ReceiverCases

----------------------------------------------------------------------------
(* The theorems *)

LEMMA InvInit == Init => Inv
<1> SUFFICES ASSUME Init PROVE Inv
  OBVIOUS
<1>1. TypeInv
  BY TypeInit
<1>2. 1..Len(rows) = {} /\ 1..Len(shown) = {}
  BY EmptySeq DEF Init
<1>3. Chain /\ Alone
  BY DEF Init, Chain, Alone
<1>4. Carried /\ Once /\ Follows /\ InOrder
  BY <1>2 DEF Init, Carried, Once, Follows, InOrder
<1>5. QED
  BY <1>1, <1>3, <1>4 DEF Inv

LEMMA InvStep == Inv /\ [Next]_vars => Inv'
BY TypeStep, ChainStep, AloneStep, CarriedStep, OnceStep, FollowsStep, InOrderStep DEF Inv

\* The strengthened invariant holds in every state.
LEMMA Invariant == Spec => []Inv
<1>1. Init => Inv
  BY InvInit
<1>2. Inv /\ [Next]_vars => Inv'
  BY InvStep
<1>3. QED
  BY <1>1, <1>2, PTL DEF Spec

\* Every job of the two browsers and every row of the relay between them keeps
\* its shape, and an acknowledgement is for a row that was handed over on the
\* connection it is sent on (network.js:54-65).
THEOREM WebTypeCorrect == Spec => []TypeOK
<1>1. Inv => TypeOK
  BY DEF Inv, TypeInv
<1>2. QED
  BY <1>1, Invariant, PTL

\* No two messages get the same key, as long as no call of sendText comes while
\* another is in its ratchetStep (crypto.js:335-337).
THEOREM WebKeysUsedOnce == Spec => []BrowserKeyUsedOnce
<1>1. Inv => BrowserKeyUsedOnce
  BY DEF Inv, Chain, Alone, OnChain, BrowserKeyUsedOnce
<1>2. QED
  BY <1>1, Invariant, PTL

\* However often the initiator reconnects and whatever is lost or sent at once,
\* the messages it shows are in the order of sending and each is there once,
\* unless a row came again while it was in hand or two were saved out of order
\* (network.js:52-66, 271-288).
THEOREM WebShownOnceInOrder == Spec => []BrowserShowsOnceInOrder
<1>1. Inv => BrowserShowsOnceInOrder
  BY DEF Inv, InOrder, BrowserShowsOnceInOrder
<1>2. QED
  BY <1>1, Invariant, PTL
=============================================================================
