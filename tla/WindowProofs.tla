---------------------------- MODULE WindowProofs ----------------------------
(***************************************************************************)
(* Proofs about what the window keeps of a contact: its outgoing queue,    *)
(* Outbox, for any number of attempts, messages, connections and faults;   *)
(* and what it knows and shows of it, Contacts, for any relays and any     *)
(* number of steps.  Neither module reads the other's variables.           *)
(***************************************************************************)
EXTENDS Outbox, Contacts, SequenceTheorems, TLAPS

----------------------------------------------------------------------------
(* Queues, seen as the messages in them *)

LEMMA AppendElements ==
  ASSUME NEW S, NEW s \in Seq(S), NEW x \in S
  PROVE  /\ Append(s, x) \in Seq(S) /\ Append(s, x) # <<>>
         /\ Elements(Append(s, x)) = Elements(s) \cup {x}
<1>1. /\ Append(s, x) \in Seq(S) /\ Len(s) \in Nat /\ Len(Append(s, x)) = Len(s) + 1
      /\ \A i \in 1..Len(s) : Append(s, x)[i] = s[i]
      /\ Append(s, x)[Len(s) + 1] = x
  OBVIOUS
<1>2. Append(s, x) # <<>>
  <2>1. Len(<<>>) = 0
    OBVIOUS
  <2>2. QED
    BY <1>1, <2>1
<1>3. Elements(Append(s, x)) \subseteq Elements(s) \cup {x}
  BY <1>1 DEF Elements
<1>4. Elements(s) \cup {x} \subseteq Elements(Append(s, x))
  BY <1>1 DEF Elements
<1>5. QED
  BY <1>1, <1>2, <1>3, <1>4

LEMMA ConcatElements ==
  ASSUME NEW S, NEW s \in Seq(S), NEW t \in Seq(S)
  PROVE  /\ s \o t \in Seq(S)
         /\ Elements(s \o t) = Elements(s) \cup Elements(t)
<1>1. /\ s \o t \in Seq(S) /\ Len(s) \in Nat /\ Len(t) \in Nat /\ Len(s \o t) = Len(s) + Len(t)
      /\ \A i \in 1..Len(s) : (s \o t)[i] = s[i]
      /\ \A i \in 1..Len(t) : (s \o t)[Len(s) + i] = t[i]
  OBVIOUS
<1>2. ASSUME NEW i \in 1..Len(s \o t) PROVE (s \o t)[i] \in Elements(s) \cup Elements(t)
  <2>1. CASE i <= Len(s)
    BY <1>1, <2>1 DEF Elements
  <2>2. CASE i > Len(s)
    <3>1. i - Len(s) \in 1..Len(t) /\ i = Len(s) + (i - Len(s))
      BY <1>1, <2>2
    <3>2. QED
      BY <1>1, <3>1 DEF Elements
  <2>3. QED
    BY <1>1, <2>1, <2>2
<1>3. ASSUME NEW i \in 1..Len(s) PROVE s[i] \in Elements(s \o t)
  BY <1>1 DEF Elements
<1>4. ASSUME NEW i \in 1..Len(t) PROVE t[i] \in Elements(s \o t)
  <2>1. Len(s) + i \in 1..Len(s \o t)
    BY <1>1
  <2>2. QED
    BY <1>1, <2>1 DEF Elements
<1>5. QED
  BY <1>1, <1>2, <1>3, <1>4 DEF Elements

LEMMA FrontElements ==
  ASSUME NEW S, NEW t \in Seq(S), NEW k \in 0..Len(t) - 1
  PROVE  /\ SubSeq(t, 1, k) \in Seq(S)
         /\ Elements(SubSeq(t, 1, k)) \subseteq Elements(t)
<1>1. /\ SubSeq(t, 1, k) \in Seq(S) /\ Len(t) \in Nat /\ Len(SubSeq(t, 1, k)) = k
      /\ \A i \in 1..k : SubSeq(t, 1, k)[i] = t[i]
  OBVIOUS
<1>2. QED
  BY <1>1 DEF Elements

LEMMA ElementsIn == ASSUME NEW S, NEW s \in Seq(S) PROVE Elements(s) \subseteq S
BY DEF Elements

LEMMA NoElements == Elements(<<>>) = {}
BY DEF Elements

LEMMA TailType == ASSUME NEW S, NEW s \in Seq(S), s # <<>> PROVE Tail(s) \in Seq(S)
OBVIOUS

LEMMA WiderSeq == ASSUME NEW S, NEW T, S \subseteq T, NEW s \in Seq(S) PROVE s \in Seq(T)
OBVIOUS

----------------------------------------------------------------------------
(* Type correctness *)

\* Every connection queues one event.
TypeInv == TypeOK /\ events <= connects

LEMMA InitType == Init => TypeInv
<1> SUFFICES ASSUME Init PROVE TypeInv
  OBVIOUS
<1>1. <<>> \in Seq(1..typed) /\ <<>> \in Seq(0..Attempts)
  OBVIOUS
<1>2. pending \in Seq(1..typed) /\ sent \in Seq(1..typed) /\ timers \in Seq(0..Attempts)
  BY <1>1 DEF Init
<1>3. /\ events \in 0..MaxConnects /\ connects \in 0..MaxConnects /\ faults \in 0..MaxFaults
      /\ typed \in 0..MaxMessages /\ tries \in Nat
  BY OutboxAssumption DEF Init
<1>4. TypeOK
  BY <1>2, <1>3 DEF Init, TypeOK
<1>5. QED
  BY <1>4 DEF Init, TypeInv

\* Delivered and BrokeOff send messages that were queued, once each or not.
LEMMA FlushTypes ==
  ASSUME TypeOK, NothingQueued \/ Delivered \/ BrokeOff, typed' = typed
  PROVE  /\ conn' \in {"none", "up", "dead"} /\ pending' \in Seq(1..typed)
         /\ faults' \in 0..MaxFaults /\ sent' \in Seq(1..typed) /\ told' \subseteq 1..typed
         /\ tries' \in Nat /\ early' \in BOOLEAN /\ causes' \subseteq Causes
<1> USE DEF TypeOK
<1>1. CASE NothingQueued
  <2>1. UNCHANGED <<conn, pending, faults, sent, told, tries, early, causes>>
    BY <1>1 DEF NothingQueued, history
  <2>2. QED
    BY <2>1
<1>2. CASE Delivered
  <2>1. sent \o pending \in Seq(1..typed) /\ <<>> \in Seq(1..typed)
    BY ConcatElements
  <2>2. QED
    BY <1>2, <2>1 DEF Delivered
<1>3. CASE BrokeOff
  <2>1. sent' \in Seq(1..typed)
    <3>1. \A k \in 0..Len(pending) - 1 : sent \o SubSeq(pending, 1, k) \in Seq(1..typed)
      BY FrontElements, ConcatElements
    <3>2. QED
      BY <1>3, <3>1 DEF BrokeOff
  <2>2. faults' \in 0..MaxFaults /\ conn' \in {"none", "up", "dead"}
    <3>1. faults \in 0..MaxFaults /\ conn \in {"none", "up", "dead"} /\ MaxFaults \in Nat
      BY OutboxAssumption
    <3>2. CASE UNCHANGED <<conn, sent, faults>>
      BY <3>1, <3>2
    <3>3. CASE faults < MaxFaults /\ faults' = faults + 1 /\ conn' \in {"dead", "none"}
      BY <3>1, <3>3
    <3>4. QED
      BY <1>3, <3>2, <3>3 DEF BrokeOff
  <2>3. causes' \subseteq Causes
    BY <1>3 DEF BrokeOff, Causes
  <2>4. QED
    BY <1>3, <2>1, <2>2, <2>3 DEF BrokeOff
<1>4. QED
  BY <1>1, <1>2, <1>3

\* A queue that is given up is gone, and what was in it may have been told.
LEMMA GivenUpTypes ==
  ASSUME TypeOK, pending' = <<>>, typed' = typed,
         told' = IF open THEN told \cup Elements(pending) ELSE told,
         early' = (early \/ tries < Attempts)
  PROVE  pending' \in Seq(1..typed) /\ told' \subseteq 1..typed /\ early' \in BOOLEAN
<1>1. Elements(pending) \subseteq 1..typed
  BY ElementsIn DEF TypeOK
<1>2. pending' \in Seq(1..typed)
  OBVIOUS
<1>3. told' \subseteq 1..typed
  BY <1>1 DEF TypeOK
<1>4. QED
  BY <1>2, <1>3

LEMMA StepType == TypeInv /\ [Next]_vars => TypeInv'
<1> SUFFICES ASSUME TypeInv, [Next]_vars PROVE TypeInv'
  OBVIOUS
<1> USE OutboxAssumption DEF queue, window, bounds, history, TypeInv
<1>1. CASE Send
  <2>1. typed' = typed + 1 /\ typed' \in 0..MaxMessages /\ 1..typed \subseteq 1..typed'
        /\ typed' \in 1..typed'
    BY <1>1 DEF Send, TypeOK
  <2>2. /\ pending \in Seq(1..typed') /\ sent \in Seq(1..typed') /\ told \subseteq 1..typed'
    BY <2>1, WiderSeq DEF TypeOK
  <2>3. Append(pending, typed') \in Seq(1..typed') /\ Append(sent, typed') \in Seq(1..typed')
    BY <2>1, <2>2, AppendElements
  <2>4. Attempts \in 0..Attempts /\ timers \in Seq(0..Attempts) /\ 0 \in Nat
    BY DEF TypeOK
  <2>5. Append(timers, Attempts) \in Seq(0..Attempts)
    BY <2>4, AppendElements
  <2>6. /\ pending' \in Seq(1..typed') /\ sent' \in Seq(1..typed')
        /\ timers' \in Seq(0..Attempts) /\ tries' \in Nat
    BY <1>1, <2>2, <2>3, <2>4, <2>5 DEF Send, SendNow, Queue, TypeOK
  <2>7. causes' \subseteq Causes
    BY <1>1 DEF Send, SendNow, Queue, TypeOK, Cause, Causes
  <2>8. UNCHANGED <<conn, events, polling, open, connects, faults, told, early>>
    BY <1>1 DEF Send
  <2>9. QED
    BY <2>1, <2>2, <2>6, <2>7, <2>8 DEF TypeOK
<1>2. CASE Timer
  <2>1. UNCHANGED <<events, polling, open, typed, connects>>
    BY <1>2 DEF Timer
  <2>2. CASE TimerGivesUp
    <3>1. /\ timers # <<>> /\ timers' = Tail(timers) /\ pending' = <<>>
          /\ told' = IF open THEN told \cup Elements(pending) ELSE told
          /\ early' = (early \/ tries < Attempts)
          /\ causes' = causes \cup Cause(~open, "chat not open")
          /\ UNCHANGED <<conn, faults, sent, tries>>
      BY <2>2 DEF TimerGivesUp, GaveUp
    <3>2. timers' \in Seq(0..Attempts)
      BY <3>1, TailType DEF TypeOK
    <3>3. causes' \subseteq Causes
      BY <3>1 DEF Cause, Causes, TypeOK
    <3>4. pending' \in Seq(1..typed) /\ told' \subseteq 1..typed /\ early' \in BOOLEAN
      BY <2>1, <3>1, GivenUpTypes
    <3>5. QED
      BY <2>1, <3>1, <3>2, <3>3, <3>4 DEF TypeOK
  <2>3. CASE TimerAgain
    <3>1. /\ timers \in Seq(0..Attempts) /\ timers # <<>> /\ Head(timers) > 0
      BY <2>3 DEF TimerAgain, TypeOK
    <3>2. Tail(timers) \in Seq(0..Attempts) /\ Head(timers) - 1 \in 0..Attempts
      BY <3>1
    <3>3. timers' \in Seq(0..Attempts)
      BY <2>3, <3>2, AppendElements DEF TimerAgain
    <3>4. QED
      BY <2>1, <2>3, <3>3 DEF TimerAgain, TypeOK
  <2>4. CASE TimerEnds
    <3>1. timers' \in Seq(0..Attempts)
      BY <2>4, TailType DEF TimerEnds, TypeOK
    <3>2. NothingQueued \/ Delivered \/ BrokeOff
      BY <2>4 DEF TimerEnds
    <3>3. QED
      BY <2>1, <3>1, <3>2, FlushTypes DEF TypeOK
  <2>5. QED
    BY <1>2, <2>2, <2>3, <2>4 DEF Timer
<1>3. CASE ConnectEvent
  <2>1. /\ UNCHANGED <<timers, open, typed, connects>>
        /\ events > 0 /\ events' = events - 1
    BY <1>3 DEF ConnectEvent
  <2>e. events' \in 0..MaxConnects
    BY <2>1 DEF TypeOK
  <2>2. CASE (NothingQueued \/ Delivered \/ BrokeOff) /\ polling' \in BOOLEAN
    BY <2>1, <2>e, <2>2, FlushTypes DEF TypeOK
  <2>3. CASE /\ pending' = <<>>
             /\ told' = IF open THEN told \cup Elements(pending) ELSE told
             /\ early' = (early \/ tries < Attempts)
             /\ causes' = causes \cup Cause(~open, "chat not open") \cup {"late event"}
             /\ UNCHANGED <<conn, faults, sent, tries, polling>>
    <3>1. causes' \subseteq Causes
      BY <2>3 DEF Cause, Causes, TypeOK
    <3>2. pending' \in Seq(1..typed) /\ told' \subseteq 1..typed /\ early' \in BOOLEAN
      BY <2>1, <2>3, GivenUpTypes
    <3>3. events' <= connects'
      BY <2>1 DEF TypeOK
    <3>4. TypeOK'
      BY <2>1, <2>e, <2>3, <3>1, <3>2 DEF TypeOK
    <3>5. QED
      BY <3>3, <3>4
  <2>4. QED
    BY <1>3, <2>2, <2>3 DEF ConnectEvent, TypeOK
<1>4. CASE Restart
  <2>1. <<>> \in Seq(1..typed) /\ <<>> \in Seq(0..Attempts)
    OBVIOUS
  <2>2. causes' \subseteq Causes
    BY <1>4 DEF Restart, Cause, Causes, TypeOK
  <2>3. QED
    BY <1>4, <2>1, <2>2 DEF Restart, TypeOK
<1>5. CASE SwitchChat \/ Register \/ BackToLife \/ Dies \/ Gone
  <2>1. /\ UNCHANGED <<pending, timers, polling, typed, sent, told, tries, early, causes>>
        /\ conn' \in {conn, "up", "dead", "none"} /\ open' \in {open, ~open}
        /\ \/ events' = events /\ connects' = connects
           \/ events' = events + 1 /\ connects < MaxConnects /\ connects' = connects + 1
           \/ events' = events /\ connects < MaxConnects /\ connects' = connects + 1
        /\ faults' = faults \/ (faults < MaxFaults /\ faults' = faults + 1)
    BY <1>5 DEF SwitchChat, Register, BackToLife, Dies, Gone
  <2>2. /\ events \in 0..MaxConnects /\ connects \in 0..MaxConnects /\ faults \in 0..MaxFaults
        /\ MaxConnects \in Nat /\ MaxFaults \in Nat /\ events <= connects
    BY DEF TypeOK
  <2>3. /\ events' \in 0..MaxConnects /\ connects' \in 0..MaxConnects /\ faults' \in 0..MaxFaults
        /\ events' <= connects'
    BY <2>1, <2>2
  <2>4. conn' \in {"none", "up", "dead"} /\ open' \in BOOLEAN
    BY <2>1 DEF TypeOK
  <2>5. QED
    BY <2>1, <2>3, <2>4 DEF TypeOK
<1>6. CASE UNCHANGED vars
  BY <1>6 DEF vars, TypeOK
<1>7. QED
  BY <1>1, <1>2, <1>3, <1>4, <1>5, <1>6 DEF Next

----------------------------------------------------------------------------
(* What a step does to the messages, and to the timers *)

Typed == typed' = typed + 1 /\ UNCHANGED <<told, early>>
Flushed == Delivered \/ BrokeOff
Lost ==  \* a queue is given up, or ends with the process
  /\ pending' = <<>>
  /\ sent' = sent
  /\ \/ told' = told \cup Elements(pending)
     \/ told' = told /\ (pending = <<>> \/ "chat not open" \in causes' \/ "quit" \in causes')
Kept == UNCHANGED <<pending, sent, told, causes>>

LEMMA StepMessages ==
  ASSUME TypeInv, [Next]_vars
  PROVE  /\ causes \subseteq causes'
         /\ \/ Typed /\ (SendNow \/ Queue)
            \/ typed' = typed /\ (Flushed \/ Lost \/ Kept)
<1> USE DEF Flushed, Lost, Kept, queue, window, bounds, history
<1>1. CASE Send
  BY <1>1 DEF Send, Typed, SendNow, Queue
<1>2. CASE Timer
  <2>1. CASE TimerGivesUp
    BY <1>2, <2>1 DEF Timer, TimerGivesUp, GaveUp, Cause
  <2>2. CASE TimerAgain
    BY <1>2, <2>2 DEF Timer, TimerAgain
  <2>3. CASE TimerEnds
    BY <1>2, <2>3 DEF Timer, TimerEnds, NothingQueued, Delivered, BrokeOff
  <2>4. QED
    BY <1>2, <2>1, <2>2, <2>3 DEF Timer
<1>3. CASE ConnectEvent
  <2>1. typed' = typed
    BY <1>3 DEF ConnectEvent
  <2>2. CASE NothingQueued \/ Delivered \/ BrokeOff
    BY <2>1, <2>2 DEF NothingQueued, Delivered, BrokeOff
  <2>3. CASE ~(NothingQueued \/ Delivered \/ BrokeOff)
    BY <1>3, <2>1, <2>3 DEF ConnectEvent, Cause
  <2>4. QED
    BY <2>2, <2>3
<1>4. CASE Restart
  BY <1>4 DEF Restart, Cause
<1>5. CASE SwitchChat \/ Register \/ BackToLife \/ Dies \/ Gone
  BY <1>5 DEF SwitchChat, Register, BackToLife, Dies, Gone
<1>6. CASE UNCHANGED vars
  BY <1>6 DEF vars
<1>7. QED
  BY <1>1, <1>2, <1>3, <1>4, <1>5, <1>6 DEF Next

----------------------------------------------------------------------------
(* Nothing is lost quietly *)

\* The same for sequences of numbers, whatever they are bounded by.
Numbers == Seq(Nat)

LEMMA NumberSequences ==
  /\ \A s \in Numbers, x \in Nat : /\ Append(s, x) \in Numbers
                                    /\ Elements(Append(s, x)) = Elements(s) \cup {x}
  /\ \A s, t \in Numbers : /\ s \o t \in Numbers
                            /\ Elements(s \o t) = Elements(s) \cup Elements(t)
  /\ \A t \in Numbers : \A k \in 0..Len(t) - 1 :
       /\ SubSeq(t, 1, k) \in Numbers
       /\ Elements(SubSeq(t, 1, k)) \subseteq Elements(t)
<1> DEFINE S == Nat
<1>1. Numbers = Seq(S)
  BY DEF Numbers
<1>2. /\ \A s \in Seq(S), x \in S : /\ Append(s, x) \in Seq(S)
                                     /\ Elements(Append(s, x)) = Elements(s) \cup {x}
      /\ \A s, t \in Seq(S) : /\ s \o t \in Seq(S)
                               /\ Elements(s \o t) = Elements(s) \cup Elements(t)
      /\ \A t \in Seq(S) : \A k \in 0..Len(t) - 1 :
           /\ SubSeq(t, 1, k) \in Seq(S)
           /\ Elements(SubSeq(t, 1, k)) \subseteq Elements(t)
  <2> HIDE DEF S
  <2>1. QED
    BY AppendElements, ConcatElements, FrontElements
<1>3. QED
  BY <1>1, <1>2

LEMMA NumbersKept ==
  ASSUME TypeOK PROVE pending \in Numbers /\ sent \in Numbers /\ typed \in Nat
<1>1. typed \in Nat /\ pending \in Seq(1..typed) /\ sent \in Seq(1..typed) /\ 1..typed \subseteq Nat
  BY DEF TypeOK
<1>2. QED
  BY <1>1 DEF Numbers

LEMMA Successor ==
  \A n \in Nat : n + 1 \in Nat /\ 1..(n + 1) = (1..n) \cup {n + 1}
OBVIOUS

LEMMA LostInit == Init => NothingLostQuietly
<1> SUFFICES ASSUME Init PROVE 1..typed = Elements(sent) \cup Elements(pending) \cup told
  BY DEF NothingLostQuietly
<1>1. sent = <<>> /\ pending = <<>> /\ told = {} /\ 1..typed = {}
  BY DEF Init
<1>2. Elements(sent) = {} /\ Elements(pending) = {}
  BY <1>1, NoElements
<1>3. QED
  BY <1>1, <1>2

LEMMA LostStep ==
  ASSUME TypeInv, NothingLostQuietly, [Next]_vars PROVE NothingLostQuietly'
<1> DEFINE Kinds == {"raised", "chat not open", "quit"}
<1>t. pending \in Numbers /\ sent \in Numbers /\ typed \in Nat
  BY NumbersKept DEF TypeInv
<1>c. causes \subseteq causes'
  BY StepMessages
<1> SUFFICES ASSUME ~(Kinds \cap causes' # {})
             PROVE  1..typed' = Elements(sent') \cup Elements(pending') \cup told'
  BY DEF NothingLostQuietly, Because
<1>a. 1..typed = Elements(sent) \cup Elements(pending) \cup told
  BY <1>c DEF NothingLostQuietly, Because
<1>1. CASE Typed /\ (SendNow \/ Queue)
  <2>1. /\ typed' \in Nat /\ 1..typed' = (1..typed) \cup {typed'}
        /\ told' = told
    <3>1. typed + 1 \in Nat /\ 1..(typed + 1) = (1..typed) \cup {typed + 1}
      BY <1>t, Successor
    <3>2. typed' = typed + 1 /\ told' = told
      BY <1>1 DEF Typed
    <3>3. QED
      BY <3>1, <3>2
  <2>s. /\ Elements(Append(sent, typed')) = Elements(sent) \cup {typed'}
        /\ Elements(Append(pending, typed')) = Elements(pending) \cup {typed'}
    BY <1>t, <2>1, NumberSequences
  <2>3. CASE SendNow
    <3>1. pending' = pending /\ (conn = "dead" => "raised" \in causes')
          /\ (conn = "up" => sent' = Append(sent, typed'))
      BY <2>3 DEF SendNow, Cause, queue
    <3>2. conn = "up"
      BY <2>3, <3>1 DEF SendNow, TypeInv, TypeOK
    <3>3. Elements(sent') = Elements(sent) \cup {typed'}
      BY <2>s, <3>1, <3>2
    <3>4. QED
      BY <1>a, <2>1, <3>1, <3>3
  <2>4. CASE Queue
    <3>1. pending' = Append(pending, typed') /\ sent' = sent
      BY <2>4 DEF Queue
    <3>2. Elements(pending') = Elements(pending) \cup {typed'}
      BY <2>s, <3>1
    <3>3. QED
      BY <1>a, <2>1, <3>1, <3>2
  <2>5. QED
    BY <1>1, <2>3, <2>4
<1>2. CASE typed' = typed /\ Delivered
  <2>1. sent' = sent \o pending /\ pending' = <<>> /\ told' = told
    BY <1>2 DEF Delivered
  <2>2. Elements(sent \o pending) = Elements(sent) \cup Elements(pending)
    BY <1>t, NumberSequences
  <2>e. Elements(pending') = {}
    BY <2>1, NoElements
  <2>3. QED
    BY <1>2, <1>a, <2>1, <2>2, <2>e
<1>3. CASE typed' = typed /\ BrokeOff
  <2>1. pending' = pending /\ told' = told
        /\ (sent' = sent \/ \E k \in 0..Len(pending) - 1 : sent' = sent \o SubSeq(pending, 1, k))
    BY <1>3 DEF BrokeOff
  <2>2. CASE sent' = sent
    BY <1>3, <1>a, <2>1, <2>2
  <2>3. CASE \E k \in 0..Len(pending) - 1 : sent' = sent \o SubSeq(pending, 1, k)
    <3>1. PICK k \in 0..Len(pending) - 1 : sent' = sent \o SubSeq(pending, 1, k)
      BY <2>3
    <3>2. /\ SubSeq(pending, 1, k) \in Numbers
          /\ Elements(SubSeq(pending, 1, k)) \subseteq Elements(pending)
      BY <1>t, NumberSequences
    <3>3. Elements(sent \o SubSeq(pending, 1, k))
            = Elements(sent) \cup Elements(SubSeq(pending, 1, k))
      BY <1>t, <3>2, NumberSequences
    <3>4. QED
      BY <1>3, <1>a, <2>1, <3>1, <3>2, <3>3
  <2>4. QED
    BY <2>1, <2>2, <2>3
<1>4. CASE typed' = typed /\ Lost
  <2>1. Elements(pending') = {} /\ sent' = sent
    BY <1>4, NoElements DEF Lost
  <2>2. CASE told' = told \cup Elements(pending)
    BY <1>4, <1>a, <2>1, <2>2
  <2>3. CASE told' = told /\ pending = <<>>
    BY <1>4, <1>a, <2>1, <2>3, NoElements
  <2>4. QED
    BY <1>4, <2>2, <2>3 DEF Lost
<1>5. CASE typed' = typed /\ Kept
  BY <1>5, <1>a DEF Kept
<1>6. QED
  BY <1>1, <1>2, <1>3, <1>4, <1>5, StepMessages DEF Flushed

----------------------------------------------------------------------------
(* What a step does to the timers *)

Timers == Seq(0..Attempts)

LEMMA FirstOf ==
  ASSUME NEW S, NEW s \in Seq(S), s # <<>>
  PROVE  Head(s) \in S /\ (Len(s) = 1 => Tail(s) = <<>>)
<1>1. Head(s) \in S /\ Tail(s) \in Seq(S) /\ Len(Tail(s)) = Len(s) - 1
  BY HeadTailProperties
<1>2. ASSUME Len(s) = 1 PROVE Tail(s) = <<>>
  <2>1. Len(Tail(s)) = 0
    BY <1>1, <1>2
  <2>2. QED
    BY <1>1, <2>1, EmptySeq
<1>3. QED
  BY <1>1, <1>2

LEMMA OnlyOne ==
  ASSUME NEW S, NEW x \in S
  PROVE  Len(Append(<<>>, x)) = 1 /\ Head(Append(<<>>, x)) = x
OBVIOUS

LEMMA TimerSequences ==
  /\ \A s \in Timers, n \in 0..Attempts :
       /\ Append(s, n) \in Timers /\ Append(s, n) # <<>>
       /\ s = <<>> => Len(Append(s, n)) = 1 /\ Head(Append(s, n)) = n
  /\ \A s \in Timers : s # <<>> => /\ Tail(s) \in Timers /\ Head(s) \in 0..Attempts
                                   /\ Len(s) = 1 => Tail(s) = <<>>
<1> DEFINE S == 0..Attempts
<1>1. Timers = Seq(S)
  BY DEF Timers
<1>2. /\ \A s \in Seq(S), n \in S :
           /\ Append(s, n) \in Seq(S) /\ Append(s, n) # <<>>
           /\ s = <<>> => Len(Append(s, n)) = 1 /\ Head(Append(s, n)) = n
      /\ \A s \in Seq(S) : s # <<>> => /\ Tail(s) \in Seq(S) /\ Head(s) \in S
                                       /\ Len(s) = 1 => Tail(s) = <<>>
  <2> HIDE DEF S
  <2>1. QED
    BY AppendElements, TailType, FirstOf, OnlyOne
<1>3. QED
  BY <1>1, <1>2

\* With no cause, there is one timer at most, and the attempts left to it and
\* those made since the queue was begun add up.
OneTimer ==
  \/ "older timer" \in causes
  \/ /\ timers = <<>> \/ Len(timers) = 1
     /\ pending # <<>> /\ timers # <<>> => Head(timers) + tries = Attempts

\* The invariants, with the causes named one by one.
Served == pending # <<>> => timers # <<>> \/ "broke off" \in causes
Waited == early => "older timer" \in causes \/ "late event" \in causes

LEMMA CausesNamed == (QueueIsServed <=> Served) /\ (Patient <=> Waited)
BY DEF QueueIsServed, Patient, Served, Waited, Because

\* What a step may do to the timers.
TimersKept ==
  /\ timers' = timers /\ tries' = tries
  /\ \/ pending' = <<>> /\ (early' => early \/ "late event" \in causes')
     \/ /\ (early' => early)
        /\ \/ pending' = pending
           \/ pending # <<>> /\ pending' # <<>>
TimerSet ==
  /\ pending = <<>> /\ pending' # <<>> /\ tries' = 0 /\ (early' => early)
  /\ timers' = Append(timers, Attempts)
  /\ timers # <<>> => "older timer" \in causes'
TimerUp ==
  /\ timers # <<>> /\ Head(timers) = 0 /\ timers' = Tail(timers)
  /\ pending # <<>> /\ pending' = <<>>
  /\ tries' = tries /\ (early' => early \/ tries < Attempts)
TimerCounts ==
  /\ timers # <<>> /\ Head(timers) > 0
  /\ pending # <<>> /\ pending' = pending
  /\ timers' = Append(Tail(timers), Head(timers) - 1)
  /\ tries' = tries + 1 /\ (early' => early)
TimerOver ==
  /\ timers # <<>> /\ timers' = Tail(timers) /\ tries' = tries /\ (early' => early)
  /\ pending' = <<>> \/ (pending' = pending /\ "broke off" \in causes')
TimersGone == pending' = <<>> /\ timers' = <<>> /\ tries' = tries /\ (early' => early)

LEMMA StepTimers ==
  ASSUME TypeInv, [Next]_vars
  PROVE  TimersKept \/ TimerSet \/ TimerUp \/ TimerCounts \/ TimerOver \/ TimersGone
<1> USE DEF queue, window, bounds, history, Cause
<1>1. CASE Send
  <2>1. CASE SendNow
    BY <1>1, <2>1 DEF Send, SendNow, TimersKept
  <2>2. CASE Queue
    <3>1. typed \in Nat /\ pending \in Seq(1..typed)
      BY DEF TypeInv, TypeOK
    <3>2. pending \in Numbers /\ typed' \in Nat
      BY <1>1, NumbersKept DEF Send, TypeInv
    <3>3. pending' # <<>>
      BY <2>2, <3>2, AppendElements DEF Queue, Numbers
    <3>4. QED
      BY <1>1, <2>2, <3>3 DEF Send, Queue, TimersKept, TimerSet
  <2>3. QED
    BY <1>1, <2>1, <2>2 DEF Send
<1>2. CASE Timer
  <2>1. CASE TimerGivesUp
    BY <2>1 DEF TimerGivesUp, GaveUp, TimerUp
  <2>2. CASE TimerAgain
    BY <2>2 DEF TimerAgain, TimerCounts
  <2>3. CASE TimerEnds
    BY <2>3 DEF TimerEnds, NothingQueued, Delivered, BrokeOff, TimerOver
  <2>4. QED
    BY <1>2, <2>1, <2>2, <2>3 DEF Timer
<1>3. CASE ConnectEvent
  BY <1>3 DEF ConnectEvent, NothingQueued, Delivered, BrokeOff, TimersKept
<1>4. CASE Restart
  BY <1>4 DEF Restart, TimersGone
<1>5. CASE SwitchChat \/ Register \/ BackToLife \/ Dies \/ Gone
  BY <1>5 DEF SwitchChat, Register, BackToLife, Dies, Gone, TimersKept
<1>6. CASE UNCHANGED vars
  BY <1>6 DEF vars, TimersKept
<1>7. QED
  BY <1>1, <1>2, <1>3, <1>4, <1>5, <1>6 DEF Next

LEMMA TimersStep ==
  ASSUME TypeInv, OneTimer, Served, Waited, [Next]_vars
  PROVE  OneTimer' /\ Served' /\ Waited'
<1>t. timers \in Timers /\ tries \in Nat /\ Attempts \in Nat /\ Attempts \in 0..Attempts
  BY OutboxAssumption DEF TypeInv, TypeOK, Timers
<1>c. /\ "older timer" \in causes => "older timer" \in causes'
      /\ "broke off" \in causes => "broke off" \in causes'
      /\ "late event" \in causes => "late event" \in causes'
  BY StepMessages
<1>1. CASE TimersKept
  BY <1>1, <1>c DEF TimersKept, OneTimer, Served, Waited
<1>2. CASE TimerSet
  <2>1. /\ Append(timers, Attempts) # <<>>
        /\ timers = <<>> => /\ Len(Append(timers, Attempts)) = 1
                            /\ Head(Append(timers, Attempts)) = Attempts
    BY <1>t, TimerSequences
  <2>2. CASE timers # <<>>
    BY <1>2, <1>c, <2>1, <2>2 DEF TimerSet, OneTimer, Served, Waited
  <2>3. CASE timers = <<>>
    <3>1. timers' # <<>> /\ Len(timers') = 1 /\ Head(timers') + tries' = Attempts
      BY <1>2, <1>t, <2>1, <2>3 DEF TimerSet
    <3>2. QED
      BY <1>2, <1>c, <3>1 DEF TimerSet, OneTimer, Served, Waited
  <2>4. QED
    BY <2>2, <2>3
<1>3. CASE TimerUp
  <2>1. Len(timers) = 1 => Tail(timers) = <<>>
    BY <1>3, <1>t, TimerSequences DEF TimerUp
  <2>2. ~("older timer" \in causes) => /\ Tail(timers) = <<>>
                                        /\ Head(timers) + tries = Attempts
    BY <1>3, <2>1 DEF TimerUp, OneTimer
  <2>3. Head(timers) + tries = Attempts => ~(tries < Attempts)
    BY <1>3, <1>t DEF TimerUp
  <2>4. QED
    BY <1>3, <1>c, <2>2, <2>3 DEF TimerUp, OneTimer, Served, Waited
<1>4. CASE TimerCounts
  <2>1. /\ Tail(timers) \in Timers /\ Head(timers) \in 0..Attempts
        /\ Len(timers) = 1 => Tail(timers) = <<>>
    BY <1>4, <1>t, TimerSequences DEF TimerCounts
  <2>2. Head(timers) - 1 \in 0..Attempts
    BY <1>4, <1>t, <2>1 DEF TimerCounts
  <2>3. /\ timers' # <<>>
        /\ Len(timers) = 1 => Len(timers') = 1 /\ Head(timers') = Head(timers) - 1
    BY <1>4, <2>1, <2>2, TimerSequences DEF TimerCounts
  <2>4. CASE "older timer" \in causes
    BY <1>4, <1>c, <2>3, <2>4 DEF TimerCounts, OneTimer, Served, Waited
  <2>5. CASE ~("older timer" \in causes)
    <3>1. Len(timers) = 1 /\ Head(timers) + tries = Attempts
      BY <1>4, <2>5 DEF TimerCounts, OneTimer
    <3>2. Len(timers') = 1 /\ Head(timers') = Head(timers) - 1 /\ tries' = tries + 1
      BY <1>4, <2>3, <3>1 DEF TimerCounts
    <3>3. Head(timers') + tries' = Attempts
      BY <1>t, <2>1, <3>1, <3>2, <1>4 DEF TimerCounts
    <3>4. QED
      BY <1>4, <1>c, <2>3, <3>2, <3>3 DEF TimerCounts, OneTimer, Served, Waited
  <2>6. QED
    BY <2>4, <2>5
<1>5. CASE TimerOver
  <2>1. Len(timers) = 1 => Tail(timers) = <<>>
    BY <1>5, <1>t, TimerSequences DEF TimerOver
  <2>2. ~("older timer" \in causes) => Tail(timers) = <<>>
    BY <1>5, <2>1 DEF TimerOver, OneTimer
  <2>3. QED
    BY <1>5, <1>c, <2>2 DEF TimerOver, OneTimer, Served, Waited
<1>6. CASE TimersGone
  BY <1>6, <1>c DEF TimersGone, OneTimer, Served, Waited
<1>7. QED
  BY <1>1, <1>2, <1>3, <1>4, <1>5, <1>6, StepTimers

----------------------------------------------------------------------------
(* The order of the messages, and that none is sent twice *)

Increasing(s) == \A i, j \in 1..Len(s) : i < j => s[i] < s[j]
Below(s, t) == \A i \in 1..Len(s), j \in 1..Len(t) : s[i] < t[j]
Distinct(s) == \A i, j \in 1..Len(s) : s[i] = s[j] => i = j
Apart(s, t) == \A i \in 1..Len(s), j \in 1..Len(t) : s[i] # t[j]

LEMMA AppendAt ==
  ASSUME NEW s \in Numbers, NEW x \in Nat
  PROVE  /\ Len(s) \in Nat /\ Len(Append(s, x)) = Len(s) + 1
         /\ \A i \in 1..Len(s) : Append(s, x)[i] = s[i] /\ s[i] \in Nat
         /\ Append(s, x)[Len(s) + 1] = x
BY DEF Numbers

LEMMA ConcatAt ==
  ASSUME NEW s \in Numbers, NEW t \in Numbers
  PROVE  /\ Len(s) \in Nat /\ Len(t) \in Nat /\ Len(s \o t) = Len(s) + Len(t)
         /\ \A i \in 1..Len(s) : (s \o t)[i] = s[i] /\ s[i] \in Nat
         /\ \A i \in 1..Len(s) + Len(t) :
              i > Len(s) => (s \o t)[i] = t[i - Len(s)] /\ i - Len(s) \in 1..Len(t)
         /\ \A i \in 1..Len(t) : t[i] \in Nat
BY DEF Numbers

LEMMA AppendOrder ==
  ASSUME NEW s \in Numbers, NEW x \in Nat, \A i \in 1..Len(s) : s[i] < x
  PROVE  /\ Increasing(s) => Increasing(Append(s, x))
         /\ Distinct(s) => Distinct(Append(s, x))
<1> DEFINE t == Append(s, x)
<1>0. /\ Len(s) \in Nat /\ Len(t) = Len(s) + 1 /\ t[Len(s) + 1] = x
      /\ \A i \in 1..Len(s) : t[i] = s[i] /\ s[i] \in Nat
  BY AppendAt
<1> HIDE DEF t
<1>1. ASSUME Increasing(s) PROVE Increasing(t)
  <2>1. SUFFICES ASSUME NEW i \in 1..Len(t), NEW j \in 1..Len(t), i < j
                 PROVE  t[i] < t[j]
    BY DEF Increasing
  <2>2. i \in 1..Len(s) /\ t[i] = s[i]
    BY <1>0, <2>1
  <2>3. CASE j \in 1..Len(s)
    BY <1>0, <1>1, <2>1, <2>2, <2>3 DEF Increasing
  <2>4. CASE j = Len(s) + 1
    BY <1>0, <2>2, <2>4
  <2>5. QED
    BY <1>0, <2>1, <2>3, <2>4
<1>2. ASSUME Distinct(s) PROVE Distinct(t)
  <2>1. SUFFICES ASSUME NEW i \in 1..Len(t), NEW j \in 1..Len(t), t[i] = t[j]
                 PROVE  i = j
    BY DEF Distinct
  <2>2. /\ i \in 1..Len(s) \/ i = Len(s) + 1
        /\ j \in 1..Len(s) \/ j = Len(s) + 1
    BY <1>0, <2>1
  <2>3. CASE i \in 1..Len(s) /\ j \in 1..Len(s)
    BY <1>0, <1>2, <2>1, <2>3 DEF Distinct
  <2>4. CASE i = Len(s) + 1 \/ j = Len(s) + 1
    BY <1>0, <2>1, <2>2, <2>4
  <2>5. QED
    BY <2>2, <2>3, <2>4
<1>3. QED
  BY <1>1, <1>2 DEF t

LEMMA ConcatOrder ==
  ASSUME NEW s \in Numbers, NEW t \in Numbers
  PROVE  /\ Increasing(s) /\ Increasing(t) /\ Below(s, t) => Increasing(s \o t)
         /\ Distinct(s) /\ Distinct(t) /\ Apart(s, t) => Distinct(s \o t)
<1> DEFINE u == s \o t
<1>0. /\ Len(s) \in Nat /\ Len(t) \in Nat /\ Len(u) = Len(s) + Len(t)
      /\ \A i \in 1..Len(s) : u[i] = s[i] /\ s[i] \in Nat
      /\ \A i \in 1..Len(s) + Len(t) :
           i > Len(s) => u[i] = t[i - Len(s)] /\ i - Len(s) \in 1..Len(t)
      /\ \A i \in 1..Len(t) : t[i] \in Nat
  BY ConcatAt
<1> HIDE DEF u
<1>1. ASSUME Increasing(s), Increasing(t), Below(s, t) PROVE Increasing(u)
  <2>1. SUFFICES ASSUME NEW i \in 1..Len(u), NEW j \in 1..Len(u), i < j
                 PROVE  u[i] < u[j]
    BY DEF Increasing
  <2>2. CASE j <= Len(s)
    BY <1>0, <1>1, <2>1, <2>2 DEF Increasing
  <2>3. CASE i <= Len(s) /\ j > Len(s)
    BY <1>0, <1>1, <2>1, <2>3 DEF Below
  <2>4. CASE i > Len(s) /\ j > Len(s)
    <3>1. /\ u[i] = t[i - Len(s)] /\ i - Len(s) \in 1..Len(t)
          /\ u[j] = t[j - Len(s)] /\ j - Len(s) \in 1..Len(t)
          /\ i - Len(s) < j - Len(s)
      BY <1>0, <2>1, <2>4
    <3>2. QED
      BY <1>1, <3>1 DEF Increasing
  <2>5. QED
    BY <1>0, <2>1, <2>2, <2>3, <2>4
<1>2. ASSUME Distinct(s), Distinct(t), Apart(s, t) PROVE Distinct(u)
  <2>1. SUFFICES ASSUME NEW i \in 1..Len(u), NEW j \in 1..Len(u), u[i] = u[j]
                 PROVE  i = j
    BY DEF Distinct
  <2>2. CASE i <= Len(s) /\ j <= Len(s)
    BY <1>0, <1>2, <2>1, <2>2 DEF Distinct
  <2>3. CASE i > Len(s) /\ j > Len(s)
    <3>1. /\ u[i] = t[i - Len(s)] /\ i - Len(s) \in 1..Len(t)
          /\ u[j] = t[j - Len(s)] /\ j - Len(s) \in 1..Len(t)
      BY <1>0, <2>1, <2>3
    <3>2. i - Len(s) = j - Len(s)
      BY <1>2, <2>1, <3>1 DEF Distinct
    <3>3. QED
      BY <1>0, <2>1, <3>2
  <2>4. CASE i <= Len(s) /\ j > Len(s)
    BY <1>0, <1>2, <2>1, <2>4 DEF Apart
  <2>5. CASE i > Len(s) /\ j <= Len(s)
    BY <1>0, <1>2, <2>1, <2>5 DEF Apart
  <2>6. QED
    BY <1>0, <2>1, <2>2, <2>3, <2>4, <2>5
<1>3. QED
  BY <1>1, <1>2 DEF u

\* A message is newer than those before it.
LEMMA Newest ==
  ASSUME TypeOK
  PROVE  /\ \A i \in 1..Len(sent) : sent[i] \in Nat /\ sent[i] < typed + 1
         /\ \A i \in 1..Len(pending) : pending[i] \in Nat /\ pending[i] < typed + 1
         /\ typed + 1 \in Nat
<1>1. typed \in Nat /\ pending \in Seq(1..typed) /\ sent \in Seq(1..typed)
  BY DEF TypeOK
<1>2. /\ \A i \in 1..Len(sent) : sent[i] \in 1..typed
      /\ \A i \in 1..Len(pending) : pending[i] \in 1..typed
  BY <1>1, LenProperties
<1>3. QED
  BY <1>1, <1>2

LEMMA NoOrder ==
  /\ Increasing(<<>>) /\ Distinct(<<>>)
  /\ \A s : Below(s, <<>>) /\ Below(<<>>, s) /\ Apart(s, <<>>) /\ Apart(<<>>, s)
BY DEF Increasing, Distinct, Below, Apart

InOrder ==
  \/ Increasing(sent) /\ Increasing(pending) /\ Below(sent, pending)
  \/ "overtook" \in causes \/ "broke off" \in causes
Once ==
  \/ Distinct(sent) /\ Distinct(pending) /\ Apart(sent, pending)
  \/ "broke off" \in causes

LEMMA OrderStep ==
  ASSUME TypeInv, InOrder, Once, [Next]_vars
  PROVE  InOrder' /\ Once'
<1>t. sent \in Numbers /\ pending \in Numbers /\ typed \in Nat
  BY NumbersKept DEF TypeInv
<1>n. /\ \A i \in 1..Len(sent) : sent[i] \in Nat /\ sent[i] < typed + 1
      /\ \A i \in 1..Len(pending) : pending[i] \in Nat /\ pending[i] < typed + 1
      /\ typed + 1 \in Nat
  BY Newest DEF TypeInv
<1>c. /\ "overtook" \in causes => "overtook" \in causes'
      /\ "broke off" \in causes => "broke off" \in causes'
  BY StepMessages
<1>1. CASE Typed /\ SendNow
  <2>1. CASE sent' = sent /\ pending' = pending
    BY <1>c, <2>1 DEF InOrder, Once
  <2>2. CASE sent' = Append(sent, typed + 1) /\ pending' = pending
    <3>1. /\ Increasing(sent) => Increasing(sent')
          /\ Distinct(sent) => Distinct(sent')
      BY <1>t, <1>n, <2>2, AppendOrder
    <3>2. Apart(sent, pending) => Apart(sent', pending')
      BY <1>t, <1>n, <2>2, AppendAt DEF Apart
    <3>3. pending = <<>> \/ "overtook" \in causes'
      BY <1>1, <2>2 DEF SendNow, Cause, Typed
    <3>4. QED
      BY <1>c, <2>2, <3>1, <3>2, <3>3, NoOrder DEF InOrder, Once
  <2>3. QED
    BY <1>1, <2>1, <2>2 DEF Typed, SendNow, queue
<1>2. CASE Typed /\ Queue
  <2>1. sent' = sent /\ pending' = Append(pending, typed + 1)
    BY <1>2 DEF Typed, Queue
  <2>2. /\ Increasing(pending) => Increasing(pending')
        /\ Distinct(pending) => Distinct(pending')
    BY <1>t, <1>n, <2>1, AppendOrder
  <2>3. /\ Below(sent, pending) => Below(sent', pending')
        /\ Apart(sent, pending) => Apart(sent', pending')
    BY <1>t, <1>n, <2>1, AppendAt DEF Below, Apart
  <2>4. QED
    BY <1>c, <2>1, <2>2, <2>3 DEF InOrder, Once
<1>3. CASE Delivered
  <2>1. sent' = sent \o pending /\ pending' = <<>>
    BY <1>3 DEF Delivered
  <2>2. QED
    BY <1>c, <1>t, <2>1, ConcatOrder, NoOrder DEF InOrder, Once
<1>4. CASE BrokeOff
  BY <1>4 DEF BrokeOff, InOrder, Once
<1>5. CASE Lost
  <2>1. sent' = sent /\ pending' = <<>>
    BY <1>5 DEF Lost
  <2>2. QED
    BY <1>c, <2>1, NoOrder DEF InOrder, Once
<1>6. CASE Kept
  BY <1>6, <1>c DEF Kept, InOrder, Once
<1>7. QED
  BY <1>1, <1>2, <1>3, <1>4, <1>5, <1>6, StepMessages DEF Flushed

\* The invariants, as module Outbox states them.
LEMMA OrderNamed ==
  ASSUME TypeInv
  PROVE  (InOrder => SentInOrder) /\ (Once => SentOnce)
<1>1. \A i \in 1..Len(sent) : sent[i] \in Nat
  BY Newest DEF TypeInv
<1>2. Increasing(sent) => \A i, j \in 1..Len(sent) : i < j => sent[i] <= sent[j]
  BY <1>1 DEF Increasing
<1>3. InOrder => SentInOrder
  BY <1>2 DEF InOrder, SentInOrder, Because
<1>4. Once => SentOnce
  BY DEF Once, SentOnce, Distinct, Because
<1>5. QED
  BY <1>3, <1>4

----------------------------------------------------------------------------
(* The theorems about the queue *)

Inv ==
  /\ TypeInv /\ NothingLostQuietly
  /\ OneTimer /\ Served /\ Waited
  /\ InOrder /\ Once

LEMMA Invariant == Spec => []Inv
<1>1. Init => Inv
  BY InitType, LostInit, NoOrder DEF Init, Inv, OneTimer, Served, Waited, InOrder, Once
<1>2. Inv /\ [Next]_vars => Inv'
  BY StepType, LostStep, TimersStep, OrderStep DEF Inv
<1>3. QED
  BY <1>1, <1>2, PTL DEF Spec

\* In every reachable state the queue holds messages that were typed, each timer
\* has between no and all of its attempts left, and there are no more "connect"
\* events than connections (gui.py:983-1013, 1085-1124).
THEOREM OutboxTypeCorrect == Spec => []TypeOK
BY Invariant, PTL DEF Inv, TypeInv

\* Whatever the interleaving of the window with the network threads, a message is
\* sent, queued or reported, but for the three ways to lose one that the code
\* has (gui.py:997, 1113 and the queue in memory).
THEOREM NothingIsLostQuietly == Spec => []NothingLostQuietly
BY Invariant, PTL DEF Inv

\* A queue never waits without a timer, unless sending one broke off in the
\* middle (gui.py:1004, 1105).
THEOREM QueuesAreServed == Spec => []QueueIsServed
<1>1. Inv => QueueIsServed
  BY CausesNamed DEF Inv
<1>2. QED
  BY <1>1, Invariant, PTL

\* A queue has all its attempts before it is given up, for any number of
\* attempts, unless an older timer or a late event gives it up (gui.py:1109).
THEOREM QueuesArePatient == Spec => []Patient
<1>1. Inv => Patient
  BY CausesNamed DEF Inv
<1>2. QED
  BY <1>1, Invariant, PTL

\* Messages leave in the order they were typed, for any number of them, unless
\* one overtook a queue or sending a queue broke off (gui.py:996, 1105).
THEOREM MessagesKeepTheirOrder == Spec => []SentInOrder
<1>1. Inv => SentInOrder
  BY OrderNamed DEF Inv
<1>2. QED
  BY <1>1, Invariant, PTL

\* No message is sent twice, unless sending a queue broke off (gui.py:1105-1107).
THEOREM MessagesAreSentOnce == Spec => []SentOnce
<1>1. Inv => SentOnce
  BY OrderNamed DEF Inv
<1>2. QED
  BY <1>1, Invariant, PTL

----------------------------------------------------------------------------
(* What the window knows of a contact *)

\* What the table does not have is neither marked nor assigned.
Blank == ~row.known => ~row.verified /\ row.relay = None

\* The badge and the relay also agree while the row or the entry is not there:
\* either may appear later, and then says what it said before.
Badge == meta.verified # row.verified => Parted(BadgeCauses)
Route == meta.relay # row.relay => Parted(RelayCauses)

ContactInv == ContactsTypeOK /\ Blank /\ ConfirmationLasts /\ Badge /\ Route

Rows == [known: BOOLEAN, verified: BOOLEAN, relay: MaybeRelay]
Entries == [known: BOOLEAN, verified: BOOLEAN, relay: MaybeRelay, host: BOOLEAN]
AllCauses == RelayCauses \cup BadgeCauses

LEMMA InitContact == ContactsInit => ContactInv
<1> SUFFICES ASSUME ContactsInit PROVE ContactInv
  OBVIOUS
<1>1. row = NoRow /\ meta = NoMeta /\ ~confirmed /\ partings = {}
  BY DEF ContactsInit
<1>2. row \in Rows /\ meta \in Entries
  BY <1>1 DEF Rows, Entries, NoRow, NoMeta, MaybeRelay
<1>3. steps \in 0..MaxSteps /\ route \in [via: {"none", "direct", "relay"}, count: 0..MaxSteps]
  BY ContactsAssumption DEF ContactsInit
<1>4. ContactsTypeOK
  BY <1>2, <1>3 DEF ContactsInit, ContactsTypeOK, Rows, Entries, MaybeRelay
<1>5. Blank /\ ConfirmationLasts /\ Badge /\ Route
  BY <1>1 DEF Blank, ConfirmationLasts, Badge, Route, NoRow, NoMeta
<1>6. QED
  BY <1>4, <1>5 DEF ContactInv

\* What is stored over a row leaves its mark, and its relay if none is given.
LEMMA UpsertedRow ==
  ASSUME row \in Rows, NEW relay \in MaybeRelay
  PROVE  /\ Upserted(relay) \in Rows
         /\ Upserted(relay).known
         /\ Upserted(relay).verified = row.verified
         /\ Upserted(relay).relay = IF relay = None THEN row.relay ELSE relay
BY DEF Upserted, Rows

LEMMA WithRelayRow ==
  ASSUME row \in Rows, NEW relay \in MaybeRelay
  PROVE  /\ WithRelay(relay) \in Rows
         /\ WithRelay(relay).known = row.known
         /\ WithRelay(relay).verified = row.verified
         /\ WithRelay(relay).relay = IF row.known THEN relay ELSE row.relay
BY DEF WithRelay, Rows

LEMMA WithVerifiedRow ==
  ASSUME row \in Rows
  PROVE  /\ WithVerified \in Rows
         /\ WithVerified.known = row.known
         /\ WithVerified.relay = row.relay
         /\ WithVerified.verified = (row.known \/ row.verified)
BY DEF WithVerified, Rows

LEMMA KeyOfRelay ==
  ASSUME NEW relay \in MaybeRelay, NEW added \in BOOLEAN PROVE KeyOf(relay, added) \in MaybeRelay
BY DEF KeyOf, MaybeRelay

\* A relay that is configured gets a client, which is not yet connected.
LEMMA StartRelayType ==
  ASSUME ContactsTypeOK, NEW relay \in Relays, StartRelay(relay)
  PROVE  config' \subseteq Relays /\ relays' = config' /\ connected' \subseteq relays'
BY DEF ContactsTypeOK, StartRelay, Configured

\* A card's relay is one to add, or the configuration stays as it is.
LEMMA CardRelaysType ==
  ASSUME ContactsTypeOK, NEW relay \in MaybeRelay, NEW added \in BOOLEAN,
         CardRelay(relay, added), CardRelays(relay, added)
  PROVE  config' \subseteq Relays /\ relays' = config' /\ connected' \subseteq relays'
<1>1. CASE added
  <2>1. relay \in Relays
    BY <1>1 DEF CardRelay, MaybeRelay
  <2>2. QED
    BY <1>1, <2>1, StartRelayType DEF CardRelays
<1>2. CASE ~added
  BY <1>2 DEF CardRelays, ContactsTypeOK
<1>3. QED
  BY <1>1, <1>2

LEMMA UserSteps == ASSUME ContactsTypeOK, User PROVE steps' \in 0..MaxSteps
BY ContactsAssumption DEF ContactsTypeOK, User

\* A step that changes neither the row, nor the entry, nor what went wrong.
LEMMA SameContact ==
  ASSUME ContactInv, UNCHANGED <<row, meta, confirmed, partings>>
  PROVE  (Blank /\ ConfirmationLasts /\ Badge /\ Route)'
BY DEF ContactInv, Blank, ConfirmationLasts, Badge, Route, Parted

\* A connection stores the contact as it is known.
LEMMA RegisteredContact ==
  ASSUME ContactInv, NEW how \in Relays \cup {"direct"}, Registered(how), UNCHANGED <<meta, confirmed, partings>>
  PROVE  /\ row' \in Rows /\ reach' \in MaybeRelay \cup {"direct"} /\ queued' \in BOOLEAN
         /\ (Blank /\ ConfirmationLasts /\ Badge /\ Route)'
<1>1. row \in Rows /\ None \in MaybeRelay
  BY DEF ContactInv, ContactsTypeOK, Rows, MaybeRelay
<1>2. row' \in Rows /\ row'.known /\ row'.verified = row.verified /\ row'.relay = row.relay
  BY <1>1, UpsertedRow DEF Registered
<1>3. reach' \in MaybeRelay \cup {"direct"} /\ queued' \in BOOLEAN
  BY DEF Registered, MaybeRelay
<1>4. QED
  BY <1>2, <1>3 DEF ContactInv, Blank, ConfirmationLasts, Badge, Route, Parted

LEMMA StepContact == ContactInv /\ [ContactsNext]_contactVars => ContactInv'
<1> SUFFICES ASSUME ContactInv, [ContactsNext]_contactVars PROVE ContactInv'
  OBVIOUS
<1> USE DEF stored, network, lan, contactWindow, contactHistory
<1>t. /\ ContactsTypeOK /\ row \in Rows /\ meta \in Entries /\ partings \subseteq AllCauses
      /\ None \in MaybeRelay /\ \A r \in Relays : r \in MaybeRelay
  BY DEF ContactInv, ContactsTypeOK, Rows, Entries, AllCauses, MaybeRelay
<1>q. /\ "discovered" \in RelayCauses /\ "card" \in RelayCauses /\ "no row" \in RelayCauses
      /\ "card again" \in BadgeCauses /\ "unstored" \in BadgeCauses
      /\ RelayCauses \cap BadgeCauses = {}
  BY DEF RelayCauses, BadgeCauses
\* Relays that are added, removed, go up or down: the contact stays as it is.
<1>1. ASSUME NEW r \in Relays, AddRelay(r) PROVE ContactInv'
  <2>1. config' \subseteq Relays /\ relays' = config' /\ connected' \subseteq relays'
    BY <1>1, <1>t, StartRelayType DEF AddRelay
  <2>2. steps' \in 0..MaxSteps
    BY <1>1, <1>t, UserSteps DEF AddRelay
  <2>3. ContactsTypeOK'
    BY <1>1, <1>t, <2>1, <2>2 DEF AddRelay, ContactsTypeOK
  <2>4. QED
    BY <1>1, <2>3, SameContact DEF AddRelay, ContactInv
<1>2. ASSUME NEW r \in Relays, RemoveRelay(r) PROVE ContactInv'
  <2>1. steps' \in 0..MaxSteps
    BY <1>2, <1>t, UserSteps DEF RemoveRelay
  <2>2. ContactsTypeOK'
    BY <1>2, <1>t, <2>1 DEF RemoveRelay, Unconfigured, ContactsTypeOK
  <2>3. QED
    BY <1>2, <2>2, SameContact DEF RemoveRelay, ContactInv
<1>3. ASSUME NEW r \in Relays, RelayUp(r) \/ RelayDown(r) PROVE ContactInv'
  <2>1. ContactsTypeOK'
    BY <1>3, <1>t DEF RelayUp, RelayDown, ContactsTypeOK
  <2>2. QED
    BY <1>3, <2>1, SameContact DEF RelayUp, RelayDown, ContactInv
\* What the user does with the contact.
<1>4. ASSUME NEW r \in MaybeRelay, NEW added \in BOOLEAN, AddByCard(r, added) PROVE ContactInv'
  <2>1. config' \subseteq Relays /\ relays' = config' /\ connected' \subseteq relays'
    BY <1>4, <1>t, CardRelaysType DEF AddByCard
  <2>2. steps' \in 0..MaxSteps
    BY <1>4, <1>t, UserSteps DEF AddByCard
  <2>3. row' \in Rows /\ row'.known /\ row'.verified = row.verified
    BY <1>4, <1>t, UpsertedRow DEF AddByCard
  <2>4. /\ meta' \in Entries /\ ~meta'.verified /\ meta'.relay = KeyOf(r, added)
    BY <1>4, KeyOfRelay DEF AddByCard, Entries
  <2>5. /\ partings' = (partings \ RelayCauses)
              \cup Parting(row.verified \/ meta.verified, "card again")
              \cup Parting(KeyOf(r, added) # row'.relay, "card")
        /\ UNCHANGED confirmed
    BY <1>4 DEF AddByCard
  <2>6. partings' \subseteq AllCauses
    BY <2>5, <1>t, <1>q DEF Parting, AllCauses
  <2>7. ContactsTypeOK'
    BY <1>4, <1>t, <2>1, <2>2, <2>3, <2>4, <2>6 DEF AddByCard, ContactsTypeOK, Rows, Entries, AllCauses
  <2>8. Blank' /\ ConfirmationLasts'
    BY <2>3, <2>5, <1>q DEF ContactInv, Blank, ConfirmationLasts, Parted
  <2>9. Badge' /\ Route'
    BY <2>3, <2>4, <2>5, <1>q, <1>t DEF Badge, Route, Parted, Parting, Rows, Entries
  <2>10. QED
    BY <2>7, <2>8, <2>9 DEF ContactInv
<1>5. ASSUME NEW r \in MaybeRelay, NEW added \in BOOLEAN, AddMember(r, added) PROVE ContactInv'
  <2>1. config' \subseteq Relays /\ relays' = config' /\ connected' \subseteq relays'
    BY <1>5, <1>t, CardRelaysType DEF AddMember
  <2>2. steps' \in 0..MaxSteps
    BY <1>5, <1>t, UserSteps DEF AddMember
  <2>3. /\ row' \in Rows /\ row'.known = row.known /\ row'.verified = row.verified
        /\ row'.relay = IF row.known THEN r ELSE row.relay
    BY <1>5, <1>t, WithRelayRow DEF AddMember
  <2>4. meta' \in Entries /\ meta'.verified = meta.verified /\ meta'.relay = KeyOf(r, added)
    BY <1>5, <1>t, KeyOfRelay DEF AddMember, Entries
  <2>5. /\ partings' = (partings \ RelayCauses)
              \cup Parting(KeyOf(r, added) # r, "card") \cup Parting(~row.known, "no row")
        /\ UNCHANGED confirmed
    BY <1>5 DEF AddMember
  <2>6. partings' \subseteq AllCauses
    BY <2>5, <1>t, <1>q DEF Parting, AllCauses
  <2>7. ContactsTypeOK'
    BY <1>5, <1>t, <2>1, <2>2, <2>3, <2>4, <2>6 DEF AddMember, ContactsTypeOK, Rows, Entries, AllCauses
  <2>8. Blank' /\ ConfirmationLasts'
    BY <2>3, <2>5, <1>q DEF ContactInv, Blank, ConfirmationLasts, Parted
  <2>9. Badge' /\ Route'
    BY <2>3, <2>4, <2>5, <1>q DEF ContactInv, Badge, Route, Parted, Parting
  <2>10. QED
    BY <2>7, <2>8, <2>9 DEF ContactInv
<1>6. CASE OpenAssign
  <2>1. steps' \in 0..MaxSteps
    BY <1>6, <1>t, UserSteps DEF OpenAssign
  <2>2. ContactsTypeOK'
    BY <1>6, <1>t, <2>1 DEF OpenAssign, ContactsTypeOK
  <2>3. QED
    BY <1>6, <2>2, SameContact DEF OpenAssign, ContactInv
<1>7. ASSUME NEW r \in MaybeRelay, SaveAssign(r) PROVE ContactInv'
  <2>1. /\ row' \in Rows /\ row'.known = row.known /\ row'.verified = row.verified
        /\ row'.relay = IF row.known THEN r ELSE row.relay
    BY <1>7, <1>t, WithRelayRow DEF SaveAssign
  <2>2. meta' \in Entries /\ meta'.verified = meta.verified /\ meta'.relay = r
    BY <1>7, <1>t DEF SaveAssign, Entries
  <2>3. /\ partings' = (partings \ RelayCauses) \cup Parting(~row.known, "no row")
        /\ UNCHANGED confirmed
    BY <1>7 DEF SaveAssign
  <2>4. partings' \subseteq AllCauses
    BY <2>3, <1>t, <1>q DEF Parting, AllCauses
  <2>5. ContactsTypeOK'
    BY <1>7, <1>t, <2>1, <2>2, <2>4 DEF SaveAssign, ContactsTypeOK, Rows, Entries, AllCauses
  <2>6. Blank' /\ ConfirmationLasts'
    BY <2>1, <2>3, <1>q DEF ContactInv, Blank, ConfirmationLasts, Parted
  <2>7. Badge' /\ Route'
    BY <2>1, <2>2, <2>3, <1>q DEF ContactInv, Badge, Route, Parted, Parting
  <2>8. QED
    BY <2>5, <2>6, <2>7 DEF ContactInv
<1>8. CASE Verify
  <2>1. steps' \in 0..MaxSteps
    BY <1>8, <1>t, UserSteps DEF Verify
  <2>2. /\ row' \in Rows /\ row'.known = row.known /\ row'.relay = row.relay
        /\ row'.verified = (row.known \/ row.verified)
    BY <1>8, <1>t, WithVerifiedRow DEF Verify
  <2>3. meta' \in Entries /\ meta'.verified = TRUE /\ meta'.relay = meta.relay
    BY <1>8, <1>t DEF Verify, Entries
  <2>4. partings' = (partings \ BadgeCauses) \cup Parting(~row.known, "unstored")
    BY <1>8 DEF Verify
  <2>5. partings' \subseteq AllCauses
    BY <2>4, <1>t, <1>q DEF Parting, AllCauses
  <2>6. ContactsTypeOK'
    BY <1>8, <1>t, <2>1, <2>2, <2>3, <2>5 DEF Verify, ContactsTypeOK, Rows, Entries, AllCauses
  <2>7. row.known => row'.verified
    BY <2>2, <1>t DEF Rows
  <2>8. ~row.known => "unstored" \in partings'
    BY <2>4 DEF Parting
  <2>9. Blank' /\ ConfirmationLasts'
    BY <2>2, <2>7, <2>8, <1>t DEF ContactInv, Blank, ConfirmationLasts, Parted, Rows
  <2>10. Badge' /\ Route'
    BY <2>2, <2>3, <2>4, <2>7, <2>8, <1>q, <1>t DEF ContactInv, Badge, Route, Parted, Rows, Parting
  <2>11. QED
    BY <2>6, <2>9, <2>10 DEF ContactInv
<1>9. CASE Attempt
  <2>1. steps' \in 0..MaxSteps
    BY <1>9, <1>t, UserSteps DEF Attempt
  <2>2. route' \in [via: {"none", "direct", "relay"}, count: 0..MaxSteps]
    BY <1>9, <2>1 DEF Attempt
  <2>3. UNCHANGED <<meta, confirmed, partings>>
    BY <1>9 DEF Attempt
  <2>4. /\ row' \in Rows /\ reach' \in MaybeRelay \cup {"direct"} /\ queued' \in BOOLEAN
        /\ (Blank /\ ConfirmationLasts /\ Badge /\ Route)'
    <3>1. CASE Registered("direct")
      BY <2>3, <3>1, RegisteredContact
    <3>2. CASE meta.relay \in connected /\ Registered(meta.relay)
      <4>1. meta.relay \in Relays
        BY <3>2, <1>t DEF ContactsTypeOK
      <4>2. QED
        BY <2>3, <3>2, <4>1, RegisteredContact
    <3>3. CASE UNCHANGED <<reach, row, queued>>
      BY <2>3, <3>3, <1>t, SameContact DEF ContactsTypeOK
    <3>4. QED
      BY <1>9, <3>1, <3>2, <3>3 DEF Attempt
  <2>5. ContactsTypeOK'
    BY <1>9, <1>t, <2>1, <2>2, <2>4 DEF Attempt, ContactsTypeOK, Rows
  <2>6. QED
    BY <2>4, <2>5 DEF ContactInv
<1>10. CASE Reopen
  <2>1. steps' \in 0..MaxSteps
    BY <1>10, <1>t, UserSteps DEF Reopen
  <2>2. /\ meta' \in Entries
        /\ meta'.verified = row.verified /\ meta'.relay = row.relay
    BY <1>10, <1>t DEF Reopen, Loaded, NoMeta, Rows, Entries, ContactInv, Blank
  <2>3. row' = row /\ confirmed' = confirmed /\ partings' = partings \cap {"unstored"}
    BY <1>10 DEF Reopen
  <2>4. ContactsTypeOK'
    BY <1>10, <1>t, <2>1, <2>2, <2>3 DEF Reopen, ContactsTypeOK, Entries, MaybeRelay, Closed
  <2>5. QED
    BY <2>2, <2>3, <2>4 DEF ContactInv, Blank, ConfirmationLasts, Badge, Route, Parted
\* The LAN, the network's threads, and the window's events.
<1>11. CASE Beacon \/ Reap \/ ContactMoves \/ Disconnected
  <2>1. ContactsTypeOK'
    BY <1>11, <1>t DEF Beacon, Reap, ContactMoves, Disconnected, ContactsTypeOK
  <2>2. QED
    BY <1>11, <2>1, SameContact DEF Beacon, Reap, ContactMoves, Disconnected, ContactInv
<1>12. CASE RefreshPeerList
  <2>1. /\ meta' \in Entries /\ meta'.verified = meta.verified
        /\ "discovered" \in partings' /\ partings' = partings \cup {"discovered"}
        /\ UNCHANGED <<row, confirmed>>
    BY <1>12, <1>t DEF RefreshPeerList, Entries
  <2>2. ContactsTypeOK'
    BY <1>12, <1>t, <2>1 DEF RefreshPeerList, ContactsTypeOK, Entries, RelayCauses
  <2>3. QED
    BY <2>1, <2>2, <1>q DEF ContactInv, Blank, ConfirmationLasts, Badge, Route, Parted
<1>13. ASSUME NEW how \in Relays \cup {"direct"}, Inbound(how) PROVE ContactInv'
  <2>1. Registered(how) /\ UNCHANGED <<meta, confirmed, partings>>
    BY <1>13 DEF Inbound
  <2>2. /\ row' \in Rows /\ reach' \in MaybeRelay \cup {"direct"} /\ queued' \in BOOLEAN
        /\ (Blank /\ ConfirmationLasts /\ Badge /\ Route)'
    BY <2>1, RegisteredContact
  <2>3. ContactsTypeOK'
    BY <1>13, <1>t, <2>1, <2>2 DEF Inbound, Registered, ContactsTypeOK, Rows
  <2>4. QED
    BY <2>2, <2>3 DEF ContactInv
<1>14. CASE PollConnect
  <2>1. /\ meta' \in Entries /\ meta'.verified = meta.verified /\ meta'.relay = meta.relay
        /\ UNCHANGED <<row, confirmed, partings>>
    BY <1>14, <1>t DEF PollConnect, Entries
  <2>2. ContactsTypeOK'
    BY <1>14, <1>t, <2>1 DEF PollConnect, ContactsTypeOK, Entries
  <2>3. QED
    BY <2>1, <2>2 DEF ContactInv, Blank, ConfirmationLasts, Badge, Route, Parted
<1>15. CASE UNCHANGED contactVars
  <2>1. ContactsTypeOK'
    BY <1>15, <1>t DEF contactVars, ContactsTypeOK
  <2>2. QED
    BY <1>15, <2>1, SameContact DEF contactVars, ContactInv
<1>16. QED
  BY <1>1, <1>2, <1>3, <1>4, <1>5, <1>6, <1>7, <1>8, <1>9, <1>10, <1>11, <1>12, <1>13,
     <1>14, <1>15 DEF ContactsNext

LEMMA ContactInvariant == ContactsSpec => []ContactInv
BY InitContact, StepContact, PTL DEF ContactsSpec

----------------------------------------------------------------------------
(* The theorems about what the window knows *)

\* A configured relay has a client and a connected client is a configured
\* one's, whatever is added, removed, declined and restarted (gui.py:312-395).
THEOREM ContactsTypeCorrect == ContactsSpec => []ContactsTypeOK
<1>1. ContactInv => ContactsTypeOK
  BY DEF ContactInv
<1>2. QED
  BY <1>1, ContactInvariant, PTL

\* A contact's confirmation stays in the table through every connection, card,
\* assignment and restart, if it had a row (storage.py:104-135).
THEOREM ConfirmationStays == ContactsSpec => []ConfirmationLasts
<1>1. ContactInv => ConfirmationLasts
  BY DEF ContactInv
<1>2. QED
  BY <1>1, ContactInvariant, PTL

\* The window's badge differs from the table's only after one of two operations,
\* and its relay from the stored one only after one of three (gui.py:718-726).
THEOREM TheListAgrees == ContactsSpec => []ListAgrees
<1>1. ContactInv => BadgeAgrees
  BY DEF ContactInv, Badge, BadgeAgrees
<1>2. ContactInv => RelayAgrees
  BY DEF ContactInv, Route, RelayAgrees
<1>3. QED
  BY <1>1, <1>2, ContactInvariant, PTL DEF ListAgrees

\* An attempt to reach a contact that was not seen on the LAN, whose relay is
\* connected, goes through that relay (gui.py:800-842).
THEOREM RelayIsTried == ContactsSpec => FallsBackIfNeverSeen
<1> DEFINE Tried == NotLive => route'.via = "relay" \/ Parted(RelayCauses) \/ meta.host
<1>1. ContactInv /\ [ContactsNext]_contactVars => [Tried]_contactVars
  <2> SUFFICES ASSUME ContactInv, [ContactsNext]_contactVars, NotLive, ~Parted(RelayCauses), ~meta.host
               PROVE  route'.via = "relay"
    OBVIOUS
  <2>1. meta.relay = row.relay /\ row.relay \in connected
    BY DEF ContactInv, Route, NotLive
  <2>2. Attempt
    BY DEF NotLive, ContactsNext, contactVars, stored, network, lan, contactWindow, contactHistory, AddRelay, RemoveRelay,
           RelayUp, RelayDown, AddByCard, AddMember, OpenAssign, SaveAssign, Verify, Reopen,
           Beacon, Reap, RefreshPeerList, ContactMoves, Inbound, Disconnected, PollConnect
  <2>3. QED
    BY <2>1, <2>2 DEF Attempt
<1>2. QED
  BY <1>1, ContactInvariant, PTL DEF ContactsSpec, FallsBackIfNeverSeen
=============================================================================
