------------------------------- MODULE Outbox -------------------------------
(***************************************************************************)
(* What becomes of the messages the user of the desktop client types to    *)
(* one contact: _send_content, pending_sends, the _flush_pending timers    *)
(* and the "connect" events of the window (haven/gui.py), over the         *)
(* connections of NetworkManager (network.py).                             *)
(*                                                                         *)
(* The window's thread runs one handler at a time.  Network threads        *)
(* register and drop connections at any moment, also in the middle of a    *)
(* handler.  A connection may be dead while it is registered: a relay's    *)
(* is never taken out, a direct one only when its reader notices.  What is *)
(* handed to a connection that is not dead counts as sent; what a session  *)
(* does with it is module Session's.                                       *)
(***************************************************************************)
EXTENDS Naturals, Sequences, FiniteSets

CONSTANTS
  Attempts,     \* attempts_left of the first timer (20 in the code)
  MaxMessages,  \* bound: messages typed
  MaxConnects,  \* bound: connections registered, or come back to life
  MaxFaults     \* bound: connections lost, and restarts

ASSUME OutboxAssumption ==
  /\ Attempts \in Nat \ {0}
  /\ MaxMessages \in Nat /\ MaxConnects \in Nat /\ MaxFaults \in Nat

VARIABLES
  conn,      \* connections[fp]: "none", "up", or "dead"
  pending,   \* pending_sends[fp]
  timers,    \* attempts_left of the timers set, the next one first
  events,    \* how many "connect" events are queued
  polling,   \* _poll_events will run again
  open,      \* the contact's chat is open
  typed,     \* how many messages were typed
  connects, faults,
  sent,      \* the messages sent, in order (history)
  told,      \* the messages whose loss the user was told of (history)
  tries,     \* how often the timers looked at this queue (history)
  early,     \* a queue was given up before all attempts (history)
  causes     \* what went wrong (history)

queue == <<pending, timers>>
window == <<events, polling, open>>
bounds == <<typed, connects, faults>>
history == <<sent, told, tries, early, causes>>
vars == <<conn, queue, window, bounds, history>>

----------------------------------------------------------------------------
Elements(seq) == {seq[i] : i \in 1..Len(seq)}
Cause(condition, kind) == IF condition THEN {kind} ELSE {}
Causes == {"overtook", "broke off", "raised", "chat not open", "quit", "older timer",
           "late event"}
Because(kinds) == causes \cap kinds # {}

Init ==
  /\ conn = "none" /\ pending = <<>> /\ timers = <<>>
  /\ events = 0 /\ polling = TRUE /\ open = TRUE
  /\ typed = 0 /\ connects = 0 /\ faults = 0
  /\ sent = <<>> /\ told = {} /\ tries = 0 /\ early = FALSE /\ causes = {}

----------------------------------------------------------------------------
\* _send_content.  The entry box has been cleared; the queue is not looked at
\* when there is a connection.  send_text raises when the connection is dead.
SendNow ==
  /\ conn # "none"
  /\ sent' = IF conn = "up" THEN Append(sent, typed') ELSE sent
  /\ causes' = causes \cup Cause(conn = "dead", "raised")
       \cup Cause(conn = "up" /\ pending # <<>>, "overtook")
  /\ UNCHANGED <<queue, tries>>

\* A version that sets no timer, and one that puts the latest message first.
QueueOnly ==
  /\ conn = "none"
  /\ pending' = Append(pending, typed')
  /\ UNCHANGED <<sent, timers, tries, causes>>
QueueFirst ==
  /\ conn = "none"
  /\ pending' = <<typed'>> \o pending
  /\ IF pending = <<>>
     THEN /\ timers' = Append(timers, Attempts) /\ tries' = 0
          /\ causes' = causes \cup Cause(timers # <<>>, "older timer")
     ELSE UNCHANGED <<timers, tries, causes>>
  /\ UNCHANGED sent

\* The first message of a queue sets the timer.
Queue ==
  /\ conn = "none"
  /\ pending' = Append(pending, typed')
  /\ IF pending = <<>>
     THEN /\ timers' = Append(timers, Attempts) /\ tries' = 0
          /\ causes' = causes \cup Cause(timers # <<>>, "older timer")
     ELSE UNCHANGED <<timers, tries, causes>>
  /\ UNCHANGED sent

Send ==
  /\ open /\ typed < MaxMessages
  /\ typed' = typed + 1
  /\ SendNow \/ Queue
  /\ UNCHANGED <<conn, window, connects, faults, told, early>>

----------------------------------------------------------------------------
\* _flush_pending, its outcomes.  The queue is emptied after the last message
\* was sent: when sending one raises, those before it are sent, and all stay.

NothingQueued ==
  /\ pending = <<>>
  /\ UNCHANGED <<conn, pending, faults, history>>

\* A version that leaves the queue as it is.
DeliveredKept ==
  /\ pending # <<>> /\ conn = "up"
  /\ sent' = sent \o pending
  /\ UNCHANGED <<conn, pending, faults, told, tries, early, causes>>

Delivered ==
  /\ pending # <<>> /\ conn = "up"
  /\ sent' = sent \o pending
  /\ pending' = <<>>
  /\ UNCHANGED <<conn, faults, told, tries, early, causes>>

BrokeOff ==
  /\ pending # <<>> /\ conn # "none"
  /\ \/ conn = "dead" /\ UNCHANGED <<conn, sent, faults>>
     \/ /\ conn = "up" /\ faults < MaxFaults
        /\ faults' = faults + 1
        /\ conn' \in {"dead", "none"}
        /\ \E k \in 0..Len(pending) - 1 : sent' = sent \o SubSeq(pending, 1, k)
  /\ causes' = causes \cup {"broke off"}
  /\ UNCHANGED <<pending, told, tries, early>>

\* A version that says nothing.
GaveUpQuietly ==
  /\ pending # <<>> /\ conn = "none"
  /\ pending' = <<>>
  /\ early' = (early \/ tries < Attempts)
  /\ UNCHANGED <<conn, faults, sent, told, tries, causes>>

GaveUp ==
  /\ pending # <<>> /\ conn = "none"
  /\ pending' = <<>>
  /\ told' = IF open THEN told \cup Elements(pending) ELSE told
  /\ early' = (early \/ tries < Attempts)
  /\ causes' = causes \cup Cause(~open, "chat not open")
  /\ UNCHANGED <<conn, faults, sent, tries>>

\* The timer's call.  One that raises is not set again.
TimerGivesUp ==
  /\ timers # <<>> /\ Head(timers) = 0
  /\ GaveUp /\ timers' = Tail(timers)

\* Versions that count by two, below zero, and not at all.
TimerAgainBy(attempts) ==
  /\ timers # <<>> /\ pending # <<>> /\ conn = "none"
  /\ timers' = Append(Tail(timers), attempts)
  /\ UNCHANGED <<conn, pending, faults, sent, told, early, causes>>
TimerAgainByTwo ==
  /\ TimerAgainBy(IF Head(timers) > 1 THEN Head(timers) - 2 ELSE 0)
  /\ Head(timers) > 0 /\ tries' = tries + 1
TimerAgainBelow == TimerAgainBy(Head(timers) - 1) /\ UNCHANGED tries
TimerAgainSame == TimerAgainBy(Head(timers)) /\ Head(timers) > 0 /\ UNCHANGED tries

TimerAgain ==
  /\ timers # <<>> /\ Head(timers) > 0
  /\ pending # <<>> /\ conn = "none"
  /\ timers' = Append(Tail(timers), Head(timers) - 1)
  /\ tries' = tries + 1
  /\ UNCHANGED <<conn, pending, faults, sent, told, early, causes>>

TimerEnds ==
  /\ timers # <<>>
  /\ NothingQueued \/ Delivered \/ BrokeOff
  /\ timers' = Tail(timers)

Timer ==
  /\ TimerGivesUp \/ TimerAgain \/ TimerEnds
  /\ UNCHANGED <<window, typed, connects>>

\* A "connect" event: _flush_pending with no attempts left.  What it raises ends
\* _poll_events before it sets itself to run again.
ConnectEvent ==
  /\ polling /\ events > 0
  /\ events' = events - 1
  /\ \/ (NothingQueued \/ Delivered) /\ UNCHANGED polling
     \/ BrokeOff /\ polling' = FALSE
     \/ /\ pending # <<>> /\ conn = "none"
        /\ pending' = <<>>
        /\ told' = IF open THEN told \cup Elements(pending) ELSE told
        /\ early' = (early \/ tries < Attempts)
        /\ causes' = causes \cup Cause(~open, "chat not open") \cup {"late event"}
        /\ UNCHANGED <<conn, faults, sent, tries, polling>>
  /\ UNCHANGED <<timers, open, typed, connects>>

SwitchChat ==
  /\ open' = ~open
  /\ UNCHANGED <<conn, queue, events, polling, bounds, history>>

\* The window is closed, or the process ends, and is started again.
Restart ==
  /\ faults < MaxFaults /\ faults' = faults + 1
  /\ conn' = "none" /\ pending' = <<>> /\ timers' = <<>>
  /\ events' = 0 /\ polling' = TRUE /\ open' = TRUE
  /\ causes' = causes \cup Cause(pending # <<>>, "quit")
  /\ UNCHANGED <<typed, connects, sent, told, tries, early>>

----------------------------------------------------------------------------
\* _register_connection, and on_connect.
Register ==
  /\ connects < MaxConnects /\ connects' = connects + 1
  /\ conn' = "up" /\ events' = events + 1
  /\ UNCHANGED <<queue, polling, open, typed, faults, history>>

\* The relay of a dead connection is back: the same connection works again.
BackToLife ==
  /\ conn = "dead"
  /\ connects < MaxConnects /\ connects' = connects + 1
  /\ conn' = "up"
  /\ UNCHANGED <<queue, window, typed, faults, history>>

Dies ==
  /\ conn = "up"
  /\ faults < MaxFaults /\ faults' = faults + 1
  /\ conn' = "dead"
  /\ UNCHANGED <<queue, window, typed, connects, history>>

\* _read_loop of a direct connection ends.
Gone ==
  /\ conn = "dead"
  /\ conn' = "none"
  /\ UNCHANGED <<queue, window, bounds, history>>

Next ==
  \/ Send \/ SwitchChat \/ Restart
  \/ Timer \/ ConnectEvent
  \/ Register \/ BackToLife \/ Dies \/ Gone

\* The window's thread fires its timers.  Nobody need type, connect or poll.
Spec == Init /\ [][Next]_vars /\ WF_vars(Timer)

----------------------------------------------------------------------------
TypeOK ==
  /\ conn \in {"none", "up", "dead"}
  /\ pending \in Seq(1..typed)
  /\ timers \in Seq(0..Attempts)
  /\ events \in 0..MaxConnects /\ polling \in BOOLEAN /\ open \in BOOLEAN
  /\ typed \in 0..MaxMessages /\ connects \in 0..MaxConnects /\ faults \in 0..MaxFaults
  /\ sent \in Seq(1..typed) /\ told \subseteq 1..typed
  /\ tries \in Nat /\ early \in BOOLEAN /\ causes \subseteq Causes

\* No message is sent twice, unless sending broke off in the middle of a queue,
\* which then stays as it was (gui.py:1105-1107).
SentOnce ==
  \/ \A i, j \in 1..Len(sent) : sent[i] = sent[j] => i = j
  \/ Because({"broke off"})

\* Messages are sent in the order they were typed, unless one was typed between
\* the connection's registration and the flush (gui.py:996), or sending broke off.
SentInOrder ==
  \/ \A i, j \in 1..Len(sent) : i < j => sent[i] <= sent[j]
  \/ Because({"overtook", "broke off"})

\* What was typed has been sent, is queued, or the user was told that it was
\* not: except what a dead connection refused (gui.py:997), what was given up
\* while another chat was open (gui.py:1113), and what was queued at the end of
\* the process.
NothingLostQuietly ==
  \/ 1..typed = Elements(sent) \cup Elements(pending) \cup told
  \/ Because({"raised", "chat not open", "quit"})

\* A queue has a timer, unless sending broke off: then it stays without one, and
\* later messages join it (gui.py:1004).
QueueIsServed == pending # <<>> => timers # <<>> \/ Because({"broke off"})

\* A queue is not given up before all attempts, unless by an older timer, that
\* of a queue sent since, or by the event of a connection that is gone again
\* (gui.py:1469).
Patient == early => Because({"older timer", "late event"})

\* A message does not wait forever: it is sent, or given up.
QueueEmpties == pending # <<>> ~> (pending = <<>> \/ Because({"broke off"}))
============================================================================
