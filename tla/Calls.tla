------------------------------- MODULE Calls --------------------------------
(***************************************************************************)
(* Calls between two contacts of the desktop client: CallManager           *)
(* (haven/calls.py) and the part of the window that drives it (gui.py).    *)
(*                                                                         *)
(* Three kinds of thread use a peer's CallManager, without a lock.  The    *)
(* window's starts, accepts, rejects and ends calls; it takes events from  *)
(* a queue, all there are at each poll, and does not poll while it asks    *)
(* the user about an incoming call.  The relay client's handles signals.   *)
(* Capture threads read the microphone for one call's dictionary, and send *)
(* what they read in whichever call their contact then has.                *)
(*                                                                         *)
(* Signals travel through the pairwise session, in order.  A send raises   *)
(* ConnectionError when there is no session, and a signal that was sent    *)
(* may be lost.  Video, muting, captions and playing are left out.         *)
(***************************************************************************)
EXTENDS Naturals, Sequences

CONSTANTS
  Peers,
  Other,      \* Other[p]: whom p calls
  Starts,     \* bound: how many calls are started
  Faults      \* bound: how many sends fail, and signals are lost

ASSUME CallsAssumption ==
  /\ Other \in [Peers -> Peers]
  /\ \A p \in Peers : Other[p] # p /\ Other[Other[p]] = p
  /\ Starts \in Nat /\ Faults \in Nat

VARIABLES
  dicts,    \* dicts[p]: the dictionaries p made for calls, in order
  calls,    \* calls[p]: which of them CallManager.calls has, or None
  window,   \* window[p]: what p's window is doing
  shown,    \* shown[p]: the window of a call is open
  events,   \* events[p]: the event_queue
  relay,    \* relay[p]: what p's relay thread is doing
  starting, \* starting[p]: capture threads that have not yet looked for a call
  capture,  \* capture[p]: the dictionaries whose capture loops run
  net,      \* net[p]: signals on their way to p, in order
  ids,      \* how many call ids were drawn
  faults,   \* how many sends failed, and signals were lost
  joined,   \* joined[p]: the calls p offered or accepted (history)
  causes    \* what went wrong (history)

vars == <<dicts, calls, window, shown, events, relay, starting, capture, net,
          ids, faults, joined, causes>>
table == <<dicts, calls>>
gui == <<window, shown, events>>
media == <<starting, capture>>
history == <<joined, causes>>

----------------------------------------------------------------------------
Ids == 1..Starts
None == 0

\* A call's dictionary.  Its stop_event is absent until media start.
States == {"ringing_out", "ringing_in", "active"}
Call == [id: Ids, state: States, stop_event: {"absent", "clear", "set"}]
NewCall(id, state) == [id |-> id, state |-> state, stop_event |-> "absent"]

\* What is now in p's table.
Has(p) == calls[p] # None
Current(p) == dicts[p][calls[p]]

Signal == [type: {"call_offer", "call_answer", "call_reject", "call_end"}, id: Ids]
Sig(type, id) == [type |-> type, id |-> id]

Events == {"incoming_call", "active", "ended"}  \* "rejected" has the effect of "ended"

\* `call` is the dictionary that accept_call, or _on_answer, has looked up.
Doing == {"idle", "polling", "asking", "accepting", "answered", "dead"}
Idle == [at |-> "idle", call |-> None]

\* Why two peers may come to disagree, or a microphone to be on: see Causes below.
Causes == {"replaced", "own call", "other id", "late", "reject", "failed", "lost"}

Init ==
  /\ dicts = [p \in Peers |-> <<>>]
  /\ calls = [p \in Peers |-> None]
  /\ window = [p \in Peers |-> Idle]
  /\ shown = [p \in Peers |-> FALSE]
  /\ events = [p \in Peers |-> <<>>]
  /\ relay = [p \in Peers |-> Idle]
  /\ starting = [p \in Peers |-> 0]
  /\ capture = [p \in Peers |-> {}]
  /\ net = [p \in Peers |-> <<>>]
  /\ ids = 0 /\ faults = 0
  /\ joined = [p \in Peers |-> {}]
  /\ causes = {}

----------------------------------------------------------------------------
\* net.send_text to p's contact.
Send(p, signal) ==
  /\ net' = [net EXCEPT ![Other[p]] = Append(@, signal)]
  /\ UNCHANGED faults
Fail ==
  /\ faults < Faults
  /\ faults' = faults + 1
  /\ UNCHANGED net

Notify(p, event) == events' = [events EXCEPT ![p] = Append(@, event)]

\* A new dictionary replaces whatever the table had.
Put(p, call) ==
  /\ dicts' = [dicts EXCEPT ![p] = Append(@, call)]
  /\ calls' = [calls EXCEPT ![p] = Len(dicts[p]) + 1]

Replaced(p) == IF Has(p) THEN {"replaced"} ELSE {}

\* _start_media: for the call that the table has by now, not the one in hand.
\* A thread is started, and looks the call up once more.
StartMedia(p, inHand) ==
  LET state == [dicts EXCEPT ![p][inHand].state = "active"]
  IN /\ dicts' = IF Has(p) THEN [state EXCEPT ![p][calls[p]].stop_event = "clear"]
                           ELSE state
     /\ starting' = IF Has(p) THEN [starting EXCEPT ![p] = @ + 1] ELSE starting
     /\ causes' = causes \cup (IF Has(p) /\ calls[p] # inHand THEN {"late"} ELSE {})
     /\ UNCHANGED <<calls, capture>>

\* A version that forgets the media.
StoppedNever(call) == call

\* _stop_media
Stopped(call) ==
  IF call.stop_event = "absent" THEN call ELSE [call EXCEPT !.stop_event = "set"]

\* Media that a reject leaves running.
Rejected(p) == IF Has(p) /\ Current(p).stop_event = "clear" THEN {"reject"} ELSE {}

Pop(p) == calls' = [calls EXCEPT ![p] = None]

----------------------------------------------------------------------------
(* The window's thread *)

At(p, at) == window[p].at = at
Goes(p, at) == window' = [window EXCEPT ![p] = [at |-> at, call |-> None]]

\* Buttons answer when no callback runs, also once _poll_events is not scheduled
\* any more.
Free(p) == At(p, "idle") \/ At(p, "dead")

\* _start_call and start_call.  The exception of a send that fails ends the
\* callback, with the call in the table and no window.
StartCall(p) ==
  /\ Free(p) /\ ids < Starts
  /\ ids' = ids + 1
  /\ Put(p, NewCall(ids + 1, "ringing_out"))
  /\ joined' = [joined EXCEPT ![p] = @ \cup {ids + 1}]
  /\ \/ /\ Send(p, Sig("call_offer", ids + 1))
        /\ shown' = [shown EXCEPT ![p] = TRUE]
        /\ causes' = causes \cup Replaced(p)
     \/ /\ Fail
        /\ causes' = causes \cup Replaced(p) \cup {"failed"}
        /\ UNCHANGED shown
  /\ UNCHANGED <<window, events, relay, media>>

\* _poll_events, every 200 ms, takes what there is.
Poll(p) ==
  /\ At(p, "idle") /\ events[p] # <<>>
  /\ Goes(p, "polling")
  /\ UNCHANGED <<table, shown, events, relay, media, net, ids, faults, history>>

\* A version in which only start_call and the dialog open a call's window.
ShowingStarted(was, event) == IF event = "ended" THEN FALSE ELSE was

\* _handle_call_state: the window of a call opens when the call is active, and
\* closes when it ends.
Showing(was, event) == IF event = "incoming_call" THEN was ELSE event = "active"

\* An event is handled; an incoming call is asked about.
TakeEvent(p) ==
  LET event == Head(events[p])
  IN /\ At(p, "polling") /\ events[p] # <<>>
     /\ events' = [events EXCEPT ![p] = Tail(@)]
     /\ Goes(p, IF event = "incoming_call" THEN "asking" ELSE "polling")
     /\ shown' = [shown EXCEPT ![p] = Showing(@, event)]
     /\ UNCHANGED <<table, relay, media, net, ids, faults, history>>

Polled(p) ==
  /\ At(p, "polling") /\ events[p] = <<>>
  /\ Goes(p, "idle")
  /\ UNCHANGED <<table, shown, events, relay, media, net, ids, faults, history>>

\* The dialog outlived its call, and p has since called the contact.
OwnCall(p) == IF Current(p).state = "ringing_out" THEN {"own call"} ELSE {}

\* The dialog was accepted: accept_call as far as its send.  The exception of a
\* send that fails ends _poll_events, which is then not scheduled again.
Accept(p) ==
  /\ At(p, "asking")
  /\ \/ /\ ~Has(p)
        /\ Goes(p, "polling")
        /\ shown' = [shown EXCEPT ![p] = TRUE]
        /\ UNCHANGED <<net, faults, joined, causes>>
     \/ /\ Has(p)
        /\ Send(p, Sig("call_answer", Current(p).id))
        /\ window' = [window EXCEPT ![p] = [at |-> "accepting", call |-> calls[p]]]
        /\ joined' = [joined EXCEPT ![p] = @ \cup {Current(p).id}]
        /\ causes' = causes \cup OwnCall(p)
        /\ UNCHANGED shown
     \/ /\ Has(p)
        /\ Fail
        /\ Goes(p, "dead")
        /\ causes' = causes \cup {"failed"}
        /\ UNCHANGED <<shown, joined>>
  /\ UNCHANGED <<table, events, relay, media, ids>>

\* The rest of accept_call, and _open_call_window.  If the call has been taken
\* from the table, _start_media raises KeyError.
AcceptMedia(p) ==
  /\ At(p, "accepting")
  /\ StartMedia(p, window[p].call)
  /\ Goes(p, IF Has(p) THEN "polling" ELSE "dead")
  /\ shown' = [shown EXCEPT ![p] = @ \/ Has(p)]
  /\ IF Has(p) THEN Notify(p, "active") ELSE UNCHANGED events
  /\ UNCHANGED <<relay, net, ids, faults, joined>>

\* A version that tells the contact nothing.
SendLastNever(p, type, why) == causes' = causes \cup why /\ UNCHANGED <<net, faults>>

\* A signal that is sent as its call ends: a send that fails changes nothing else.
SendLast(p, type, why) ==
  \/ ~Has(p) /\ UNCHANGED <<net, faults, causes>>
  \/ Has(p) /\ Send(p, Sig(type, Current(p).id)) /\ causes' = causes \cup why
  \/ Has(p) /\ Fail /\ causes' = causes \cup why \cup {"failed"}

\* The dialog was rejected: reject_call.
Reject(p) ==
  /\ At(p, "asking")
  /\ Pop(p)
  /\ SendLast(p, "call_reject", Rejected(p))
  /\ Notify(p, "ended")
  /\ Goes(p, "polling")
  /\ UNCHANGED <<dicts, shown, relay, media, ids, joined>>

\* hangup, from the window of the call.  (Bound: where there is no call, the user
\* waits for the events of what was pressed before.)
Hangup(p) ==
  /\ Free(p) /\ shown[p]
  /\ Has(p) \/ events[p] = <<>>
  /\ dicts' = IF Has(p) THEN [dicts EXCEPT ![p][calls[p]] = Stopped(@)] ELSE dicts
  /\ Pop(p)
  /\ SendLast(p, "call_end", {})
  /\ Notify(p, "ended")
  /\ UNCHANGED <<window, shown, relay, media, ids, joined>>

----------------------------------------------------------------------------
(* The relay client's thread: handle_incoming *)

Received(p, type) ==
  /\ relay[p].at = "idle"
  /\ net[p] # <<>> /\ Head(net[p]).type = type
  /\ net' = [net EXCEPT ![p] = Tail(@)]

Id(p) == Head(net[p]).id

\* _on_offer
OnOffer(p) ==
  /\ Received(p, "call_offer")
  /\ Put(p, NewCall(Id(p), "ringing_in"))
  /\ Notify(p, "incoming_call")
  /\ causes' = causes \cup Replaced(p)
  /\ UNCHANGED <<window, shown, relay, media, ids, faults, joined>>

\* A version that takes any answer.
AnswersAny(p, id) == Has(p)

\* Whether _on_answer takes an answer with this id.
Answers(p, id) == Has(p) /\ Current(p).id = id

\* _on_answer, as far as its check of the id.
OnAnswer(p) ==
  /\ Received(p, "call_answer")
  /\ relay' = IF Answers(p, Id(p))
              THEN [relay EXCEPT ![p] = [at |-> "answered", call |-> calls[p]]]
              ELSE relay
  /\ UNCHANGED <<table, gui, media, ids, faults, history>>

\* The rest of _on_answer; handle_incoming catches a KeyError of _start_media.
AnswerMedia(p) ==
  /\ relay[p].at = "answered"
  /\ StartMedia(p, relay[p].call)
  /\ relay' = [relay EXCEPT ![p] = Idle]
  /\ IF Has(p) THEN Notify(p, "active") ELSE UNCHANGED events
  /\ UNCHANGED <<window, shown, net, ids, faults, joined>>

OtherId(p) == IF Has(p) /\ Current(p).id # Id(p) THEN {"other id"} ELSE {}

\* The contact rejected: no id is compared, and no media are stopped.
OnReject(p) ==
  /\ Received(p, "call_reject")
  /\ Pop(p)
  /\ Notify(p, "ended")
  /\ causes' = causes \cup OtherId(p) \cup Rejected(p)
  /\ UNCHANGED <<dicts, window, shown, relay, media, ids, faults, joined>>

\* The contact hung up: no id is compared.
OnEnd(p) ==
  /\ Received(p, "call_end")
  /\ dicts' = IF Has(p) THEN [dicts EXCEPT ![p][calls[p]] = Stopped(@)] ELSE dicts
  /\ Pop(p)
  /\ Notify(p, "ended")
  /\ causes' = causes \cup OtherId(p)
  /\ UNCHANGED <<window, shown, relay, media, ids, faults, joined>>

\* A signal that was sent does not arrive.
Lose(p) ==
  /\ net[p] # <<>> /\ faults < Faults
  /\ faults' = faults + 1
  /\ net' = [net EXCEPT ![p] = Tail(@)]
  /\ causes' = causes \cup {"lost"}
  /\ UNCHANGED <<table, gui, relay, media, ids, joined>>

----------------------------------------------------------------------------
(* Capture threads: _capture_audio_loop *)

\* A version that looks for a call only.
CapturableAny(p) == Has(p)

\* The loop runs for the call the table now has, if that has a stop_event.
Capturable(p) == Has(p) /\ Current(p).stop_event = "clear"
CaptureBegin(p) ==
  /\ starting[p] > 0
  /\ starting' = [starting EXCEPT ![p] = @ - 1]
  /\ capture' = IF Capturable(p)
                THEN [capture EXCEPT ![p] = @ \cup {calls[p]}] ELSE capture
  /\ UNCHANGED <<table, gui, relay, net, ids, faults, history>>

\* Where a loop that goes on is heard: send_audio_chunk, in the call that the table
\* now has.  (One that is to end may send one more chunk; it changes nothing here.)
Heard(p) ==
  IF Has(p) /\ \E c \in capture[p] : dicts[p][c].stop_event = "clear"
  THEN {Current(p).id} ELSE {}

\* The stop_event is set, or a send failed.
CaptureEnd(p) ==
  /\ \E c \in capture[p] :
       /\ \/ dicts[p][c].stop_event = "set" /\ UNCHANGED <<net, faults, causes>>
          \/ Has(p) /\ Fail /\ causes' = causes \cup {"failed"}
       /\ capture' = [capture EXCEPT ![p] = @ \ {c}]
  /\ UNCHANGED <<table, gui, relay, starting, ids, joined>>

----------------------------------------------------------------------------
Window(p) ==
  \/ StartCall(p) \/ Poll(p) \/ TakeEvent(p) \/ Polled(p)
  \/ Accept(p) \/ AcceptMedia(p) \/ Reject(p) \/ Hangup(p)

RelayThread(p) ==
  OnOffer(p) \/ OnAnswer(p) \/ AnswerMedia(p) \/ OnReject(p) \/ OnEnd(p)

Capture(p) == CaptureBegin(p) \/ CaptureEnd(p)

Next == \E p \in Peers : Window(p) \/ RelayThread(p) \/ Capture(p) \/ Lose(p)

Spec == Init /\ [][Next]_vars

----------------------------------------------------------------------------
TypeOK ==
  /\ dicts \in [Peers -> Seq(Call)]
  /\ calls \in [Peers -> Nat]
  /\ window \in [Peers -> [at: Doing \ {"answered"}, call: Nat]]
  /\ relay \in [Peers -> [at: {"idle", "answered"}, call: Nat]]
  /\ capture \in [Peers -> SUBSET Nat]
  /\ \A p \in Peers :
       /\ calls[p] \in 0..Len(dicts[p])
       /\ window[p].call \in 0..Len(dicts[p])
       /\ window[p].call # None <=> At(p, "accepting")
       /\ relay[p].call \in 0..Len(dicts[p])
       /\ relay[p].call # None <=> relay[p].at = "answered"
       /\ capture[p] \subseteq 1..Len(dicts[p])
       /\ \A c \in capture[p] : dicts[p][c].stop_event # "absent"
  /\ shown \in [Peers -> BOOLEAN]
  /\ events \in [Peers -> Seq(Events)]
  /\ starting \in [Peers -> Nat]
  /\ net \in [Peers -> Seq(Signal)]
  /\ ids \in 0..Starts
  /\ faults \in 0..Faults
  /\ joined \in [Peers -> SUBSET Ids]
  /\ causes \subseteq Causes

Because(why) == causes \cap why # {}

\* A call that a peer has as active is one that both offered or accepted, also
\* when the answer was overtaken by a hang-up and a new offer; unless somebody
\* accepted a call of its own, which begins it at the contact as well.
ActiveIsJoint ==
  \/ Because({"own call"})
  \/ \A p \in Peers : \A c \in 1..Len(dicts[p]) :
       dicts[p][c].state = "active" => dicts[p][c].id \in joined[p] \cap joined[Other[p]]

Quiet ==
  \A p \in Peers : net[p] = <<>> /\ relay[p].at = "idle" /\ ~At(p, "accepting")

Agree ==
  \A p \in Peers :
    LET q == Other[p]
    IN Has(p) => /\ Has(q) /\ Current(p).id = Current(q).id
                 /\ \/ Current(p).state = "active" /\ Current(q).state = "active"
                    \/ Current(p).state = "ringing_out" /\ Current(q).state = "ringing_in"
                    \/ Current(p).state = "ringing_in" /\ Current(q).state = "ringing_out"

\* Once every signal is handled, both peers are in one call, in the same state,
\* or in none: through a hang-up that crosses an answer, a reject, or the next
\* offer.  Only four things break that: a signal that was not sent, or lost, an
\* offer over a call there is, and a reject or end of another call.
AgreementBreaks ==
  Quiet => Agree \/ Because({"failed", "lost", "replaced", "other id"})

\* README.md:165-166: a contact "gets a ring dialog to accept or reject; once
\* accepted", the call begins.
HeardWhenJoined == \A p \in Peers : Heard(p) \subseteq joined[p]

\* A peer is heard only in calls it offered or accepted.  Four things break that:
\* a reject and an offer over a call there is, which leave its capture loop behind,
\* and an accept of the peer's own call, or too late for the call asked about.
HeardWhenJoinedBreaks ==
  Because({"replaced", "reject", "late", "own call"}) \/ HeardWhenJoined

\* A call that is active has a window to end it with, once the events are taken.
CanHangUp ==
  \A p \in Peers :
    At(p, "idle") /\ events[p] = <<>> /\ Has(p) /\ Current(p).state = "active"
    => shown[p]
============================================================================
