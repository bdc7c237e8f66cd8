---------------------------- MODULE CallsProofs -----------------------------
(***************************************************************************)
(* Proofs about Calls, for any pairs of peers and any number of calls and  *)
(* faults.                                                                 *)
(***************************************************************************)
EXTENDS Calls, TLAPS

----------------------------------------------------------------------------
(* What the operations do to the dictionaries, the threads and the signals *)

\* Every other peer's table is as it was.
Others(p) == \A r \in Peers \ {p} : dicts'[r] = dicts[r] /\ calls'[r] = calls[r]

LEMMA OtherPeer ==
  ASSUME NEW p \in Peers
  PROVE  Other[p] \in Peers /\ Other[p] # p /\ Other[Other[p]] = p
BY CallsAssumption

LEMMA CallFields ==
  ASSUME NEW call \in Call
  PROVE  /\ call.id \in Ids /\ call.state \in States
         /\ call.stop_event \in {"absent", "clear", "set"}
         /\ Stopped(call) \in Call /\ Stopped(call).id = call.id
         /\ Stopped(call).state = call.state /\ Stopped(call).stop_event # "clear"
         /\ call.stop_event # "absent" => Stopped(call).stop_event # "absent"
         /\ \A s \in States : [call EXCEPT !.state = s] \in Call
         /\ \A e \in {"absent", "clear", "set"} : [call EXCEPT !.stop_event = e] \in Call
BY DEF Call, Stopped

LEMMA NewCallFields ==
  ASSUME NEW x \in Ids, NEW s \in States
  PROVE  /\ NewCall(x, s) \in Call /\ NewCall(x, s).id = x /\ NewCall(x, s).state = s
         /\ NewCall(x, s).stop_event = "absent"
BY DEF NewCall, Call

LEMMA SigFields ==
  ASSUME NEW x \in Ids, NEW type \in {"call_offer", "call_answer", "call_reject", "call_end"}
  PROVE  Sig(type, x) \in Signal /\ Sig(type, x).type = type /\ Sig(type, x).id = x
BY DEF Sig, Signal

LEMMA Queues ==
  ASSUME NEW S, NEW s \in Seq(S)
  PROVE  /\ Len(s) \in Nat /\ \A i \in 1..Len(s) : s[i] \in S
         /\ \A x \in S : /\ Append(s, x) \in Seq(S) /\ Len(Append(s, x)) = Len(s) + 1
                         /\ Append(s, x)[Len(s) + 1] = x
                         /\ \A i \in 1..Len(s) : Append(s, x)[i] = s[i]
         /\ s # <<>> => /\ Tail(s) \in Seq(S) /\ Len(s) > 0 /\ Len(Tail(s)) = Len(s) - 1
                        /\ Head(s) = s[1]
                        /\ \A i \in 1..Len(s) - 1 : Tail(s)[i] = s[i + 1]
OBVIOUS

LEMMA Tables ==
  ASSUME TypeOK, NEW p \in Peers
  PROVE  /\ dicts[p] \in Seq(Call) /\ Len(dicts[p]) \in Nat /\ calls[p] \in 0..Len(dicts[p])
         /\ \A c \in 1..Len(dicts[p]) : dicts[p][c] \in Call
         /\ Has(p) => Current(p) \in Call /\ calls[p] \in 1..Len(dicts[p])
                      /\ Current(p).id \in Ids
<1>1. /\ dicts[p] \in Seq(Call) /\ calls[p] \in 0..Len(dicts[p])
  BY DEF TypeOK
<1>2. Len(dicts[p]) \in Nat /\ \A c \in 1..Len(dicts[p]) : dicts[p][c] \in Call
  BY <1>1
<1>3. Has(p) => calls[p] \in 1..Len(dicts[p])
  BY <1>1, <1>2 DEF Has, None
<1>4. QED
  BY <1>1, <1>2, <1>3, CallFields DEF Current

LEMMA PutTable ==
  ASSUME TypeOK, NEW p \in Peers, NEW call \in Call, Put(p, call)
  PROVE  /\ dicts' \in [Peers -> Seq(Call)] /\ calls' \in [Peers -> Nat]
         /\ Len(dicts'[p]) = Len(dicts[p]) + 1
         /\ \A c \in 1..Len(dicts[p]) : dicts'[p][c] = dicts[p][c]
         /\ dicts'[p][Len(dicts[p]) + 1] = call
         /\ calls'[p] = Len(dicts[p]) + 1
         /\ Others(p)
<1> DEFINE all == Append(dicts[p], call)
<1>1. /\ all \in Seq(Call) /\ Len(dicts[p]) \in Nat /\ Len(all) = Len(dicts[p]) + 1
      /\ all[Len(dicts[p]) + 1] = call
      /\ \A c \in 1..Len(dicts[p]) : all[c] = dicts[p][c]
  BY Tables, Queues
<1>2. /\ dicts' = [dicts EXCEPT ![p] = all]
      /\ calls' = [calls EXCEPT ![p] = Len(dicts[p]) + 1]
      /\ dicts \in [Peers -> Seq(Call)] /\ calls \in [Peers -> Nat]
  BY DEF Put, TypeOK
<1> HIDE DEF all
<1>3. /\ dicts' \in [Peers -> Seq(Call)] /\ dicts'[p] = all
      /\ \A r \in Peers \ {p} : dicts'[r] = dicts[r]
  BY <1>1, <1>2
<1>4. /\ calls' \in [Peers -> Nat] /\ calls'[p] = Len(dicts[p]) + 1
      /\ \A r \in Peers \ {p} : calls'[r] = calls[r]
  BY <1>1, <1>2
<1>5. QED
  BY <1>1, <1>3, <1>4 DEF Others

LEMMA PopTable ==
  ASSUME TypeOK, NEW p \in Peers, Pop(p)
  PROVE  /\ calls' \in [Peers -> Nat] /\ calls'[p] = None
         /\ \A r \in Peers \ {p} : calls'[r] = calls[r]
BY DEF Pop, None, TypeOK

\* Hanging up, here or there: the media stop and the call leaves the table.
Stop(p) ==
  /\ dicts' = IF Has(p) THEN [dicts EXCEPT ![p][calls[p]] = Stopped(@)] ELSE dicts
  /\ Pop(p)

LEMMA StopTable ==
  ASSUME TypeOK, NEW p \in Peers, Stop(p)
  PROVE  /\ dicts' \in [Peers -> Seq(Call)]
         /\ calls' \in [Peers -> Nat] /\ calls'[p] = None
         /\ Len(dicts'[p]) = Len(dicts[p])
         /\ \A c \in 1..Len(dicts[p]) :
              /\ dicts'[p][c].id = dicts[p][c].id
              /\ dicts'[p][c].state = dicts[p][c].state
              /\ dicts[p][c].stop_event # "absent" => dicts'[p][c].stop_event # "absent"
              /\ c # calls[p] => dicts'[p][c] = dicts[p][c]
              /\ c = calls[p] => dicts'[p][c].stop_event # "clear"
         /\ Others(p)
<1>1. calls' \in [Peers -> Nat] /\ calls'[p] = None
      /\ \A r \in Peers \ {p} : calls'[r] = calls[r]
  BY PopTable DEF Stop
<1>2. CASE ~Has(p)
  <2>1. dicts' = dicts /\ calls[p] = 0
    BY <1>2 DEF Stop, Has, None
  <2>2. dicts \in [Peers -> Seq(Call)] /\ \A c \in 1..Len(dicts[p]) : c # calls[p]
    BY <2>1 DEF TypeOK
  <2>3. QED
    BY <1>1, <2>1, <2>2 DEF Others
<1>3. CASE Has(p)
  <2>1. /\ dicts[p] \in Seq(Call) /\ calls[p] \in 1..Len(dicts[p])
        /\ dicts[p][calls[p]] \in Call /\ Len(dicts[p]) \in Nat
        /\ \A c \in 1..Len(dicts[p]) : dicts[p][c] \in Call
    BY <1>3, Tables
  <2> DEFINE now == Stopped(dicts[p][calls[p]])
             all == [dicts[p] EXCEPT ![calls[p]] = now]
  <2>2. /\ now \in Call /\ now.id = dicts[p][calls[p]].id /\ now.stop_event # "clear"
        /\ now.state = dicts[p][calls[p]].state
        /\ dicts[p][calls[p]].stop_event # "absent" => now.stop_event # "absent"
    BY <2>1, CallFields
  <2>3. dicts' = [dicts EXCEPT ![p] = all]
    BY <1>3 DEF Stop
  <2> HIDE DEF now
  <2>4. /\ all \in Seq(Call) /\ Len(all) = Len(dicts[p]) /\ all[calls[p]] = now
        /\ \A c \in 1..Len(dicts[p]) : c # calls[p] => all[c] = dicts[p][c]
    BY <2>1, <2>2
  <2> HIDE DEF all
  <2>5. /\ dicts' \in [Peers -> Seq(Call)] /\ dicts'[p] = all
        /\ \A r \in Peers \ {p} : dicts'[r] = dicts[r]
    BY <2>3, <2>4 DEF TypeOK
  <2>6. QED
    BY <1>1, <2>1, <2>2, <2>4, <2>5 DEF Others
<1>4. QED
  BY <1>2, <1>3

LEMMA MediaTable ==
  ASSUME TypeOK, NEW p \in Peers, NEW inHand \in 1..Len(dicts[p]), StartMedia(p, inHand)
  PROVE  /\ dicts' \in [Peers -> Seq(Call)] /\ calls' = calls
         /\ Len(dicts'[p]) = Len(dicts[p])
         /\ \A c \in 1..Len(dicts[p]) :
              /\ dicts'[p][c].id = dicts[p][c].id
              /\ dicts'[p][c].state = IF c = inHand THEN "active" ELSE dicts[p][c].state
              /\ dicts'[p][c].stop_event =
                   IF Has(p) /\ c = calls[p] THEN "clear" ELSE dicts[p][c].stop_event
         /\ Others(p)
<1>1. /\ dicts[p] \in Seq(Call) /\ dicts[p][inHand] \in Call /\ Len(dicts[p]) \in Nat
      /\ \A c \in 1..Len(dicts[p]) : dicts[p][c] \in Call
  BY Tables
<1> DEFINE begun == [dicts[p][inHand] EXCEPT !.state = "active"]
           mid == [dicts[p] EXCEPT ![inHand] = begun]
           state == [dicts EXCEPT ![p][inHand].state = "active"]
<1>2. begun \in Call /\ begun.id = dicts[p][inHand].id /\ begun.state = "active"
      /\ begun.stop_event = dicts[p][inHand].stop_event
  BY <1>1 DEF Call, States
<1>3. state = [dicts EXCEPT ![p] = mid]
  OBVIOUS
<1> HIDE DEF begun
<1>4. /\ mid \in Seq(Call) /\ Len(mid) = Len(dicts[p]) /\ mid[inHand] = begun
      /\ \A c \in 1..Len(dicts[p]) : c # inHand => mid[c] = dicts[p][c]
      /\ \A c \in 1..Len(dicts[p]) : mid[c] \in Call
  BY <1>1, <1>2
<1> HIDE DEF mid
<1>5. /\ state \in [Peers -> Seq(Call)] /\ state[p] = mid
      /\ \A r \in Peers \ {p} : state[r] = dicts[r]
  BY <1>3, <1>4 DEF TypeOK
<1>6. CASE ~Has(p)
  <2>1. dicts' = state /\ calls' = calls
    BY <1>6 DEF StartMedia
  <2>2. QED
    BY <1>1, <1>2, <1>4, <1>5, <1>6, <2>1 DEF Others
<1>7. CASE Has(p)
  <2>1. calls[p] \in 1..Len(dicts[p]) /\ mid[calls[p]] \in Call
    BY <1>4, <1>7, Tables
  <2>2. dicts' = [state EXCEPT ![p][calls[p]].stop_event = "clear"] /\ calls' = calls
    BY <1>7 DEF StartMedia
  <2> HIDE DEF state
  <2> DEFINE heard == [mid[calls[p]] EXCEPT !.stop_event = "clear"]
             all == [mid EXCEPT ![calls[p]] = heard]
  <2>3. dicts' = [state EXCEPT ![p] = all]
    BY <1>5, <2>2
  <2>4. heard \in Call /\ heard.id = mid[calls[p]].id /\ heard.stop_event = "clear"
        /\ heard.state = mid[calls[p]].state
    BY <2>1 DEF Call
  <2> HIDE DEF heard
  <2>5. /\ all \in Seq(Call) /\ Len(all) = Len(dicts[p]) /\ all[calls[p]] = heard
        /\ \A c \in 1..Len(dicts[p]) : c # calls[p] => all[c] = mid[c]
    BY <1>4, <2>1, <2>4
  <2> HIDE DEF all
  <2>6. /\ dicts' \in [Peers -> Seq(Call)] /\ dicts'[p] = all
        /\ \A r \in Peers \ {p} : dicts'[r] = dicts[r]
    BY <1>5, <2>3, <2>5
  <2>7. ASSUME NEW c \in 1..Len(dicts[p])
        PROVE  /\ dicts'[p][c].id = dicts[p][c].id
               /\ dicts'[p][c].state = IF c = inHand THEN "active" ELSE dicts[p][c].state
               /\ dicts'[p][c].stop_event =
                    IF Has(p) /\ c = calls[p] THEN "clear" ELSE dicts[p][c].stop_event
    <3>1. /\ mid[c].id = dicts[p][c].id /\ mid[c].stop_event = dicts[p][c].stop_event
          /\ mid[c].state = IF c = inHand THEN "active" ELSE dicts[p][c].state
      BY <1>2, <1>4
    <3>2. QED
      BY <1>7, <2>4, <2>5, <2>6, <3>1
  <2>8. QED
    BY <2>2, <2>5, <2>6, <2>7 DEF Others
<1>8. QED
  BY <1>6, <1>7

\* The threads of p's, and the rest of p's.
LEMMA GoesTo ==
  ASSUME TypeOK, NEW p \in Peers, NEW at \in Doing \ {"answered"}, Goes(p, at)
  PROVE  /\ window' \in [Peers -> [at: Doing \ {"answered"}, call: Nat]]
         /\ window'[p].at = at /\ window'[p].call = None
         /\ \A r \in Peers \ {p} : window'[r] = window[r]
BY DEF Goes, TypeOK, None

LEMMA SendTypes ==
  ASSUME TypeOK, NEW p \in Peers, NEW s \in Signal, Send(p, s)
  PROVE  net' \in [Peers -> Seq(Signal)] /\ faults' \in 0..Faults
<1>1. Other[p] \in Peers /\ net[Other[p]] \in Seq(Signal)
  BY OtherPeer DEF TypeOK
<1>2. Append(net[Other[p]], s) \in Seq(Signal)
  BY <1>1
<1>3. QED
  BY <1>2 DEF Send, TypeOK

LEMMA FailTypes ==
  ASSUME TypeOK, Fail
  PROVE  net' \in [Peers -> Seq(Signal)] /\ faults' \in 0..Faults
BY CallsAssumption DEF Fail, TypeOK

LEMMA SendLastTypes ==
  ASSUME TypeOK, NEW p \in Peers, NEW type \in {"call_reject", "call_end"},
         NEW why \in SUBSET Causes, SendLast(p, type, why)
  PROVE  /\ net' \in [Peers -> Seq(Signal)] /\ faults' \in 0..Faults /\ causes' \subseteq Causes
         /\ causes \subseteq causes' /\ Has(p) => why \subseteq causes'
<1>1. "failed" \in Causes /\ causes \subseteq Causes
  BY DEF Causes, TypeOK
<1>2. CASE ~Has(p)
  BY <1>1, <1>2 DEF SendLast, TypeOK
<1>3. CASE Has(p)
  <2>1. Sig(type, Current(p).id) \in Signal
    BY <1>3, Tables, SigFields
  <2>2. QED
    BY <1>1, <1>3, <2>1, SendTypes, FailTypes DEF SendLast
<1>4. QED
  BY <1>2, <1>3

LEMMA NotifyTypes ==
  ASSUME TypeOK, NEW p \in Peers, NEW event \in Events, Notify(p, event)
  PROVE  events' \in [Peers -> Seq(Events)]
BY DEF Notify, TypeOK

LEMMA ReceivedTypes ==
  ASSUME TypeOK, NEW p \in Peers, NEW type, Received(p, type)
  PROVE  net' \in [Peers -> Seq(Signal)] /\ Id(p) \in Ids
<1>1. net[p] \in Seq(Signal) /\ net[p] # <<>>
  BY DEF Received, TypeOK
<1>2. Head(net[p]) \in Signal /\ Tail(net[p]) \in Seq(Signal)
  BY <1>1
<1>3. QED
  BY <1>2 DEF Received, Id, Signal, TypeOK

LEMMA CauseTypes ==
  ASSUME NEW p \in Peers
  PROVE  /\ Replaced(p) \subseteq Causes /\ Rejected(p) \subseteq Causes
         /\ OwnCall(p) \subseteq Causes /\ OtherId(p) \subseteq Causes
BY DEF Replaced, Rejected, OwnCall, OtherId, Causes

\* A step that keeps every dictionary where it is keeps what points to them.
Grows == \A r \in Peers :
  /\ Len(dicts[r]) <= Len(dicts'[r])
  /\ \A c \in 1..Len(dicts[r]) :
       dicts[r][c].stop_event # "absent" => dicts'[r][c].stop_event # "absent"

TableTypes ==
  /\ dicts \in [Peers -> Seq(Call)] /\ calls \in [Peers -> Nat]
  /\ \A p \in Peers : calls[p] \in 0..Len(dicts[p])

ThreadTypes ==
  /\ window \in [Peers -> [at: Doing \ {"answered"}, call: Nat]]
  /\ relay \in [Peers -> [at: {"idle", "answered"}, call: Nat]]
  /\ \A p \in Peers :
       /\ window[p].call \in 0..Len(dicts[p])
       /\ window[p].call # None <=> At(p, "accepting")
       /\ relay[p].call \in 0..Len(dicts[p])
       /\ relay[p].call # None <=> relay[p].at = "answered"

MediaTypes ==
  /\ starting \in [Peers -> Nat] /\ capture \in [Peers -> SUBSET Nat]
  /\ \A p \in Peers :
       /\ capture[p] \subseteq 1..Len(dicts[p])
       /\ \A c \in capture[p] : dicts[p][c].stop_event # "absent"

OtherTypes ==
  /\ shown \in [Peers -> BOOLEAN] /\ events \in [Peers -> Seq(Events)]
  /\ net \in [Peers -> Seq(Signal)]
  /\ ids \in 0..Starts /\ faults \in 0..Faults
  /\ joined \in [Peers -> SUBSET Ids] /\ causes \subseteq Causes

LEMMA TypeParts ==
  /\ TypeOK <=> TableTypes /\ ThreadTypes /\ MediaTypes /\ OtherTypes
  /\ TypeOK' <=> TableTypes' /\ ThreadTypes' /\ MediaTypes' /\ OtherTypes'
BY DEF TypeOK, TableTypes, ThreadTypes, MediaTypes, OtherTypes

LEMMA Pointers ==
  ASSUME TypeOK, dicts' \in [Peers -> Seq(Call)], Grows
  PROVE  /\ (UNCHANGED window /\ UNCHANGED relay) => ThreadTypes'
         /\ UNCHANGED media => MediaTypes'
<1>1. \A r \in Peers : /\ Len(dicts[r]) \in Nat /\ Len(dicts'[r]) \in Nat
                      /\ Len(dicts[r]) <= Len(dicts'[r])
  BY Tables DEF Grows
<1>2. \A r \in Peers : 0..Len(dicts[r]) \subseteq 0..Len(dicts'[r])
                       /\ 1..Len(dicts[r]) \subseteq 1..Len(dicts'[r])
  BY <1>1
<1>3. ASSUME UNCHANGED window, UNCHANGED relay PROVE ThreadTypes'
  BY <1>2, <1>3 DEF TypeOK, ThreadTypes, At
<1>4. ASSUME UNCHANGED media PROVE MediaTypes'
  BY <1>2, <1>4 DEF TypeOK, MediaTypes, media, Grows
<1>5. QED
  BY <1>3, <1>4

LEMMA Grown ==
  ASSUME TypeOK, NEW p \in Peers, dicts' \in [Peers -> Seq(Call)], calls' \in [Peers -> Nat],
         calls'[p] \in 0..Len(dicts'[p]), Len(dicts[p]) <= Len(dicts'[p]), Others(p),
         \A c \in 1..Len(dicts[p]) :
           dicts[p][c].stop_event # "absent" => dicts'[p][c].stop_event # "absent"
  PROVE  TableTypes' /\ Grows
<1>1. ASSUME NEW r \in Peers
      PROVE  /\ calls'[r] \in 0..Len(dicts'[r]) /\ Len(dicts[r]) <= Len(dicts'[r])
             /\ \A c \in 1..Len(dicts[r]) :
                  dicts[r][c].stop_event # "absent" => dicts'[r][c].stop_event # "absent"
  <2>1. CASE r = p
    BY <2>1
  <2>2. CASE r # p
    <3>1. dicts'[r] = dicts[r] /\ calls'[r] = calls[r]
      BY <2>2 DEF Others
    <3>2. calls[r] \in 0..Len(dicts[r]) /\ Len(dicts[r]) \in Nat
      BY Tables
    <3>3. QED
      BY <3>1, <3>2
  <2>3. QED
    BY <2>1, <2>2
<1>2. QED
  BY <1>1 DEF TableTypes, Grows

LEMMA Went ==
  ASSUME TypeOK, NEW p \in Peers, NEW at \in Doing \ {"answered", "accepting"}, Goes(p, at),
         UNCHANGED relay, \A r \in Peers : Len(dicts'[r]) = Len(dicts[r])
  PROVE  ThreadTypes'
<1>1. /\ window' \in [Peers -> [at: Doing \ {"answered"}, call: Nat]]
      /\ window'[p].at = at /\ window'[p].call = None
      /\ \A r \in Peers \ {p} : window'[r] = window[r]
  BY GoesTo
<1>2. ASSUME NEW r \in Peers
      PROVE  /\ window'[r].call \in 0..Len(dicts'[r])
             /\ window'[r].call # None <=> window'[r].at = "accepting"
  <2>1. Len(dicts'[r]) = Len(dicts[r]) /\ Len(dicts[r]) \in Nat
    BY Tables
  <2>2. /\ window[r].call \in 0..Len(dicts[r])
        /\ window[r].call # None <=> window[r].at = "accepting"
    BY DEF TypeOK, At
  <2>3. QED
    BY <1>1, <2>1, <2>2 DEF None
<1>3. QED
  BY <1>1, <1>2 DEF ThreadTypes, TypeOK, At

LEMMA InitType == Init => TypeOK
<1> SUFFICES ASSUME Init PROVE TypeOK
  OBVIOUS
<1>1. /\ dicts \in [Peers -> Seq(Call)] /\ events \in [Peers -> Seq(Events)]
      /\ net \in [Peers -> Seq(Signal)]
  BY DEF Init
<1>2. /\ window \in [Peers -> [at: Doing \ {"answered"}, call: Nat]]
      /\ relay \in [Peers -> [at: {"idle", "answered"}, call: Nat]]
  BY DEF Init, Idle, None, Doing
<1>3. calls \in [Peers -> Nat] /\ capture \in [Peers -> SUBSET Nat] /\ starting \in [Peers -> Nat]
  BY DEF Init, None
<1>4. ASSUME NEW p \in Peers
      PROVE  /\ calls[p] \in 0..Len(dicts[p])
             /\ window[p].call \in 0..Len(dicts[p])
             /\ window[p].call # None <=> At(p, "accepting")
             /\ relay[p].call \in 0..Len(dicts[p])
             /\ relay[p].call # None <=> relay[p].at = "answered"
             /\ capture[p] = {}
  BY DEF Init, Idle, None, At
<1>5. ids \in 0..Starts /\ faults \in 0..Faults
  BY CallsAssumption DEF Init
<1>6. QED
  BY <1>1, <1>2, <1>3, <1>4, <1>5 DEF Init, TypeOK

LEMMA TypeStartCall == ASSUME TypeOK, NEW p \in Peers, StartCall(p) PROVE TypeOK'
<1> DEFINE call == NewCall(ids + 1, "ringing_out")
<1>1. ids + 1 \in Ids /\ ids' \in 0..Starts /\ ids' = ids + 1
  BY CallsAssumption DEF StartCall, TypeOK, Ids
<1>2. call \in Call
  BY <1>1, NewCallFields DEF States
<1>3. Put(p, call)
  BY DEF StartCall
<1> HIDE DEF call
<1>4. /\ dicts' \in [Peers -> Seq(Call)] /\ calls' \in [Peers -> Nat]
      /\ Len(dicts'[p]) = Len(dicts[p]) + 1 /\ calls'[p] = Len(dicts[p]) + 1
      /\ \A c \in 1..Len(dicts[p]) : dicts'[p][c] = dicts[p][c]
      /\ Others(p)
  BY <1>2, <1>3, PutTable
<1>5. TableTypes' /\ Grows
  <2>1. calls'[p] \in 0..Len(dicts'[p]) /\ Len(dicts[p]) <= Len(dicts'[p])
    BY <1>4, Tables
  <2>2. QED
    BY <1>4, <2>1, Grown
<1>6. ThreadTypes' /\ MediaTypes'
  BY <1>4, <1>5, Pointers DEF StartCall
<1>7. net' \in [Peers -> Seq(Signal)] /\ faults' \in 0..Faults
  <2>1. Sig("call_offer", ids + 1) \in Signal
    BY <1>1, SigFields
  <2>2. Send(p, Sig("call_offer", ids + 1)) \/ Fail
    BY DEF StartCall
  <2>3. QED
    BY <2>1, <2>2, SendTypes, FailTypes
<1>8. shown' \in [Peers -> BOOLEAN] /\ joined' \in [Peers -> SUBSET Ids] /\ causes' \subseteq Causes
  BY <1>1, CauseTypes DEF StartCall, TypeOK, Causes
<1>9. QED
  BY <1>1, <1>5, <1>6, <1>7, <1>8, TypeParts DEF OtherTypes, StartCall

LEMMA TypeOnOffer == ASSUME TypeOK, NEW p \in Peers, OnOffer(p) PROVE TypeOK'
<1> DEFINE call == NewCall(Id(p), "ringing_in")
<1>1. net' \in [Peers -> Seq(Signal)] /\ Id(p) \in Ids
  BY ReceivedTypes DEF OnOffer
<1>2. call \in Call
  BY <1>1, NewCallFields DEF States
<1>3. Put(p, call)
  BY DEF OnOffer
<1> HIDE DEF call
<1>4. /\ dicts' \in [Peers -> Seq(Call)] /\ calls' \in [Peers -> Nat]
      /\ Len(dicts'[p]) = Len(dicts[p]) + 1 /\ calls'[p] = Len(dicts[p]) + 1
      /\ \A c \in 1..Len(dicts[p]) : dicts'[p][c] = dicts[p][c]
      /\ Others(p)
  BY <1>2, <1>3, PutTable
<1>5. TableTypes' /\ Grows
  <2>1. calls'[p] \in 0..Len(dicts'[p]) /\ Len(dicts[p]) <= Len(dicts'[p])
    BY <1>4, Tables
  <2>2. QED
    BY <1>4, <2>1, Grown
<1>6. ThreadTypes' /\ MediaTypes'
  BY <1>4, <1>5, Pointers DEF OnOffer
<1>7. events' \in [Peers -> Seq(Events)] /\ causes' \subseteq Causes
  <2>1. "incoming_call" \in Events /\ Notify(p, "incoming_call")
    BY DEF Events, OnOffer
  <2>2. QED
    BY <2>1, NotifyTypes, CauseTypes DEF OnOffer, TypeOK
<1>8. QED
  BY <1>1, <1>5, <1>6, <1>7, TypeParts DEF OtherTypes, OnOffer

LEMMA TypeAccept == ASSUME TypeOK, NEW p \in Peers, Accept(p) PROVE TypeOK'
<1>1. UNCHANGED table /\ UNCHANGED media /\ UNCHANGED <<events, relay, ids>>
  BY DEF Accept
<1>2. TableTypes' /\ MediaTypes'
  BY <1>1, TypeParts DEF TableTypes, MediaTypes, table, media
<1>3. /\ relay \in [Peers -> [at: {"idle", "answered"}, call: Nat]]
      /\ \A r \in Peers :
           /\ calls[r] \in 0..Len(dicts[r])
           /\ window[r].call \in 0..Len(dicts[r]) /\ Len(dicts[r]) \in Nat
           /\ window[r].call # None <=> window[r].at = "accepting"
           /\ relay[r].call \in 0..Len(dicts[r])
           /\ relay[r].call # None <=> relay[r].at = "answered"
  BY Tables DEF TypeOK, At
<1>4. CASE Goes(p, "polling") \/ Goes(p, "dead")
  <2>1. {"polling", "dead"} \subseteq Doing \ {"answered", "accepting"}
    BY DEF Doing
  <2>2. ThreadTypes'
    BY <1>1, <1>4, <2>1, Went DEF table
  <2>3. net' \in [Peers -> Seq(Signal)] /\ faults' \in 0..Faults
    <3>1. (UNCHANGED <<net, faults>>) \/ Fail \/ Has(p)
      BY DEF Accept
    <3>2. CASE (UNCHANGED <<net, faults>>) \/ Fail
      BY <3>2, FailTypes DEF TypeOK
    <3>3. CASE Has(p) /\ Send(p, Sig("call_answer", Current(p).id))
      BY <3>3, Tables, SigFields, SendTypes
    <3>4. QED
      BY <3>2, <3>3 DEF Accept
  <2>4. joined' \in [Peers -> SUBSET Ids]
    <3>1. joined' = joined \/ (Has(p) /\ joined' = [joined EXCEPT ![p] = @ \cup {Current(p).id}])
      BY DEF Accept
    <3>2. Has(p) => Current(p).id \in Ids
      BY Tables
    <3>3. joined \in [Peers -> SUBSET Ids]
      BY DEF TypeOK
    <3>4. CASE joined' = joined
      BY <3>3, <3>4
    <3>5. CASE Has(p) /\ joined' = [joined EXCEPT ![p] = @ \cup {Current(p).id}]
      BY <3>2, <3>3, <3>5
    <3>6. QED
      BY <3>1, <3>4, <3>5
  <2>5. shown' \in [Peers -> BOOLEAN] /\ causes' \subseteq Causes
    BY CauseTypes DEF Accept, TypeOK, Causes
  <2>6. QED
    BY <1>1, <1>2, <2>2, <2>3, <2>4, <2>5, TypeParts DEF OtherTypes
<1>5. CASE /\ Has(p)
           /\ Send(p, Sig("call_answer", Current(p).id))
           /\ window' = [window EXCEPT ![p] = [at |-> "accepting", call |-> calls[p]]]
           /\ joined' = [joined EXCEPT ![p] = @ \cup {Current(p).id}]
           /\ causes' = causes \cup OwnCall(p)
           /\ UNCHANGED shown
  <2>1. calls[p] \in 1..Len(dicts[p]) /\ Current(p).id \in Ids /\ Len(dicts[p]) \in Nat
    BY <1>5, Tables
  <2>2. /\ window' \in [Peers -> [at: Doing \ {"answered"}, call: Nat]]
        /\ window'[p].at = "accepting" /\ window'[p].call = calls[p]
        /\ \A r \in Peers \ {p} : window'[r] = window[r]
    BY <1>5, <2>1 DEF TypeOK, Doing
  <2>3. ThreadTypes'
    BY <1>1, <1>3, <2>1, <2>2 DEF ThreadTypes, table, At, None
  <2>4. net' \in [Peers -> Seq(Signal)] /\ faults' \in 0..Faults
    BY <1>5, <2>1, SigFields, SendTypes
  <2>5. joined' \in [Peers -> SUBSET Ids] /\ causes' \subseteq Causes
    BY <1>5, <2>1, CauseTypes DEF TypeOK
  <2>6. QED
    BY <1>1, <1>2, <1>5, <2>3, <2>4, <2>5, TypeParts DEF OtherTypes
<1>6. QED
  BY <1>4, <1>5 DEF Accept

LEMMA StartMediaTypes ==
  ASSUME TypeOK, NEW p \in Peers, NEW inHand \in 1..Len(dicts[p]), StartMedia(p, inHand)
  PROVE  /\ TableTypes' /\ Grows /\ MediaTypes' /\ causes' \subseteq Causes
         /\ \A r \in Peers : Len(dicts'[r]) = Len(dicts[r])
<1>1. /\ dicts' \in [Peers -> Seq(Call)] /\ calls' = calls
      /\ Len(dicts'[p]) = Len(dicts[p])
      /\ \A c \in 1..Len(dicts[p]) :
           dicts'[p][c].stop_event =
             IF Has(p) /\ c = calls[p] THEN "clear" ELSE dicts[p][c].stop_event
      /\ Others(p)
  BY MediaTable
<1>2. TableTypes' /\ Grows /\ \A r \in Peers : Len(dicts'[r]) = Len(dicts[r])
  <2>1. calls[p] \in 0..Len(dicts'[p]) /\ Len(dicts[p]) \in Nat /\ calls' \in [Peers -> Nat]
    BY <1>1, Tables DEF TypeOK
  <2>2. TableTypes' /\ Grows
    BY <1>1, <2>1, Grown
  <2>3. QED
    BY <1>1, <2>2 DEF Others
<1>3. MediaTypes'
  <2>1. capture' = capture /\ starting' \in [Peers -> Nat]
    <3>1. starting' = starting \/ starting' = [starting EXCEPT ![p] = @ + 1]
      BY DEF StartMedia
    <3>2. starting \in [Peers -> Nat]
      BY DEF TypeOK
    <3>3. QED
      BY <3>1, <3>2 DEF StartMedia
  <2>2. QED
    BY <1>2, <2>1, TypeParts DEF MediaTypes, Grows
<1>4. causes' \subseteq Causes
  BY DEF StartMedia, TypeOK, Causes
<1>5. QED
  BY <1>2, <1>3, <1>4

LEMMA TypeAcceptMedia == ASSUME TypeOK, NEW p \in Peers, AcceptMedia(p) PROVE TypeOK'
<1> DEFINE at == IF Has(p) THEN "polling" ELSE "dead"
<1>1. window[p].call \in 1..Len(dicts[p])
  BY Tables DEF AcceptMedia, TypeOK, None, At
<1>2. /\ TableTypes' /\ MediaTypes' /\ causes' \subseteq Causes
      /\ \A r \in Peers : Len(dicts'[r]) = Len(dicts[r])
  BY <1>1, StartMediaTypes DEF AcceptMedia
<1>3. at \in Doing \ {"answered", "accepting"} /\ Goes(p, at) /\ UNCHANGED relay
  BY DEF Doing, AcceptMedia
<1> HIDE DEF at
<1>4. ThreadTypes'
  BY <1>2, <1>3, Went
<1>5. events' \in [Peers -> Seq(Events)]
  <2>1. UNCHANGED events \/ Notify(p, "active")
    BY DEF AcceptMedia
  <2>2. "active" \in Events
    BY DEF Events
  <2>3. QED
    BY <2>1, <2>2, NotifyTypes DEF TypeOK
<1>6. shown' \in [Peers -> BOOLEAN]
  <2>1. (shown[p] \/ Has(p)) \in BOOLEAN
    BY DEF Has
  <2>2. QED
    BY <2>1 DEF AcceptMedia, TypeOK
<1>7. QED
  BY <1>2, <1>4, <1>5, <1>6, TypeParts DEF OtherTypes, AcceptMedia

LEMMA TypeAnswerMedia == ASSUME TypeOK, NEW p \in Peers, AnswerMedia(p) PROVE TypeOK'
<1>1. relay[p].call \in 1..Len(dicts[p])
  BY Tables DEF AnswerMedia, TypeOK, None
<1>2. /\ TableTypes' /\ MediaTypes' /\ causes' \subseteq Causes
      /\ \A r \in Peers : Len(dicts'[r]) = Len(dicts[r])
  BY <1>1, StartMediaTypes DEF AnswerMedia
<1>3. /\ relay' \in [Peers -> [at: {"idle", "answered"}, call: Nat]]
      /\ relay'[p].at = "idle" /\ relay'[p].call = None
      /\ \A r \in Peers \ {p} : relay'[r] = relay[r]
  BY DEF AnswerMedia, Idle, TypeOK, None
<1>4. ThreadTypes'
  BY <1>2, <1>3, Tables, TypeParts DEF ThreadTypes, AnswerMedia, At, None
<1>5. events' \in [Peers -> Seq(Events)]
  <2>1. UNCHANGED events \/ Notify(p, "active")
    BY DEF AnswerMedia
  <2>2. "active" \in Events
    BY DEF Events
  <2>3. QED
    BY <2>1, <2>2, NotifyTypes DEF TypeOK
<1>6. QED
  BY <1>2, <1>4, <1>5, TypeParts DEF OtherTypes, AnswerMedia

LEMMA TypeReject == ASSUME TypeOK, NEW p \in Peers, Reject(p) PROVE TypeOK'
<1>1. calls' \in [Peers -> Nat] /\ calls'[p] = None /\ \A r \in Peers \ {p} : calls'[r] = calls[r]
  BY PopTable DEF Reject
<1>2. dicts' = dicts /\ Grows
  BY Tables DEF Reject, Grows
<1>3. TableTypes' /\ MediaTypes'
  <2>1. TableTypes'
    <3>1. \A r \in Peers : calls'[r] \in 0..Len(dicts[r])
      BY <1>1, Tables DEF None
    <3>2. QED
      BY <1>1, <1>2, <3>1 DEF TableTypes, TypeOK
  <2>2. MediaTypes'
    BY <1>2, Pointers DEF Reject, TypeOK
  <2>3. QED
    BY <2>1, <2>2
<1>4. "polling" \in Doing \ {"answered", "accepting"} /\ Goes(p, "polling") /\ UNCHANGED relay
  BY DEF Doing, Reject
<1>5. ThreadTypes'
  BY <1>2, <1>4, Went
<1>6. "ended" \in Events /\ Notify(p, "ended")
  BY DEF Events, Reject
<1>7. SendLast(p, "call_reject", Rejected(p)) /\ Rejected(p) \in SUBSET Causes
  BY CauseTypes DEF Reject
<1>8. /\ net' \in [Peers -> Seq(Signal)] /\ faults' \in 0..Faults /\ causes' \subseteq Causes
      /\ events' \in [Peers -> Seq(Events)]
  BY <1>6, <1>7, NotifyTypes, SendLastTypes
<1>9. QED
  BY <1>3, <1>5, <1>8, TypeParts DEF OtherTypes, Reject

LEMMA StopGrown ==
  ASSUME TypeOK, NEW p \in Peers, Stop(p)
  PROVE  TableTypes' /\ Grows
<1>1. /\ dicts' \in [Peers -> Seq(Call)] /\ calls' \in [Peers -> Nat] /\ calls'[p] = 0
      /\ Len(dicts'[p]) = Len(dicts[p]) /\ Others(p)
  BY StopTable DEF None
<1>2. \A c \in 1..Len(dicts[p]) :
        dicts[p][c].stop_event # "absent" => dicts'[p][c].stop_event # "absent"
  BY StopTable
<1>3. Len(dicts[p]) \in Nat
  BY Tables
<1>4. QED
  BY <1>1, <1>2, <1>3, Grown

LEMMA TypeHangup == ASSUME TypeOK, NEW p \in Peers, Hangup(p) PROVE TypeOK'
<1>1. Stop(p)
  BY DEF Hangup, Stop
<1>2. TableTypes' /\ Grows
  BY <1>1, StopGrown
<1>3. ThreadTypes' /\ MediaTypes'
  BY <1>2, Pointers DEF Hangup, TableTypes
<1>4. "ended" \in Events /\ Notify(p, "ended")
  BY DEF Events, Hangup
<1>5. SendLast(p, "call_end", {}) /\ {} \in SUBSET Causes
  BY DEF Hangup
<1>6. /\ net' \in [Peers -> Seq(Signal)] /\ faults' \in 0..Faults /\ causes' \subseteq Causes
      /\ events' \in [Peers -> Seq(Events)]
  BY <1>4, <1>5, NotifyTypes, SendLastTypes
<1>7. QED
  BY <1>2, <1>3, <1>6, TypeParts DEF OtherTypes, Hangup

LEMMA TypeOnEnd == ASSUME TypeOK, NEW p \in Peers, OnEnd(p) PROVE TypeOK'
<1>1. Stop(p)
  BY DEF OnEnd, Stop
<1>2. TableTypes' /\ Grows
  BY <1>1, StopGrown
<1>3. ThreadTypes' /\ MediaTypes'
  BY <1>2, Pointers DEF OnEnd, TableTypes
<1>4. "ended" \in Events /\ Notify(p, "ended") /\ Received(p, "call_end")
  BY DEF Events, OnEnd
<1>5. /\ net' \in [Peers -> Seq(Signal)] /\ events' \in [Peers -> Seq(Events)]
      /\ causes' \subseteq Causes
  BY <1>4, NotifyTypes, ReceivedTypes, CauseTypes DEF OnEnd, TypeOK
<1>6. QED
  BY <1>2, <1>3, <1>5, TypeParts DEF OtherTypes, OnEnd

LEMMA TypeOnReject == ASSUME TypeOK, NEW p \in Peers, OnReject(p) PROVE TypeOK'
<1>1. calls' \in [Peers -> Nat] /\ calls'[p] = None /\ \A r \in Peers \ {p} : calls'[r] = calls[r]
  BY PopTable DEF OnReject
<1>2. dicts' = dicts /\ Grows
  BY Tables DEF OnReject, Grows
<1>3. TableTypes' /\ MediaTypes' /\ ThreadTypes'
  <2>1. TableTypes'
    <3>1. \A r \in Peers : calls[r] \in 0..Len(dicts[r]) /\ Len(dicts[r]) \in Nat
      BY Tables
    <3>2. \A r \in Peers : calls'[r] \in 0..Len(dicts[r])
      BY <1>1, <3>1 DEF None
    <3>3. QED
      BY <1>1, <1>2, <3>2 DEF TableTypes, TypeOK
  <2>2. dicts' \in [Peers -> Seq(Call)] /\ UNCHANGED window /\ UNCHANGED relay /\ UNCHANGED media
    BY <2>1 DEF TableTypes, OnReject
  <2>3. QED
    BY <1>2, <2>1, <2>2, Pointers
<1>4. "ended" \in Events /\ Notify(p, "ended") /\ Received(p, "call_reject")
  BY DEF Events, OnReject
<1>5. /\ net' \in [Peers -> Seq(Signal)] /\ events' \in [Peers -> Seq(Events)]
      /\ causes' \subseteq Causes
  BY <1>4, NotifyTypes, ReceivedTypes, CauseTypes DEF OnReject, TypeOK
<1>6. QED
  BY <1>3, <1>5, TypeParts DEF OtherTypes, OnReject

LEMMA TypeQuiet ==
  ASSUME TypeOK, NEW p \in Peers, Poll(p) \/ TakeEvent(p) \/ Polled(p)
  PROVE  TypeOK'
<1>1. /\ UNCHANGED table /\ UNCHANGED media
      /\ UNCHANGED <<relay, net, ids, faults, joined, causes>>
  BY DEF Poll, TakeEvent, Polled, history
<1>2. PICK at \in {"idle", "polling", "asking"} : Goes(p, at)
  BY DEF Poll, TakeEvent, Polled
<1>3. at \in Doing \ {"answered", "accepting"} /\ dicts' = dicts
  BY <1>1 DEF Doing, table
<1>4. ThreadTypes'
  BY <1>1, <1>2, <1>3, Went
<1>5. shown' \in [Peers -> BOOLEAN] /\ events' \in [Peers -> Seq(Events)]
  <2>1. CASE Poll(p) \/ Polled(p)
    BY <2>1 DEF Poll, Polled, TypeOK
  <2>2. CASE TakeEvent(p)
    <3>1. events[p] \in Seq(Events) /\ events[p] # <<>>
      BY <2>2 DEF TakeEvent, TypeOK
    <3>2. Tail(events[p]) \in Seq(Events)
      BY <3>1
    <3>3. events' \in [Peers -> Seq(Events)]
      BY <2>2, <3>2 DEF TakeEvent, TypeOK
    <3>4. shown[p] \in BOOLEAN
      BY DEF TypeOK
    <3>5. Showing(shown[p], Head(events[p])) \in BOOLEAN
      BY <3>4 DEF Showing
    <3>6. QED
      BY <2>2, <3>3, <3>5 DEF TakeEvent, TypeOK
  <2>3. QED
    BY <2>1, <2>2
<1>6. TableTypes' /\ MediaTypes'
  BY <1>1, TypeParts DEF TableTypes, MediaTypes, table, media
<1>7. QED
  BY <1>1, <1>4, <1>5, <1>6, TypeParts DEF OtherTypes

LEMMA TypeOnAnswer == ASSUME TypeOK, NEW p \in Peers, OnAnswer(p) PROVE TypeOK'
<1>1. /\ UNCHANGED table /\ UNCHANGED gui /\ UNCHANGED media
      /\ UNCHANGED <<ids, faults, joined, causes>>
  BY DEF OnAnswer, history
<1>2. net' \in [Peers -> Seq(Signal)]
  BY ReceivedTypes DEF OnAnswer
<1>3. TableTypes' /\ MediaTypes'
  BY <1>1, TypeParts DEF TableTypes, MediaTypes, table, media
<1>4. ThreadTypes'
  <2>1. CASE UNCHANGED relay
    BY <1>1, <2>1, TypeParts DEF ThreadTypes, table, gui, At
  <2>2. CASE Answers(p, Id(p))
    <3>1. calls[p] \in 1..Len(dicts[p]) /\ Len(dicts[p]) \in Nat
      BY <2>2, Tables DEF Answers
    <3>2. relay' = [relay EXCEPT ![p] = [at |-> "answered", call |-> calls[p]]]
      BY <2>2 DEF OnAnswer
    <3>3. /\ relay' \in [Peers -> [at: {"idle", "answered"}, call: Nat]]
          /\ relay'[p].at = "answered" /\ relay'[p].call = calls[p]
          /\ \A r \in Peers \ {p} : relay'[r] = relay[r]
      BY <3>1, <3>2 DEF TypeOK
    <3>4. window' = window /\ dicts' = dicts
      BY <1>1 DEF gui, table
    <3>5. ThreadTypes
      BY TypeParts
    <3>6. /\ relay'[p].call \in 0..Len(dicts'[p])
          /\ relay'[p].call # None <=> relay'[p].at = "answered"
      BY <3>1, <3>3, <3>4 DEF None
    <3>7. QED
      BY <3>3, <3>4, <3>5, <3>6 DEF ThreadTypes, At
  <2>3. QED
    BY <2>1, <2>2 DEF OnAnswer
<1>5. QED
  BY <1>1, <1>2, <1>3, <1>4, TypeParts DEF OtherTypes, gui

LEMMA TypeLose == ASSUME TypeOK, NEW p \in Peers, Lose(p) PROVE TypeOK'
<1>1. /\ UNCHANGED table /\ UNCHANGED gui /\ UNCHANGED media
      /\ UNCHANGED <<relay, ids, joined>>
  BY DEF Lose
<1>2. net' \in [Peers -> Seq(Signal)]
  <2>1. net[p] \in Seq(Signal) /\ net[p] # <<>>
    BY DEF Lose, TypeOK
  <2>2. Tail(net[p]) \in Seq(Signal)
    BY <2>1
  <2>3. QED
    BY <2>2 DEF Lose, TypeOK
<1>3. faults' \in 0..Faults /\ causes' \subseteq Causes
  <2>1. Faults \in Nat /\ faults \in 0..Faults /\ causes \subseteq Causes /\ "lost" \in Causes
    BY CallsAssumption DEF TypeOK, Causes
  <2>2. faults < Faults /\ faults' = faults + 1 /\ causes' = causes \cup {"lost"}
    BY DEF Lose
  <2>3. QED
    BY <2>1, <2>2
<1>4. TableTypes' /\ MediaTypes' /\ ThreadTypes'
  BY <1>1, TypeParts DEF TableTypes, MediaTypes, ThreadTypes, table, media, gui, At
<1>5. QED
  BY <1>1, <1>2, <1>3, <1>4, TypeParts DEF OtherTypes, gui

LEMMA TypeCapture ==
  ASSUME TypeOK, NEW p \in Peers, CaptureBegin(p) \/ CaptureEnd(p)
  PROVE  TypeOK'
<1>1. /\ UNCHANGED table /\ UNCHANGED gui
      /\ UNCHANGED <<relay, ids, joined>>
  BY DEF CaptureBegin, CaptureEnd, history
<1>2. /\ starting \in [Peers -> Nat] /\ capture \in [Peers -> SUBSET Nat]
      /\ \A r \in Peers : /\ capture[r] \subseteq 1..Len(dicts[r])
                          /\ \A c \in capture[r] : dicts[r][c].stop_event # "absent"
  BY DEF TypeOK
<1>3. TableTypes' /\ ThreadTypes'
  BY <1>1, TypeParts DEF TableTypes, ThreadTypes, table, gui, At
<1>4. CASE CaptureBegin(p)
  <2>1. starting' \in [Peers -> Nat]
    BY <1>2, <1>4 DEF CaptureBegin
  <2>2. CASE UNCHANGED capture
    <3>1. MediaTypes'
      BY <1>1, <1>2, <2>1, <2>2 DEF MediaTypes, table
    <3>2. QED
      BY <1>1, <1>3, <1>4, <3>1, TypeParts DEF OtherTypes, CaptureBegin, history, gui
  <2>3. CASE Capturable(p) /\ capture' = [capture EXCEPT ![p] = @ \cup {calls[p]}]
    <3>1. calls[p] \in 1..Len(dicts[p]) /\ Len(dicts[p]) \in Nat
          /\ dicts[p][calls[p]].stop_event # "absent"
      BY <2>3, Tables DEF Capturable, Current
    <3>2. MediaTypes'
      BY <1>1, <1>2, <2>1, <2>3, <3>1 DEF MediaTypes, table
    <3>3. QED
      BY <1>1, <1>3, <1>4, <3>2, TypeParts DEF OtherTypes, CaptureBegin, history, gui
  <2>4. QED
    BY <1>4, <2>2, <2>3 DEF CaptureBegin
<1>5. CASE CaptureEnd(p)
  <2>1. PICK c \in capture[p] : capture' = [capture EXCEPT ![p] = @ \ {c}]
    BY <1>5 DEF CaptureEnd
  <2>2. UNCHANGED starting /\ net' \in [Peers -> Seq(Signal)] /\ faults' \in 0..Faults
        /\ causes' \subseteq Causes
    BY <1>5, FailTypes DEF CaptureEnd, TypeOK, Causes
  <2>3. MediaTypes'
    BY <1>1, <1>2, <2>1, <2>2 DEF MediaTypes, table
  <2>4. QED
    BY <1>1, <1>3, <2>2, <2>3, TypeParts DEF OtherTypes, gui
<1>6. QED
  BY <1>4, <1>5

LEMMA StepType == TypeOK /\ [Next]_vars => TypeOK'
<1> SUFFICES ASSUME TypeOK, [Next]_vars PROVE TypeOK'
  OBVIOUS
<1>1. ASSUME NEW p \in Peers, Window(p) PROVE TypeOK'
  BY <1>1, TypeStartCall, TypeQuiet, TypeAccept, TypeAcceptMedia, TypeReject, TypeHangup
  DEF Window
<1>2. ASSUME NEW p \in Peers, RelayThread(p) PROVE TypeOK'
  BY <1>2, TypeOnOffer, TypeOnAnswer, TypeAnswerMedia, TypeOnReject, TypeOnEnd DEF RelayThread
<1>3. ASSUME NEW p \in Peers, Capture(p) \/ Lose(p) PROVE TypeOK'
  BY <1>3, TypeCapture, TypeLose DEF Capture
<1>4. CASE UNCHANGED vars
  BY <1>4 DEF vars, TypeOK, At
<1>5. QED
  BY <1>1, <1>2, <1>3, <1>4 DEF Next

----------------------------------------------------------------------------
(* The signals on their way, and the calls they are about *)

\* A signal of this kind, about the call x, is on its way to p.
Comes(p, types, x) ==
  \E i \in 1..Len(net[p]) : net[p][i].type \in types /\ net[p][i].id = x
Offered(p, x) == Comes(p, {"call_offer"}, x)
Answered(p, x) == Comes(p, {"call_answer"}, x)
Ended(p, x) == Comes(p, {"call_reject", "call_end"}, x)

\* p once had a dictionary for the call x; p has the call x now.
Knows(p, x) == \E c \in 1..Len(dicts[p]) : dicts[p][c].id = x
InCall(p, x) == Has(p) /\ Current(p).id = x

\* Ids are drawn once, and a peer has one dictionary for each.
Distinct(p) ==
  /\ \A c \in 1..Len(dicts[p]) : dicts[p][c].id <= ids
  /\ \A c, d \in 1..Len(dicts[p]) : dicts[p][c].id = dicts[p][d].id => c = d

\* Nothing about a call is ahead of its offer.
Ordered(p) ==
  \A i, j \in 1..Len(net[p]) :
    i < j /\ net[p][j].type = "call_offer" => net[p][i].id # net[p][j].id

\* An offer on its way to p is news to p, and its sender did not get it from p.
OffersNew(p) ==
  \A x \in Ids : Offered(p, x) =>
    /\ ~Knows(p, x)
    /\ \E c \in 1..Len(dicts[Other[p]]) :
         dicts[Other[p]][c].id = x /\ dicts[Other[p]][c].state # "ringing_in"

\* A call does not ring the same way at both ends.
RingsApart(p) ==
  \A c \in 1..Len(dicts[p]), d \in 1..Len(dicts[Other[p]]) :
    /\ dicts[p][c].id = dicts[Other[p]][d].id
    /\ dicts[p][c].state = dicts[Other[p]][d].state
    => dicts[p][c].state = "active"

\* Who sent that a call ended is never in it again.
EndsGone(p) ==
  \A x \in Ids : Ended(p, x) => Knows(Other[p], x) /\ ~InCall(Other[p], x)

\* Who sent an answer has made the call active, or is about to.
AnswersMade(p) ==
  \A x \in Ids : Answered(p, x) =>
    \E c \in 1..Len(dicts[Other[p]]) :
      /\ dicts[Other[p]][c].id = x
      /\ dicts[Other[p]][c].state = "active" \/ window[Other[p]].call = c

Signals(p) ==
  Distinct(p) /\ Ordered(p) /\ OffersNew(p) /\ RingsApart(p) /\ EndsGone(p) /\ AnswersMade(p)
SignalInv == \A p \in Peers : Signals(p)

LEMMA InitSignals == Init => SignalInv
<1> SUFFICES ASSUME Init, NEW p \in Peers PROVE Signals(p)
  BY DEF SignalInv
<1>1. /\ dicts[p] = <<>> /\ net[p] = <<>>
      /\ Len(dicts[p]) = 0 /\ Len(net[p]) = 0
  BY DEF Init
<1>2. Distinct(p) /\ Ordered(p) /\ RingsApart(p)
  BY <1>1 DEF Distinct, Ordered, RingsApart
<1>3. OffersNew(p) /\ EndsGone(p) /\ AnswersMade(p)
  BY <1>1 DEF OffersNew, EndsGone, AnswersMade, Offered, Ended, Answered, Comes
<1>4. QED
  BY <1>2, <1>3 DEF Signals

\* What is sent comes last.
LEMMA SentSignals ==
  ASSUME TypeOK, NEW p \in Peers, NEW s \in Signal, Send(p, s)
  PROVE  \A r \in Peers :
           /\ Ordered(r) /\ (s.type = "call_offer" /\ r = Other[p] =>
                \A i \in 1..Len(net[r]) : net[r][i].id # s.id) => Ordered(r)'
           /\ \A types, x : Comes(r, types, x)' <=>
                Comes(r, types, x) \/ (r = Other[p] /\ s.type \in types /\ s.id = x)
<1> DEFINE q == Other[p]
<1>1. q \in Peers /\ net[q] \in Seq(Signal) /\ net \in [Peers -> Seq(Signal)]
  BY OtherPeer DEF TypeOK
<1>2. /\ net'[q] = Append(net[q], s)
      /\ \A r \in Peers \ {q} : net'[r] = net[r]
  BY <1>1 DEF Send
<1>3. /\ Len(net[q]) \in Nat /\ Len(net'[q]) = Len(net[q]) + 1
      /\ net'[q][Len(net[q]) + 1] = s
      /\ \A i \in 1..Len(net[q]) : net'[q][i] = net[q][i]
  BY <1>1, <1>2, Queues
<1> SUFFICES ASSUME NEW r \in Peers
             PROVE  /\ Ordered(r) /\ (s.type = "call_offer" /\ r = Other[p] =>
                         \A i \in 1..Len(net[r]) : net[r][i].id # s.id) => Ordered(r)'
                    /\ \A types, x : Comes(r, types, x)' <=>
                         Comes(r, types, x) \/ (r = Other[p] /\ s.type \in types /\ s.id = x)
  OBVIOUS
<1>4. CASE r # q
  <2>1. net'[r] = net[r]
    BY <1>2, <1>4
  <2>2. QED
    BY <1>4, <2>1 DEF Ordered, Comes
<1>5. CASE r = q
  <2>1. ASSUME Ordered(q), s.type = "call_offer" => \A i \in 1..Len(net[q]) : net[q][i].id # s.id,
               NEW i \in 1..Len(net'[q]), NEW j \in 1..Len(net'[q]),
               i < j, net'[q][j].type = "call_offer"
        PROVE  net'[q][i].id # net'[q][j].id
    <3>1. i \in 1..Len(net[q])
      BY <1>3, <2>1
    <3>2. CASE j = Len(net[q]) + 1
      BY <1>3, <2>1, <3>1, <3>2
    <3>3. CASE j \in 1..Len(net[q])
      BY <1>3, <2>1, <3>1, <3>3 DEF Ordered
    <3>4. QED
      BY <1>3, <3>2, <3>3
  <2>2. ASSUME NEW types, NEW x
        PROVE  Comes(q, types, x)' <=> Comes(q, types, x) \/ (s.type \in types /\ s.id = x)
    <3>1. Comes(q, types, x) => Comes(q, types, x)'
      <4>1. 1..Len(net[q]) \subseteq 1..Len(net'[q])
        BY <1>3
      <4>2. QED
        BY <1>3, <4>1 DEF Comes
    <3>2. s.type \in types /\ s.id = x => Comes(q, types, x)'
      <4>1. Len(net[q]) + 1 \in 1..Len(net'[q])
        BY <1>3
      <4>2. QED
        BY <1>3, <4>1 DEF Comes
    <3>3. \A i \in 1..Len(net'[q]) : i \in 1..Len(net[q]) \/ i = Len(net[q]) + 1
      BY <1>3
    <3>4. Comes(q, types, x)' => Comes(q, types, x) \/ (s.type \in types /\ s.id = x)
      BY <1>3, <3>3 DEF Comes
    <3>5. QED
      BY <3>1, <3>2, <3>4
  <2>3. QED
    BY <1>5, <2>1, <2>2 DEF Ordered
<1>6. QED
  BY <1>4, <1>5

\* What is taken comes first.
LEMMA TakenSignals ==
  ASSUME TypeOK, NEW p \in Peers, net[p] # <<>>, net' = [net EXCEPT ![p] = Tail(@)],
         NEW h \in Ids, h = Id(p)
  PROVE  /\ Ordered(p) => ~Offered(p, h)'
         /\ \A types : Head(net[p]).type \in types => Comes(p, types, h)
         /\ \A r \in Peers :
              /\ Ordered(r) => Ordered(r)'
              /\ \A types, x : Comes(r, types, x)' => Comes(r, types, x)
              /\ \A types, x : Comes(r, types, x) =>
                   Comes(r, types, x)' \/ (r = p /\ Head(net[p]).type \in types /\ h = x)
<1>1. net[p] \in Seq(Signal) /\ net \in [Peers -> Seq(Signal)]
  BY DEF TypeOK
<1>2. /\ net'[p] = Tail(net[p])
      /\ \A r \in Peers \ {p} : net'[r] = net[r]
  BY <1>1
<1>3. /\ Len(net[p]) \in Nat /\ Len(net[p]) > 0 /\ Len(net'[p]) = Len(net[p]) - 1
      /\ Head(net[p]) = net[p][1]
      /\ \A i \in 1..Len(net'[p]) : net'[p][i] = net[p][i + 1]
  BY <1>1, <1>2, Queues
<1>4. Ordered(p) => Ordered(p)'
  BY <1>3 DEF Ordered
<1>5. Ordered(p) => ~Offered(p, h)'
  <2>1. ASSUME Ordered(p), NEW i \in 1..Len(net'[p]), net'[p][i].type = "call_offer",
               net'[p][i].id = h
        PROVE  FALSE
    <3>1. i + 1 \in 1..Len(net[p]) /\ 1 \in 1..Len(net[p]) /\ 1 < i + 1
      BY <1>3
    <3>2. net[p][i + 1].type = "call_offer" /\ net[p][i + 1].id = net[p][1].id
      BY <1>3, <2>1 DEF Id
    <3>3. QED
      BY <2>1, <3>1, <3>2 DEF Ordered
  <2>2. QED
    BY <2>1 DEF Offered, Comes
<1>6. \A types : Head(net[p]).type \in types => Comes(p, types, h)
  BY <1>3 DEF Comes, Id
<1>7. ASSUME NEW types, NEW x
      PROVE  /\ Comes(p, types, x)' => Comes(p, types, x)
             /\ Comes(p, types, x) =>
                  Comes(p, types, x)' \/ (Head(net[p]).type \in types /\ h = x)
  <2>1. Comes(p, types, x)' => Comes(p, types, x)
    BY <1>3 DEF Comes
  <2>2. ASSUME NEW i \in 1..Len(net[p]), net[p][i].type \in types, net[p][i].id = x, i # 1
        PROVE  Comes(p, types, x)'
    <3>1. i - 1 \in 1..Len(net'[p]) /\ net'[p][i - 1] = net[p][i]
      BY <1>3, <2>2
    <3>2. QED
      BY <2>2, <3>1 DEF Comes
  <2>3. QED
    BY <1>3, <2>1, <2>2 DEF Comes, Id
<1>8. ASSUME NEW r \in Peers \ {p}
      PROVE  /\ Ordered(r) => Ordered(r)'
             /\ \A types, x : Comes(r, types, x)' <=> Comes(r, types, x)
  BY <1>2 DEF Ordered, Comes
<1>9. QED
  BY <1>4, <1>5, <1>6, <1>7, <1>8

\* No dictionary is new, and at most a call has become active, or left the table.
SameCalls ==
  \A r \in Peers :
    /\ Len(dicts'[r]) = Len(dicts[r])
    /\ \A c \in 1..Len(dicts[r]) : /\ dicts'[r][c].id = dicts[r][c].id
                                   /\ dicts'[r][c].state \in {dicts[r][c].state, "active"}
NoneEntered == \A r \in Peers : calls'[r] \in {calls[r], None}

LEMMA SameKnown ==
  ASSUME TypeOK, SameCalls, NEW r \in Peers, NEW x
  PROVE  /\ Knows(r, x)' <=> Knows(r, x)
         /\ calls'[r] \in {calls[r], None} => (InCall(r, x)' => InCall(r, x))
         /\ calls'[r] = calls[r] => (InCall(r, x)' <=> InCall(r, x))
<1>1. Knows(r, x)' <=> Knows(r, x)
  BY DEF SameCalls, Knows
<1>2. Has(r) => calls[r] \in 1..Len(dicts[r])
  BY Tables
<1>3. CASE calls'[r] = None
  BY <1>1, <1>2, <1>3 DEF InCall, Has
<1>4. CASE calls'[r] = calls[r]
  BY <1>1, <1>2, <1>4 DEF InCall, Has, Current, SameCalls
<1>5. QED
  BY <1>1, <1>3, <1>4

\* A step after which p's table has no new call, and whoever sent a signal meant it.
LEMMA KeepsSignals ==
  ASSUME TypeOK, SignalInv, ids' = ids, SameCalls, NoneEntered,
         \A r \in Peers : Ordered(r)',
         \A r \in Peers : \A c \in 1..Len(dicts[r]) :
           window[r].call = c => window'[r].call = c \/ dicts'[r][c].state = "active",
         \A r \in Peers, x \in Ids :
           /\ Offered(r, x)' => Offered(r, x)
           /\ Ended(r, x)' => Ended(r, x) \/ (Knows(Other[r], x) /\ ~InCall(Other[r], x)')
           /\ Answered(r, x)' => \/ Answered(r, x)
                                 \/ \E c \in 1..Len(dicts[Other[r]]) :
                                      dicts[Other[r]][c].id = x /\ window'[Other[r]].call = c
  PROVE  SignalInv'
<1> SUFFICES ASSUME NEW r \in Peers PROVE Signals(r)'
  BY DEF SignalInv
<1> DEFINE q == Other[r]
<1>1. q \in Peers /\ Signals(r) /\ Signals(q)
  BY OtherPeer DEF SignalInv
<1>2. Distinct(r)' /\ Ordered(r)'
  BY <1>1 DEF Signals, Distinct, SameCalls
<1>3. OffersNew(r)'
  <2>1. ASSUME NEW x \in Ids, Offered(r, x)'
        PROVE  /\ ~Knows(r, x)'
               /\ \E c \in 1..Len(dicts'[q]) :
                    dicts'[q][c].id = x /\ dicts'[q][c].state # "ringing_in"
    <3>1. Offered(r, x)
      BY <2>1
    <3>2. ~Knows(r, x)
      BY <1>1, <3>1 DEF Signals, OffersNew
    <3>3. PICK c \in 1..Len(dicts[q]) : dicts[q][c].id = x /\ dicts[q][c].state # "ringing_in"
      BY <1>1, <3>1 DEF Signals, OffersNew
    <3>4. c \in 1..Len(dicts'[q]) /\ dicts'[q][c].id = x /\ dicts'[q][c].state # "ringing_in"
      BY <1>1, <3>3 DEF SameCalls
    <3>5. QED
      BY <3>2, <3>4, SameKnown
  <2>2. QED
    BY <2>1 DEF OffersNew
<1>4. RingsApart(r)'
  <2>1. ASSUME NEW c \in 1..Len(dicts'[r]), NEW d \in 1..Len(dicts'[q]),
               dicts'[r][c].id = dicts'[q][d].id, dicts'[r][c].state = dicts'[q][d].state
        PROVE  dicts'[r][c].state = "active"
    <3>1. c \in 1..Len(dicts[r]) /\ d \in 1..Len(dicts[q]) /\ dicts[r][c].id = dicts[q][d].id
      BY <1>1, <2>1 DEF SameCalls
    <3>2. /\ dicts'[r][c].state \in {dicts[r][c].state, "active"}
          /\ dicts'[q][d].state \in {dicts[q][d].state, "active"}
      BY <1>1, <3>1 DEF SameCalls
    <3>3. dicts[r][c].state = dicts[q][d].state => dicts[r][c].state = "active"
      BY <1>1, <3>1 DEF Signals, RingsApart
    <3>4. QED
      BY <2>1, <3>2, <3>3
  <2>2. QED
    BY <2>1 DEF RingsApart
<1>5. EndsGone(r)'
  <2>1. ASSUME NEW x \in Ids, Ended(r, x)' PROVE Knows(q, x)' /\ ~InCall(q, x)'
    <3>1. CASE Ended(r, x)
      BY <1>1, <3>1, SameKnown DEF Signals, EndsGone, NoneEntered
    <3>2. CASE Knows(q, x) /\ ~InCall(q, x)'
      BY <1>1, <3>2, SameKnown
    <3>3. QED
      BY <2>1, <3>1, <3>2
  <2>2. QED
    BY <2>1 DEF EndsGone
<1>6. AnswersMade(r)'
  <2>1. ASSUME NEW x \in Ids, Answered(r, x)'
        PROVE  \E c \in 1..Len(dicts'[q]) :
                 /\ dicts'[q][c].id = x
                 /\ dicts'[q][c].state = "active" \/ window'[q].call = c
    <3>1. PICK c \in 1..Len(dicts[q]) :
            /\ dicts[q][c].id = x
            /\ dicts[q][c].state = "active" \/ window[q].call = c \/ window'[q].call = c
      BY <1>1, <2>1 DEF Signals, AnswersMade
    <3>2. c \in 1..Len(dicts'[q]) /\ dicts'[q][c].id = x
      BY <1>1, <3>1 DEF SameCalls
    <3>3. dicts'[q][c].state = "active" \/ window'[q].call = c
      BY <1>1, <3>1 DEF SameCalls
    <3>4. QED
      BY <3>2, <3>3
  <2>2. QED
    BY <2>1 DEF AnswersMade
<1>7. QED
  BY <1>2, <1>3, <1>4, <1>5, <1>6 DEF Signals

\* A step that puts a call into p's table: one of a new id, or one that was offered.
LEMMA PutSignals ==
  ASSUME TypeOK, SignalInv, NEW p \in Peers, NEW x \in Ids, NEW s \in {"ringing_out", "ringing_in"},
         Put(p, NewCall(x, s)), ~Knows(p, x), ids <= ids', x <= ids', ids' \in Nat,
         UNCHANGED window,
         \A d \in 1..Len(dicts[Other[p]]) :
           dicts[Other[p]][d].id = x => dicts[Other[p]][d].state # s,
         ~Offered(p, x)',
         \A r \in Peers : Ordered(r)',
         \A r \in Peers, y \in Ids :
           /\ Ended(r, y)' => Ended(r, y)
           /\ Answered(r, y)' => Answered(r, y)
           /\ Offered(r, y)' =>
                \/ Offered(r, y)
                \/ r = Other[p] /\ y = x /\ s = "ringing_out" /\ ~Knows(r, x)
  PROVE  SignalInv'
<1> DEFINE n == Len(dicts[p]) + 1
           call == NewCall(x, s)
<1>1. call \in Call /\ call.id = x /\ call.state = s
  BY NewCallFields DEF States
<1> HIDE DEF call
<1>2. /\ Len(dicts'[p]) = n /\ n \in Nat /\ calls'[p] = n /\ dicts'[p][n] = call
      /\ \A c \in 1..Len(dicts[p]) : dicts'[p][c] = dicts[p][c]
      /\ Others(p)
  <2>1. Put(p, call)
    BY DEF call
  <2>2. QED
    BY <1>1, <2>1, PutTable, Tables
<1>3. \A c : c \in 1..n <=> c \in 1..Len(dicts[p]) \/ c = n
  BY Tables
<1>4. \A r \in Peers : /\ Len(dicts[r]) \in Nat
                       /\ 1..Len(dicts[r]) \subseteq 1..Len(dicts'[r])
                       /\ \A c \in 1..Len(dicts[r]) : dicts'[r][c] = dicts[r][c]
  BY <1>2, <1>3, Tables DEF Others
<1>5. \A r \in Peers, y \in Ids :
        /\ Knows(r, y) => Knows(r, y)'
        /\ Knows(r, y)' => Knows(r, y) \/ (r = p /\ y = x)
        /\ InCall(r, y)' => (r = p /\ y = x) \/ (r # p /\ InCall(r, y))
  <2> SUFFICES ASSUME NEW r \in Peers, NEW y \in Ids
               PROVE  /\ Knows(r, y) => Knows(r, y)'
                      /\ Knows(r, y)' => Knows(r, y) \/ (r = p /\ y = x)
                      /\ InCall(r, y)' => (r = p /\ y = x) \/ (r # p /\ InCall(r, y))
    OBVIOUS
  <2>1. Knows(r, y) => Knows(r, y)'
    BY <1>4 DEF Knows
  <2>2. CASE r = p
    BY <1>1, <1>2, <1>3, <2>1, <2>2 DEF Knows, InCall, Current
  <2>3. CASE r # p
    BY <1>2, <2>3 DEF Others, Knows, InCall, Current, Has
  <2>4. QED
    BY <2>2, <2>3
<1> SUFFICES ASSUME NEW r \in Peers PROVE Signals(r)'
  BY DEF SignalInv
<1> DEFINE q == Other[r]
<1>6. q \in Peers /\ q # r /\ Other[q] = r /\ Signals(r) /\ Signals(q)
  BY OtherPeer DEF SignalInv
<1>7. Distinct(r)'
  <2>1. ids \in Nat /\ Ids \subseteq Nat
    BY CallsAssumption DEF TypeOK, Ids
  <2>2. \A c \in 1..Len(dicts[r]) : dicts[r][c].id \in Nat /\ dicts[r][c].id <= ids
    BY <1>6, <2>1, Tables, CallFields DEF Signals, Distinct
  <2>3. CASE r # p
    <3>1. dicts'[r] = dicts[r]
      BY <1>2, <2>3 DEF Others
    <3>2. \A c \in 1..Len(dicts[r]) : dicts[r][c].id <= ids'
      BY <2>1, <2>2
    <3>3. QED
      BY <1>6, <3>1, <3>2 DEF Signals, Distinct
  <2>4. CASE r = p
    <3>1. \A c \in 1..n : dicts'[p][c].id <= ids'
      <4>1. dicts'[p][n].id <= ids'
        BY <1>1, <1>2
      <4>2. ASSUME NEW c \in 1..Len(dicts[p]) PROVE dicts'[p][c].id <= ids'
        <5>1. dicts'[p][c] = dicts[p][c] /\ dicts[p][c].id \in Nat /\ dicts[p][c].id <= ids
          BY <1>2, <2>2, <2>4
        <5>2. QED
          BY <2>1, <5>1
      <4>3. QED
        BY <1>3, <4>1, <4>2
    <3>2. \A c \in 1..Len(dicts[p]) : dicts[p][c].id # x
      BY DEF Knows
    <3>3. ASSUME NEW c \in 1..n, NEW d \in 1..n, dicts'[p][c].id = dicts'[p][d].id
          PROVE  c = d
      <4>1. CASE c = n \/ d = n
        BY <1>1, <1>2, <1>3, <3>2, <3>3, <4>1
      <4>2. CASE c # n /\ d # n
        <5>1. c \in 1..Len(dicts[p]) /\ d \in 1..Len(dicts[p]) /\ dicts[p][c].id = dicts[p][d].id
          BY <1>2, <1>3, <3>3, <4>2
        <5>2. Distinct(p)
          BY DEF SignalInv, Signals
        <5>3. QED
          BY <5>1, <5>2 DEF Distinct
      <4>3. QED
        BY <4>1, <4>2
    <3>4. QED
      BY <1>2, <2>4, <3>1, <3>3 DEF Distinct
  <2>5. QED
    BY <2>3, <2>4
<1>8. OffersNew(r)'
  <2>1. ASSUME NEW y \in Ids, Offered(r, y)'
        PROVE  /\ ~Knows(r, y)'
               /\ \E c \in 1..Len(dicts'[q]) :
                    dicts'[q][c].id = y /\ dicts'[q][c].state # "ringing_in"
    <3>1. r # p \/ y # x
      BY <2>1
    <3>2. CASE Offered(r, y)
      <4>1. ~Knows(r, y)
        BY <1>6, <3>2 DEF Signals, OffersNew
      <4>2. PICK c \in 1..Len(dicts[q]) : dicts[q][c].id = y /\ dicts[q][c].state # "ringing_in"
        BY <1>6, <3>2 DEF Signals, OffersNew
      <4>3. QED
        BY <1>4, <1>5, <1>6, <3>1, <4>1, <4>2
    <3>3. CASE r = Other[p] /\ y = x /\ s = "ringing_out" /\ ~Knows(r, x)
      <4>1. r # p /\ q = p
        BY <3>3, OtherPeer
      <4>2. n \in 1..Len(dicts'[q]) /\ dicts'[q][n].id = y /\ dicts'[q][n].state # "ringing_in"
        BY <1>1, <1>2, <1>3, <3>3, <4>1
      <4>3. QED
        BY <1>5, <3>3, <4>1, <4>2
    <3>4. QED
      BY <2>1, <3>2, <3>3
  <2>2. QED
    BY <2>1 DEF OffersNew
<1>9. RingsApart(r)'
  <2>1. CASE r # p /\ q # p
    <3>1. dicts'[r] = dicts[r] /\ dicts'[q] = dicts[q]
      BY <1>2, <1>6, <2>1 DEF Others
    <3>2. QED
      BY <1>6, <3>1 DEF Signals, RingsApart
  <2>2. ASSUME NEW o \in Peers, o = Other[p], NEW c \in 1..n, NEW d \in 1..Len(dicts'[o]),
               dicts'[p][c].id = dicts'[o][d].id, dicts'[p][c].state = dicts'[o][d].state
        PROVE  dicts'[p][c].state = "active"
    <3>1. dicts'[o] = dicts[o]
      BY <1>2, <2>2, OtherPeer DEF Others
    <3>2. CASE c = n
      BY <1>1, <1>2, <2>2, <3>1, <3>2
    <3>3. CASE c \in 1..Len(dicts[p])
      <4>1. RingsApart(p)
        BY DEF SignalInv, Signals
      <4>2. QED
        BY <1>4, <2>2, <3>1, <3>3, <4>1 DEF RingsApart
    <3>4. QED
      BY <1>3, <3>2, <3>3
  <2>3. CASE r = p
    BY <1>2, <1>6, <2>2, <2>3 DEF RingsApart
  <2>4. CASE q = p
    <3>1. Other[p] = r
      BY <1>6, <2>4
    <3>2. QED
      BY <1>2, <1>6, <2>2, <2>4, <3>1 DEF RingsApart
  <2>5. QED
    BY <2>1, <2>3, <2>4
<1>10. EndsGone(r)'
  <2>1. ASSUME NEW y \in Ids, Ended(r, y)' PROVE Knows(q, y)' /\ ~InCall(q, y)'
    <3>1. Ended(r, y)
      BY <2>1
    <3>2. Knows(q, y) /\ ~InCall(q, y)
      BY <1>6, <3>1 DEF Signals, EndsGone
    <3>3. QED
      BY <1>5, <1>6, <3>2
  <2>2. QED
    BY <2>1 DEF EndsGone
<1>11. AnswersMade(r)'
  <2>1. ASSUME NEW y \in Ids, Answered(r, y)'
        PROVE  \E c \in 1..Len(dicts'[q]) :
                 /\ dicts'[q][c].id = y
                 /\ dicts'[q][c].state = "active" \/ window'[q].call = c
    <3>1. PICK c \in 1..Len(dicts[q]) :
            dicts[q][c].id = y /\ (dicts[q][c].state = "active" \/ window[q].call = c)
      BY <1>6, <2>1 DEF Signals, AnswersMade
    <3>2. QED
      BY <1>4, <1>6, <3>1
  <2>2. QED
    BY <2>1 DEF AnswersMade
<1>12. QED
  BY <1>7, <1>8, <1>9, <1>10, <1>11 DEF Signals

\* What the actions send and take.
LEMMA SendsOne ==
  ASSUME TypeOK, NEW p \in Peers, NEW x \in Ids,
         NEW type \in {"call_offer", "call_answer", "call_reject", "call_end"},
         Send(p, Sig(type, x))
  PROVE  /\ \A r \in Peers, y \in Ids :
              /\ Offered(r, y)' <=> Offered(r, y) \/ (r = Other[p] /\ y = x /\ type = "call_offer")
              /\ Answered(r, y)' <=> Answered(r, y) \/ (r = Other[p] /\ y = x /\ type = "call_answer")
              /\ Ended(r, y)' <=> \/ Ended(r, y)
                                  \/ r = Other[p] /\ y = x /\ type \in {"call_reject", "call_end"}
         /\ SignalInv /\ (type = "call_offer" => x > ids) => \A r \in Peers : Ordered(r)'
<1> DEFINE s == Sig(type, x)
<1>1. s \in Signal /\ s.type = type /\ s.id = x /\ Send(p, s)
  BY SigFields
<1> HIDE DEF s
<1>2. \A r \in Peers :
        /\ Ordered(r) /\ (s.type = "call_offer" /\ r = Other[p] =>
             \A i \in 1..Len(net[r]) : net[r][i].id # s.id) => Ordered(r)'
        /\ \A types, y : Comes(r, types, y)' <=>
             Comes(r, types, y) \/ (r = Other[p] /\ s.type \in types /\ s.id = y)
  BY <1>1, SentSignals
<1>3. \A r \in Peers, y \in Ids :
        /\ Offered(r, y)' <=> Offered(r, y) \/ (r = Other[p] /\ y = x /\ type = "call_offer")
        /\ Answered(r, y)' <=> Answered(r, y) \/ (r = Other[p] /\ y = x /\ type = "call_answer")
        /\ Ended(r, y)' <=> \/ Ended(r, y)
                            \/ r = Other[p] /\ y = x /\ type \in {"call_reject", "call_end"}
  BY <1>1, <1>2 DEF Offered, Answered, Ended
<1>4. ASSUME SignalInv, type = "call_offer" => x > ids, NEW r \in Peers PROVE Ordered(r)'
  <2>1. Ordered(r)
    BY <1>4 DEF SignalInv, Signals
  <2>2. ASSUME type = "call_offer", NEW i \in 1..Len(net[r]) PROVE net[r][i].id # x
    <3>1. net[r][i] \in Signal
      BY Queues DEF TypeOK
    <3> DEFINE y == net[r][i].id
    <3>2. y \in Ids /\ (Offered(r, y) \/ Answered(r, y) \/ Ended(r, y))
      BY <3>1 DEF Signal, Offered, Answered, Ended, Comes
    <3> HIDE DEF y
    <3>3. Other[r] \in Peers /\ Knows(Other[r], y)
      BY <1>4, <3>2, OtherPeer DEF SignalInv, Signals, OffersNew, AnswersMade, EndsGone, Knows
    <3>4. y <= ids
      BY <1>4, <3>3 DEF SignalInv, Signals, Distinct, Knows
    <3>5. ids \in Nat /\ y \in Nat /\ x \in Nat
      BY <3>2, CallsAssumption DEF TypeOK, Ids
    <3>6. QED
      BY <1>4, <2>2, <3>4, <3>5 DEF y
  <2>3. QED
    BY <1>1, <1>2, <2>1, <2>2
<1>5. QED
  BY <1>3, <1>4

LEMMA TakesOne ==
  ASSUME TypeOK, SignalInv, NEW p \in Peers, NEW h \in Ids, h = Id(p),
         net[p] # <<>>, net' = [net EXCEPT ![p] = Tail(@)]
  PROVE  /\ ~Offered(p, h)' /\ \A r \in Peers : Ordered(r)'
         /\ Head(net[p]).type = "call_offer" => Offered(p, h)
         /\ Head(net[p]).type = "call_answer" => Answered(p, h)
         /\ Head(net[p]).type \in {"call_reject", "call_end"} => Ended(p, h)
         /\ \A r \in Peers, y \in Ids :
              /\ Offered(r, y)' => Offered(r, y)
              /\ Answered(r, y)' => Answered(r, y)
              /\ Ended(r, y)' => Ended(r, y)
              /\ Offered(r, y) => \/ Offered(r, y)'
                                  \/ r = p /\ y = h /\ Head(net[p]).type = "call_offer"
              /\ Answered(r, y) => \/ Answered(r, y)'
                                   \/ r = p /\ y = h /\ Head(net[p]).type = "call_answer"
              /\ Ended(r, y) => \/ Ended(r, y)'
                                \/ /\ r = p /\ y = h
                                   /\ Head(net[p]).type \in {"call_reject", "call_end"}
<1>1. \A r \in Peers : Ordered(r)
  BY DEF SignalInv, Signals
<1>2. /\ Ordered(p) => ~Offered(p, h)'
      /\ \A types : Head(net[p]).type \in types => Comes(p, types, h)
      /\ \A r \in Peers :
           /\ Ordered(r) => Ordered(r)'
           /\ \A types, x : Comes(r, types, x)' => Comes(r, types, x)
           /\ \A types, x : Comes(r, types, x) =>
                Comes(r, types, x)' \/ (r = p /\ Head(net[p]).type \in types /\ h = x)
  BY TakenSignals
<1>3. QED
  BY <1>1, <1>2 DEF Offered, Answered, Ended

LEMMA SendsNone ==
  ASSUME SignalInv, UNCHANGED net
  PROVE  /\ \A r \in Peers : Ordered(r)'
         /\ \A r \in Peers, y \in Ids :
              /\ Offered(r, y)' <=> Offered(r, y)
              /\ Answered(r, y)' <=> Answered(r, y)
              /\ Ended(r, y)' <=> Ended(r, y)
BY DEF SignalInv, Signals, Ordered, Offered, Answered, Ended, Comes

LEMMA TakesReceived ==
  ASSUME TypeOK, NEW p \in Peers, NEW type, Received(p, type)
  PROVE  /\ Id(p) \in Ids /\ net[p] # <<>> /\ net' = [net EXCEPT ![p] = Tail(@)]
         /\ Head(net[p]).type = type
BY ReceivedTypes DEF Received

LEMMA TakesLost ==
  ASSUME TypeOK, NEW p \in Peers, Lose(p)
  PROVE  Id(p) \in Ids /\ net[p] # <<>> /\ net' = [net EXCEPT ![p] = Tail(@)]
<1>1. net[p] \in Seq(Signal) /\ net[p] # <<>>
  BY DEF Lose, TypeOK
<1>2. Head(net[p]) \in Signal
  BY <1>1
<1>3. QED
  BY <1>1, <1>2 DEF Lose, Id, Signal

LEMMA TableKept ==
  ASSUME TypeOK, UNCHANGED dicts
  PROVE  SameCalls
BY DEF SameCalls

LEMMA MediaKept ==
  ASSUME TypeOK, NEW p \in Peers, NEW inHand \in 1..Len(dicts[p]), StartMedia(p, inHand)
  PROVE  SameCalls /\ NoneEntered /\ dicts'[p][inHand].state = "active"
<1>1. /\ Len(dicts'[p]) = Len(dicts[p]) /\ calls' = calls
      /\ \A c \in 1..Len(dicts[p]) :
           /\ dicts'[p][c].id = dicts[p][c].id
           /\ dicts'[p][c].state = IF c = inHand THEN "active" ELSE dicts[p][c].state
      /\ Others(p)
  BY MediaTable
<1>2. \A r \in Peers \ {p} : dicts'[r] = dicts[r]
  BY <1>1 DEF Others
<1>3. QED
  BY <1>1, <1>2 DEF SameCalls, NoneEntered

LEMMA PopKept ==
  ASSUME TypeOK, NEW p \in Peers, Pop(p)
  PROVE  NoneEntered /\ \A x : ~InCall(p, x)'
BY PopTable DEF NoneEntered, InCall, Has

LEMMA StopKept ==
  ASSUME TypeOK, NEW p \in Peers, Stop(p)
  PROVE  SameCalls /\ NoneEntered /\ \A x : ~InCall(p, x)'
<1>1. /\ Len(dicts'[p]) = Len(dicts[p])
      /\ \A c \in 1..Len(dicts[p]) :
           dicts'[p][c].id = dicts[p][c].id /\ dicts'[p][c].state = dicts[p][c].state
      /\ Others(p)
  BY StopTable
<1>2. SameCalls
  BY <1>1 DEF SameCalls, Others
<1>3. QED
  BY <1>2, PopKept DEF Stop

LEMMA SignalsStartCall ==
  ASSUME TypeOK, SignalInv, NEW p \in Peers, StartCall(p) PROVE SignalInv'
<1>1. PICK x \in Ids : x = ids + 1
  BY CallsAssumption DEF StartCall, TypeOK, Ids
<1>2. x \in Ids /\ ids' = x /\ ids \in Nat /\ x \in Nat /\ ids < x
  BY <1>1, CallsAssumption DEF StartCall, TypeOK, Ids
<1>3. Put(p, NewCall(x, "ringing_out")) /\ UNCHANGED window
  BY <1>1 DEF StartCall
<1>4. \A r \in Peers : \A c \in 1..Len(dicts[r]) : dicts[r][c].id # x
  <2>1. \A r \in Peers : \A c \in 1..Len(dicts[r]) :
          dicts[r][c].id <= ids /\ dicts[r][c].id \in Ids
    BY Tables, CallFields DEF SignalInv, Signals, Distinct
  <2>2. Ids \subseteq Nat
    BY CallsAssumption DEF Ids
  <2>3. QED
    BY <1>2, <2>1, <2>2
<1>5. \A r \in Peers : ~Knows(r, x) /\ ~Offered(r, x)
  <2>1. \A r \in Peers : ~Knows(r, x)
    BY <1>4 DEF Knows
  <2>2. QED
    BY <1>2, <2>1, OtherPeer DEF SignalInv, Signals, OffersNew, Knows
<1>6. Other[p] \in Peers /\ Other[p] # p
  BY OtherPeer
<1>7. /\ \A r \in Peers : Ordered(r)'
      /\ \A r \in Peers, y \in Ids :
           /\ Ended(r, y)' => Ended(r, y)
           /\ Answered(r, y)' => Answered(r, y)
           /\ Offered(r, y)' => Offered(r, y) \/ (r = Other[p] /\ y = x)
  <2>1. CASE Send(p, Sig("call_offer", x))
    BY <1>2, <2>1, SendsOne
  <2>2. CASE UNCHANGED net
    BY <2>2, SendsNone
  <2>3. QED
    BY <1>1, <2>1, <2>2 DEF StartCall, Fail
<1>8. ~Offered(p, x)'
  BY <1>2, <1>5, <1>6, <1>7
<1>9. QED
  BY <1>2, <1>3, <1>4, <1>5, <1>6, <1>7, <1>8, PutSignals

LEMMA SignalsOnOffer ==
  ASSUME TypeOK, SignalInv, NEW p \in Peers, OnOffer(p) PROVE SignalInv'
<1> DEFINE x == Id(p)
           q == Other[p]
<1>1. /\ x \in Ids /\ net[p] # <<>> /\ net' = [net EXCEPT ![p] = Tail(@)]
      /\ Head(net[p]).type = "call_offer"
  BY TakesReceived DEF OnOffer
<1>2. Put(p, NewCall(x, "ringing_in")) /\ UNCHANGED window /\ ids' = ids
  BY DEF OnOffer
<1>3. PICK y \in Ids : y = x
  BY <1>1
<1>4. /\ ~Offered(p, y)' /\ \A r \in Peers : Ordered(r)'
      /\ Offered(p, y)
      /\ \A r \in Peers, z \in Ids : /\ Ended(r, z)' => Ended(r, z)
                                     /\ Answered(r, z)' => Answered(r, z)
                                     /\ Offered(r, z)' => Offered(r, z)
  BY <1>1, <1>3, TakesOne
<1>5. q \in Peers /\ ~Knows(p, y)
  BY <1>4, OtherPeer DEF SignalInv, Signals, OffersNew
<1>6. PICK c \in 1..Len(dicts[q]) : dicts[q][c].id = y /\ dicts[q][c].state # "ringing_in"
  BY <1>4 DEF SignalInv, Signals, OffersNew
<1>7. Distinct(q) /\ ids \in Nat
  BY <1>5 DEF SignalInv, Signals, TypeOK
<1>8. \A d \in 1..Len(dicts[q]) : dicts[q][d].id = y => dicts[q][d].state # "ringing_in"
  BY <1>6, <1>7 DEF Distinct
<1>9. y <= ids /\ ids <= ids
  BY <1>6, <1>7 DEF Distinct
<1>10. Put(p, NewCall(y, "ringing_in"))
  BY <1>2, <1>3
<1>11. QED
  BY <1>2, <1>4, <1>5, <1>7, <1>8, <1>9, <1>10, PutSignals

LEMMA SignalsAccept ==
  ASSUME TypeOK, SignalInv, NEW p \in Peers, Accept(p) PROVE SignalInv'
<1>1. ids' = ids /\ dicts' = dicts /\ calls' = calls
  BY DEF Accept, table
<1>2. SameCalls /\ NoneEntered
  BY <1>1, TableKept DEF NoneEntered
<1>3. /\ window[p].call = None /\ \A c \in 1..Len(dicts[p]) : window[p].call # c
      /\ \A r \in Peers \ {p} : window'[r] = window[r]
  <2>1. window[p].call = None
    BY DEF Accept, At, TypeOK
  <2>2. \A r \in Peers \ {p} : window'[r] = window[r]
    BY DEF Accept, Goes, TypeOK
  <2>3. QED
    BY <2>1, <2>2, Tables DEF None
<1>4. \A r \in Peers : \A c \in 1..Len(dicts[r]) :
        window[r].call = c => window'[r].call = c \/ dicts'[r][c].state = "active"
  BY <1>3
<1>5. CASE UNCHANGED net
  BY <1>1, <1>2, <1>4, <1>5, SendsNone, KeepsSignals
<1>6. CASE /\ Has(p) /\ Send(p, Sig("call_answer", Current(p).id))
           /\ window' = [window EXCEPT ![p] = [at |-> "accepting", call |-> calls[p]]]
  <2>1. PICK x \in Ids : x = Current(p).id
    BY <1>6, Tables
  <2>2. /\ \A r \in Peers : Ordered(r)'
        /\ \A r \in Peers, y \in Ids : /\ Offered(r, y)' => Offered(r, y)
                                       /\ Ended(r, y)' => Ended(r, y)
                                       /\ Answered(r, y)' => Answered(r, y) \/ (r = Other[p] /\ y = x)
    BY <1>6, <2>1, SendsOne
  <2>3. window'[p].call = calls[p] /\ calls[p] \in 1..Len(dicts[p])
        /\ dicts[p][calls[p]].id = x
    BY <1>6, <2>1, Tables DEF TypeOK, Current
  <2>4. ASSUME NEW r \in Peers, NEW y \in Ids, Answered(r, y)'
        PROVE  \/ Answered(r, y)
               \/ \E c \in 1..Len(dicts[Other[r]]) :
                    dicts[Other[r]][c].id = y /\ window'[Other[r]].call = c
    BY <2>2, <2>3, <2>4, OtherPeer
  <2>5. QED
    BY <1>1, <1>2, <1>4, <2>2, <2>4, KeepsSignals
<1>7. QED
  BY <1>5, <1>6 DEF Accept, Fail

LEMMA SignalsMedia ==
  ASSUME TypeOK, SignalInv, NEW p \in Peers, AcceptMedia(p) \/ AnswerMedia(p) PROVE SignalInv'
<1>1. PICK inHand \in 1..Len(dicts[p]) :
        /\ StartMedia(p, inHand)
        /\ \/ window' = window
           \/ window[p].call = inHand /\ \A r \in Peers \ {p} : window'[r] = window[r]
  <2>1. CASE AcceptMedia(p)
    BY <2>1, Tables DEF AcceptMedia, Goes, At, None, TypeOK
  <2>2. CASE AnswerMedia(p)
    BY <2>2, Tables DEF AnswerMedia, None, TypeOK
  <2>3. QED
    BY <2>1, <2>2
<1>2. SameCalls /\ NoneEntered /\ dicts'[p][inHand].state = "active"
  BY <1>1, MediaKept
<1>3. \A r \in Peers : \A c \in 1..Len(dicts[r]) :
        window[r].call = c => window'[r].call = c \/ dicts'[r][c].state = "active"
  BY <1>1, <1>2
<1>4. ids' = ids /\ UNCHANGED net
  BY DEF AcceptMedia, AnswerMedia
<1>5. QED
  BY <1>2, <1>3, <1>4, SendsNone, KeepsSignals

LEMMA SignalsLast ==
  ASSUME TypeOK, SignalInv, NEW p \in Peers, Reject(p) \/ Hangup(p) PROVE SignalInv'
<1>1. PICK type \in {"call_reject", "call_end"}, why \in {Rejected(p), {}} : SendLast(p, type, why)
  BY DEF Reject, Hangup
<1>2. ids' = ids /\ SameCalls /\ NoneEntered /\ \A x : ~InCall(p, x)'
  <2>1. CASE Reject(p)
    BY <2>1, TableKept, PopKept DEF Reject
  <2>2. CASE Hangup(p)
    BY <2>2, StopKept DEF Hangup, Stop
  <2>3. QED
    BY <2>1, <2>2
<1>3. \A r \in Peers : \A c \in 1..Len(dicts[r]) : window[r].call = c => window'[r].call = c
  <2>1. window[p].call = None /\ \A r \in Peers \ {p} : window'[r] = window[r]
    BY DEF Reject, Hangup, Free, At, Goes, TypeOK
  <2>2. \A c \in 1..Len(dicts[p]) : c # None
    BY Tables DEF None
  <2>3. QED
    BY <2>1, <2>2
<1>4. CASE UNCHANGED net
  BY <1>2, <1>3, <1>4, SendsNone, KeepsSignals
<1>5. CASE Has(p) /\ Send(p, Sig(type, Current(p).id))
  <2>1. PICK x \in Ids : x = Current(p).id
    BY <1>5, Tables
  <2>2. /\ \A r \in Peers : Ordered(r)'
        /\ \A r \in Peers, y \in Ids : /\ Offered(r, y)' => Offered(r, y)
                                       /\ Answered(r, y)' => Answered(r, y)
                                       /\ Ended(r, y)' => Ended(r, y) \/ (r = Other[p] /\ y = x)
    BY <1>5, <2>1, SendsOne
  <2>3. Knows(p, x)
    BY <1>5, <2>1, Tables DEF Knows, Current
  <2>4. \A r \in Peers, y \in Ids :
          Ended(r, y)' => Ended(r, y) \/ (Knows(Other[r], y) /\ ~InCall(Other[r], y)')
    BY <1>2, <2>2, <2>3, OtherPeer
  <2>5. QED
    BY <1>2, <1>3, <2>2, <2>4, KeepsSignals
<1>6. QED
  BY <1>1, <1>4, <1>5 DEF SendLast, Fail

LEMMA SignalsTaken ==
  ASSUME TypeOK, SignalInv, NEW p \in Peers,
         OnReject(p) \/ OnEnd(p) \/ OnAnswer(p) \/ Lose(p)
  PROVE  SignalInv'
<1>1. /\ Id(p) \in Ids /\ net[p] # <<>> /\ net' = [net EXCEPT ![p] = Tail(@)]
      /\ ids' = ids /\ window' = window
  <2>1. CASE Lose(p)
    BY <2>1, TakesLost DEF Lose, gui
  <2>2. CASE OnReject(p) \/ OnEnd(p) \/ OnAnswer(p)
    BY <2>2, TakesReceived DEF OnReject, OnEnd, OnAnswer, gui
  <2>3. QED
    BY <2>1, <2>2
<1>2. /\ \A r \in Peers : Ordered(r)'
      /\ \A r \in Peers, y \in Ids :
           /\ Offered(r, y)' => Offered(r, y)
           /\ Answered(r, y)' => Answered(r, y)
           /\ Ended(r, y)' => Ended(r, y)
  BY <1>1, TakesOne
<1>3. SameCalls /\ NoneEntered
  <2>1. CASE OnReject(p)
    BY <2>1, TableKept, PopKept DEF OnReject
  <2>2. CASE OnEnd(p)
    BY <2>2, StopKept DEF OnEnd, Stop
  <2>3. CASE OnAnswer(p) \/ Lose(p)
    BY <2>3, TableKept DEF OnAnswer, Lose, table, NoneEntered
  <2>4. QED
    BY <2>1, <2>2, <2>3
<1>4. QED
  BY <1>1, <1>2, <1>3, KeepsSignals

\* The steps that leave the tables and the signals as they are.
Aside(p) ==
  Poll(p) \/ TakeEvent(p) \/ Polled(p) \/ CaptureBegin(p) \/ CaptureEnd(p)

LEMMA AsideKept ==
  ASSUME TypeOK, NEW p \in Peers, Aside(p)
  PROVE  /\ UNCHANGED dicts /\ UNCHANGED calls
         /\ UNCHANGED <<net, ids, relay, joined>>
         /\ \A r \in Peers : window'[r].call = window[r].call
         /\ causes \subseteq causes'
<1>1. \A r \in Peers : window'[r].call = window[r].call
  <2>1. CASE Poll(p) \/ TakeEvent(p) \/ Polled(p)
    <3>1. PICK at \in {"idle", "polling", "asking"} : Goes(p, at)
      BY <2>1 DEF Poll, TakeEvent, Polled
    <3>2. at \in Doing \ {"answered"} /\ window[p].call = None
      BY <2>1 DEF Doing, Poll, TakeEvent, Polled, At, TypeOK
    <3>3. QED
      BY <3>1, <3>2, GoesTo
  <2>2. CASE CaptureBegin(p) \/ CaptureEnd(p)
    BY <2>2 DEF CaptureBegin, CaptureEnd, gui
  <2>3. QED
    BY <2>1, <2>2 DEF Aside
<1>2. QED
  BY <1>1 DEF Aside, Poll, TakeEvent, Polled, CaptureBegin, CaptureEnd, table, history, Fail

LEMMA StepSignals == TypeOK /\ SignalInv /\ [Next]_vars => SignalInv'
<1> SUFFICES ASSUME TypeOK, SignalInv, [Next]_vars PROVE SignalInv'
  OBVIOUS
<1>1. ASSUME NEW p \in Peers, Aside(p) PROVE SignalInv'
  BY <1>1, AsideKept, TableKept, SendsNone, KeepsSignals DEF NoneEntered
<1>2. ASSUME NEW p \in Peers, Window(p) \/ RelayThread(p) \/ Capture(p) \/ Lose(p)
      PROVE  SignalInv'
  BY <1>1, <1>2, SignalsStartCall, SignalsAccept, SignalsMedia, SignalsLast, SignalsOnOffer,
     SignalsTaken
  DEF Window, RelayThread, Capture, Aside
<1>3. CASE UNCHANGED vars
  BY <1>3, TableKept, SendsNone, KeepsSignals DEF vars, NoneEntered
<1>4. QED
  BY <1>2, <1>3 DEF Next

----------------------------------------------------------------------------
(* Who has offered or accepted the calls *)

Both(p) == joined[p] \cap joined[Other[p]]

\* The call of the dictionary c is active, or about to be.
Committed(p, c) == dicts[p][c].state = "active" \/ window[p].call = c \/ relay[p].call = c

\* Who made an offer has joined its call; so has who called and rings.
OffersJoined(p) == \A x \in Ids : Offered(p, x) => x \in joined[Other[p]]
RingsJoined(p) ==
  \A c \in 1..Len(dicts[p]) :
    /\ dicts[p][c].state = "ringing_in" => dicts[p][c].id \in joined[Other[p]]
    /\ dicts[p][c].state = "ringing_out" => dicts[p][c].id \in joined[p]

\* Both have joined a call that is answered, active, or about to be.
AnswersJoint(p) == \A x \in Ids : Answered(p, x) => x \in Both(p)
CommittedJoint(p) ==
  \A c \in 1..Len(dicts[p]) : Committed(p, c) => dicts[p][c].id \in Both(p)

JoinInv ==
  /\ \A p \in Peers : OffersJoined(p) /\ RingsJoined(p)
  /\ Because({"own call"}) \/ \A p \in Peers : AnswersJoint(p) /\ CommittedJoint(p)

LEMMA InitJoined == Init => JoinInv
<1> SUFFICES ASSUME Init, NEW p \in Peers
             PROVE  OffersJoined(p) /\ RingsJoined(p) /\ AnswersJoint(p) /\ CommittedJoint(p)
  BY DEF JoinInv
<1>1. Len(dicts[p]) = 0 /\ Len(net[p]) = 0
  BY DEF Init
<1>2. QED
  BY <1>1 DEF OffersJoined, RingsJoined, AnswersJoint, CommittedJoint, Offered, Answered, Comes

JoinedGrows == \A r \in Peers : joined[r] \subseteq joined'[r] /\ Both(r) \subseteq Both(r)'

LEMMA BothGrows ==
  ASSUME \A r \in Peers : joined[r] \subseteq joined'[r]
  PROVE  JoinedGrows
BY OtherPeer DEF JoinedGrows, Both

\* A step without a new dictionary, after which only a joint call is newly answered
\* or committed.
LEMMA KeepsJoined ==
  ASSUME TypeOK, JoinInv, SameCalls, JoinedGrows, causes \subseteq causes',
         \A r \in Peers, x \in Ids : Offered(r, x)' => Offered(r, x),
         ASSUME ~Because({"own call"})', NEW r \in Peers
         PROVE  /\ \A x \in Ids : Answered(r, x)' => Answered(r, x) \/ x \in Both(r)'
                /\ \A c \in 1..Len(dicts[r]) :
                     Committed(r, c)' => Committed(r, c) \/ dicts[r][c].id \in Both(r)'
  PROVE  JoinInv'
<1>1. ASSUME NEW r \in Peers PROVE OffersJoined(r)' /\ RingsJoined(r)'
  <2>1. OffersJoined(r) /\ RingsJoined(r) /\ Other[r] \in Peers
    BY OtherPeer DEF JoinInv
  <2>2. OffersJoined(r)'
    BY <2>1 DEF OffersJoined, JoinedGrows
  <2>3. RingsJoined(r)'
    BY <2>1 DEF RingsJoined, SameCalls, JoinedGrows
  <2>4. QED
    BY <2>2, <2>3
<1>2. ASSUME ~Because({"own call"})', NEW r \in Peers
      PROVE  AnswersJoint(r)' /\ CommittedJoint(r)'
  <2>1. AnswersJoint(r) /\ CommittedJoint(r)
    BY <1>2 DEF JoinInv, Because
  <2>2. AnswersJoint(r)'
    BY <1>2, <2>1 DEF AnswersJoint, JoinedGrows
  <2>3. ASSUME NEW c \in 1..Len(dicts'[r]), Committed(r, c)' PROVE dicts'[r][c].id \in Both(r)'
    <3>1. c \in 1..Len(dicts[r]) /\ dicts'[r][c].id = dicts[r][c].id
      BY <2>3 DEF SameCalls
    <3>2. Committed(r, c) \/ dicts[r][c].id \in Both(r)'
      BY <1>2, <2>3, <3>1
    <3>3. QED
      BY <2>1, <3>1, <3>2 DEF CommittedJoint, JoinedGrows
  <2>4. QED
    BY <2>2, <2>3 DEF CommittedJoint
<1>3. QED
  BY <1>1, <1>2 DEF JoinInv

\* A step that puts a call into p's table that whoever made the offer has joined.
LEMMA PutJoined ==
  ASSUME TypeOK, JoinInv, NEW p \in Peers, NEW x \in Ids, NEW s \in {"ringing_out", "ringing_in"},
         Put(p, NewCall(x, s)), JoinedGrows, causes \subseteq causes',
         UNCHANGED <<window, relay>>,
         s = "ringing_in" => x \in joined'[Other[p]],
         s = "ringing_out" => x \in joined'[p],
         \A r \in Peers, y \in Ids :
           /\ Offered(r, y)' => Offered(r, y) \/ y \in joined'[Other[r]]
           /\ Answered(r, y)' => Answered(r, y)
  PROVE  JoinInv'
<1> DEFINE n == Len(dicts[p]) + 1
           call == NewCall(x, s)
<1>1. call \in Call /\ call.id = x /\ call.state = s
  BY NewCallFields DEF States
<1> HIDE DEF call
<1>2. /\ Len(dicts'[p]) = n /\ n \in Nat /\ dicts'[p][n] = call
      /\ \A c \in 1..Len(dicts[p]) : dicts'[p][c] = dicts[p][c]
      /\ \A r \in Peers \ {p} : dicts'[r] = dicts[r]
  <2>1. Put(p, call)
    BY DEF call
  <2>2. QED
    BY <1>1, <2>1, PutTable, Tables DEF Others
<1>3. \A r \in Peers : \A c \in 1..Len(dicts'[r]) :
        \/ c \in 1..Len(dicts[r]) /\ dicts'[r][c] = dicts[r][c]
        \/ r = p /\ c = n
  <2>1. Len(dicts[p]) \in Nat /\ \A c \in 1..n : c \in 1..Len(dicts[p]) \/ c = n
    BY Tables
  <2>2. QED
    BY <1>2, <2>1
<1>4. window[p].call # n /\ relay[p].call # n
  <2>1. window[p].call \in 0..Len(dicts[p]) /\ relay[p].call \in 0..Len(dicts[p])
    BY DEF TypeOK
  <2>2. Len(dicts[p]) \in Nat
    BY Tables
  <2>3. QED
    BY <2>1, <2>2
<1>5. ASSUME NEW r \in Peers PROVE OffersJoined(r)' /\ RingsJoined(r)'
  <2>1. OffersJoined(r) /\ RingsJoined(r) /\ Other[r] \in Peers
    BY OtherPeer DEF JoinInv
  <2>2. OffersJoined(r)'
    BY <2>1 DEF OffersJoined, JoinedGrows
  <2>3. ASSUME NEW c \in 1..Len(dicts'[r])
        PROVE  /\ dicts'[r][c].state = "ringing_in" => dicts'[r][c].id \in joined'[Other[r]]
               /\ dicts'[r][c].state = "ringing_out" => dicts'[r][c].id \in joined'[r]
    <3>1. CASE c \in 1..Len(dicts[r]) /\ dicts'[r][c] = dicts[r][c]
      BY <2>1, <3>1 DEF RingsJoined, JoinedGrows
    <3>2. CASE r = p /\ c = n
      BY <1>1, <1>2, <3>2
    <3>3. QED
      BY <1>3, <3>1, <3>2
  <2>4. QED
    BY <2>2, <2>3 DEF RingsJoined
<1>6. ASSUME ~Because({"own call"})', NEW r \in Peers
      PROVE  AnswersJoint(r)' /\ CommittedJoint(r)'
  <2>1. AnswersJoint(r) /\ CommittedJoint(r)
    BY <1>6 DEF JoinInv, Because
  <2>2. AnswersJoint(r)'
    BY <2>1 DEF AnswersJoint, JoinedGrows
  <2>3. ASSUME NEW c \in 1..Len(dicts'[r]), Committed(r, c)' PROVE dicts'[r][c].id \in Both(r)'
    <3>1. CASE c \in 1..Len(dicts[r]) /\ dicts'[r][c] = dicts[r][c]
      <4>1. Committed(r, c)
        BY <2>3, <3>1 DEF Committed
      <4>2. QED
        BY <2>1, <3>1, <4>1 DEF CommittedJoint, JoinedGrows
    <3>2. CASE r = p /\ c = n
      BY <1>1, <1>2, <1>4, <2>3, <3>2 DEF Committed
    <3>3. QED
      BY <1>3, <3>1, <3>2
  <2>4. QED
    BY <2>2, <2>3 DEF CommittedJoint
<1>7. QED
  BY <1>5, <1>6 DEF JoinInv

LEMMA CausesGrow == ASSUME TypeOK, [Next]_vars PROVE causes \subseteq causes'
<1>1. ASSUME NEW p \in Peers, Window(p) \/ RelayThread(p) \/ Capture(p) \/ Lose(p)
      PROVE  causes \subseteq causes'
  <2>1. CASE StartCall(p) \/ Accept(p) \/ OnOffer(p) \/ OnReject(p) \/ OnEnd(p) \/ Lose(p)
    BY <2>1 DEF StartCall, Accept, OnOffer, OnReject, OnEnd, Lose
  <2>2. CASE AcceptMedia(p) \/ AnswerMedia(p)
    BY <2>2 DEF AcceptMedia, AnswerMedia, StartMedia
  <2>3. CASE Reject(p) \/ Hangup(p)
    BY <2>3 DEF Reject, Hangup, SendLast
  <2>4. CASE Aside(p)
    BY <2>4, AsideKept
  <2>5. CASE OnAnswer(p)
    BY <2>5 DEF OnAnswer, history
  <2>6. QED
    BY <1>1, <2>1, <2>2, <2>3, <2>4, <2>5 DEF Window, RelayThread, Capture, Aside
<1>2. QED
  BY <1>1 DEF Next, vars

LEMMA JoinedStartCall ==
  ASSUME TypeOK, SignalInv, JoinInv, NEW p \in Peers, StartCall(p), causes \subseteq causes'
  PROVE  JoinInv'
<1>1. PICK x \in Ids : x = ids + 1
  BY CallsAssumption DEF StartCall, TypeOK, Ids
<1>2. Put(p, NewCall(x, "ringing_out")) /\ UNCHANGED <<window, relay>>
  BY <1>1 DEF StartCall
<1>3. joined' = [joined EXCEPT ![p] = @ \cup {x}]
  BY <1>1 DEF StartCall
<1>4. /\ \A r \in Peers : joined[r] \subseteq joined'[r]
      /\ x \in joined'[p]
  BY <1>3 DEF TypeOK
<1>5. JoinedGrows
  BY <1>4, BothGrows
<1>6. \A r \in Peers, y \in Ids :
        /\ Offered(r, y)' => Offered(r, y) \/ (r = Other[p] /\ y = x)
        /\ Answered(r, y)' => Answered(r, y)
  <2>1. CASE Send(p, Sig("call_offer", x))
    BY <2>1, SendsOne
  <2>2. CASE UNCHANGED net
    BY <2>2, SendsNone
  <2>3. QED
    BY <1>1, <2>1, <2>2 DEF StartCall, Fail
<1>7. \A r \in Peers, y \in Ids :
        /\ Offered(r, y)' => Offered(r, y) \/ y \in joined'[Other[r]]
        /\ Answered(r, y)' => Answered(r, y)
  BY <1>4, <1>6, OtherPeer
<1>8. QED
  BY <1>2, <1>4, <1>5, <1>7, PutJoined

LEMMA JoinedOnOffer ==
  ASSUME TypeOK, SignalInv, JoinInv, NEW p \in Peers, OnOffer(p), causes \subseteq causes'
  PROVE  JoinInv'
<1>1. /\ Id(p) \in Ids /\ net[p] # <<>> /\ net' = [net EXCEPT ![p] = Tail(@)]
      /\ Head(net[p]).type = "call_offer"
  BY TakesReceived DEF OnOffer
<1>2. PICK x \in Ids : x = Id(p)
  BY <1>1
<1>3. Put(p, NewCall(x, "ringing_in")) /\ UNCHANGED <<window, relay>> /\ joined' = joined
  BY <1>2 DEF OnOffer
<1>4. /\ Offered(p, x)
      /\ \A r \in Peers, y \in Ids : /\ Offered(r, y)' => Offered(r, y)
                                     /\ Answered(r, y)' => Answered(r, y)
  BY <1>1, <1>2, TakesOne
<1>5. x \in joined'[Other[p]]
  BY <1>3, <1>4 DEF JoinInv, OffersJoined
<1>6. JoinedGrows
  BY <1>3, BothGrows
<1>7. QED
  BY <1>3, <1>4, <1>5, <1>6, PutJoined

LEMMA JoinedAccept ==
  ASSUME TypeOK, SignalInv, JoinInv, NEW p \in Peers, Accept(p), causes \subseteq causes'
  PROVE  JoinInv'
<1>1. dicts' = dicts /\ relay' = relay
  BY DEF Accept, table
<1>2. SameCalls
  BY <1>1, TableKept
<1>3. CASE /\ joined' = joined /\ UNCHANGED net
           /\ \A r \in Peers : window'[r].call \in {window[r].call, None}
  <2>1. JoinedGrows
    BY <1>3, BothGrows
  <2>2. \A r \in Peers : \A c \in 1..Len(dicts[r]) : Committed(r, c)' => Committed(r, c)
    BY <1>1, <1>3, Tables DEF Committed, None
  <2>3. QED
    BY <1>2, <1>3, <2>1, <2>2, SendsNone, KeepsJoined
<1>4. CASE /\ Has(p)
           /\ Send(p, Sig("call_answer", Current(p).id))
           /\ window' = [window EXCEPT ![p] = [at |-> "accepting", call |-> calls[p]]]
           /\ joined' = [joined EXCEPT ![p] = @ \cup {Current(p).id}]
           /\ causes' = causes \cup OwnCall(p)
  <2>1. PICK x \in Ids : x = Current(p).id
    BY <1>4, Tables
  <2>2. calls[p] \in 1..Len(dicts[p]) /\ dicts[p][calls[p]] \in Call
        /\ dicts[p][calls[p]].id = x
    BY <1>4, <2>1, Tables DEF Current
  <2>3. x \in joined'[p] /\ \A r \in Peers : joined[r] \subseteq joined'[r]
    BY <1>4, <2>1 DEF TypeOK
  <2>4. JoinedGrows
    BY <2>3, BothGrows
  <2>5. \A r \in Peers, y \in Ids : /\ Offered(r, y)' => Offered(r, y)
                                    /\ Answered(r, y)' => Answered(r, y) \/ (r = Other[p] /\ y = x)
    BY <1>4, <2>1, SendsOne
  <2>6. \A r \in Peers : \A c \in 1..Len(dicts[r]) :
          Committed(r, c)' => Committed(r, c) \/ (r = p /\ c = calls[p])
    BY <1>1, <1>4, <2>2 DEF Committed, TypeOK
  <2>7. ASSUME ~Because({"own call"})' PROVE x \in Both(p)' /\ x \in Both(Other[p])'
    <3>1. dicts[p][calls[p]].state \in {"ringing_in", "active"} /\ ~Because({"own call"})
      BY <1>4, <2>2, <2>7, CallFields DEF Because, OwnCall, Current, States
    <3>2. CASE dicts[p][calls[p]].state = "ringing_in"
      <4>1. x \in joined[Other[p]]
        BY <2>2, <3>2 DEF JoinInv, RingsJoined
      <4>2. QED
        BY <2>3, <4>1, OtherPeer DEF Both
    <3>3. CASE dicts[p][calls[p]].state = "active"
      <4>1. x \in Both(p)
        BY <2>2, <3>1, <3>3 DEF JoinInv, CommittedJoint, Committed
      <4>2. QED
        BY <2>3, <4>1, OtherPeer DEF Both
    <3>4. QED
      BY <3>1, <3>2, <3>3
  <2>8. ASSUME ~Because({"own call"})', NEW r \in Peers
        PROVE  /\ \A y \in Ids : Answered(r, y)' => Answered(r, y) \/ y \in Both(r)'
               /\ \A c \in 1..Len(dicts[r]) :
                    Committed(r, c)' => Committed(r, c) \/ dicts[r][c].id \in Both(r)'
    BY <2>2, <2>5, <2>6, <2>7, <2>8
  <2>9. QED
    BY <1>2, <2>4, <2>5, <2>8, KeepsJoined
<1>5. QED
  <2>1. Goes(p, "polling") \/ Goes(p, "dead") =>
          \A r \in Peers : window'[r].call \in {window[r].call, None}
    <3>1. "polling" \in Doing \ {"answered"} /\ "dead" \in Doing \ {"answered"}
      BY DEF Doing
    <3>2. QED
      BY <3>1, GoesTo
  <2>2. QED
    BY <1>3, <1>4, <2>1 DEF Accept, Fail

LEMMA JoinedMedia ==
  ASSUME TypeOK, SignalInv, JoinInv, NEW p \in Peers, AcceptMedia(p) \/ AnswerMedia(p),
         causes \subseteq causes'
  PROVE  JoinInv'
<1>1. PICK inHand \in 1..Len(dicts[p]) :
        /\ StartMedia(p, inHand) /\ Committed(p, inHand)
        /\ \A r \in Peers : /\ window'[r].call \in {window[r].call, None}
                            /\ relay'[r].call \in {relay[r].call, None}
  <2>1. CASE AcceptMedia(p)
    BY <2>1, Tables DEF AcceptMedia, Goes, At, None, TypeOK, Committed
  <2>2. CASE AnswerMedia(p)
    BY <2>2, Tables DEF AnswerMedia, None, Idle, TypeOK, Committed
  <2>3. QED
    BY <2>1, <2>2
<1>2. SameCalls
  BY <1>1, MediaKept
<1>3. joined' = joined /\ UNCHANGED net
  BY DEF AcceptMedia, AnswerMedia
<1>4. JoinedGrows
  BY <1>3, BothGrows
<1>5. \A r \in Peers : \A c \in 1..Len(dicts[r]) : Committed(r, c)' => Committed(r, c)
  <2>1. /\ \A c \in 1..Len(dicts[p]) :
             dicts'[p][c].state = IF c = inHand THEN "active" ELSE dicts[p][c].state
        /\ \A r \in Peers \ {p} : dicts'[r] = dicts[r]
    BY <1>1, MediaTable DEF Others
  <2>2. \A r \in Peers : \A c \in 1..Len(dicts[r]) : c # None
    BY Tables DEF None
  <2>3. QED
    BY <1>1, <2>1, <2>2 DEF Committed
<1>6. QED
  BY <1>2, <1>3, <1>4, <1>5, SendsNone, KeepsJoined

LEMMA JoinedOnAnswer ==
  ASSUME TypeOK, SignalInv, JoinInv, NEW p \in Peers, OnAnswer(p), causes \subseteq causes'
  PROVE  JoinInv'
<1>1. /\ Id(p) \in Ids /\ net[p] # <<>> /\ net' = [net EXCEPT ![p] = Tail(@)]
      /\ Head(net[p]).type = "call_answer"
  BY TakesReceived DEF OnAnswer
<1>2. PICK x \in Ids : x = Id(p)
  BY <1>1
<1>3. dicts' = dicts /\ window' = window /\ joined' = joined
  BY DEF OnAnswer, table, gui, history
<1>4. /\ Answered(p, x)
      /\ \A r \in Peers, y \in Ids : /\ Offered(r, y)' => Offered(r, y)
                                     /\ Answered(r, y)' => Answered(r, y)
  BY <1>1, <1>2, TakesOne
<1>5. JoinedGrows /\ SameCalls
  BY <1>3, BothGrows, TableKept
<1>6. \A r \in Peers : \A c \in 1..Len(dicts[r]) :
        Committed(r, c)' => Committed(r, c) \/ (r = p /\ dicts[r][c].id = x)
  <2>1. CASE relay' = relay
    BY <1>3, <2>1 DEF Committed
  <2>2. CASE Answers(p, Id(p))
    BY <1>2, <1>3, <2>2 DEF OnAnswer, Answers, Current, Committed, TypeOK
  <2>3. QED
    BY <2>1, <2>2 DEF OnAnswer
<1>7. ASSUME ~Because({"own call"})', NEW r \in Peers
      PROVE  \A c \in 1..Len(dicts[r]) :
               Committed(r, c)' => Committed(r, c) \/ dicts[r][c].id \in Both(r)'
  <2>1. x \in Both(p)
    BY <1>4, <1>7 DEF JoinInv, AnswersJoint, Because
  <2>2. QED
    BY <1>5, <1>6, <2>1 DEF JoinedGrows
<1>8. QED
  BY <1>4, <1>5, <1>7, KeepsJoined

LEMMA JoinedRest ==
  ASSUME TypeOK, SignalInv, JoinInv, NEW p \in Peers, causes \subseteq causes',
         Reject(p) \/ Hangup(p) \/ OnReject(p) \/ OnEnd(p) \/ Lose(p) \/ Aside(p)
  PROVE  JoinInv'
<1>1. relay' = relay /\ joined' = joined /\ \A r \in Peers : window'[r].call = window[r].call
  <2>1. CASE Reject(p)
    <3>1. window[p].call = None
      BY <2>1 DEF Reject, At, TypeOK
    <3>2. QED
      BY <2>1, <3>1 DEF Reject, Goes, TypeOK
  <2>2. CASE Hangup(p) \/ OnReject(p) \/ OnEnd(p) \/ Lose(p)
    BY <2>2 DEF Hangup, OnReject, OnEnd, Lose, gui
  <2>3. CASE Aside(p)
    BY <2>3, AsideKept
  <2>4. QED
    BY <2>1, <2>2, <2>3
<1>2. /\ SameCalls
      /\ \A r \in Peers : \A c \in 1..Len(dicts[r]) : dicts'[r][c].state = dicts[r][c].state
  <2>1. CASE Reject(p) \/ OnReject(p) \/ Lose(p)
    BY <2>1, TableKept DEF Reject, OnReject, Lose, table
  <2>2. CASE Aside(p)
    BY <2>2, AsideKept, TableKept
  <2>3. CASE Hangup(p) \/ OnEnd(p)
    <3>1. Stop(p)
      BY <2>3 DEF Hangup, OnEnd, Stop
    <3>2. QED
      BY <3>1, StopKept, StopTable DEF Others
  <2>4. QED
    BY <2>1, <2>2, <2>3
<1>3. \A r \in Peers, y \in Ids : /\ Offered(r, y)' => Offered(r, y)
                                  /\ Answered(r, y)' => Answered(r, y)
  <2>1. CASE Reject(p) \/ Hangup(p)
    <3>1. PICK type \in {"call_reject", "call_end"}, why \in {Rejected(p), {}} : SendLast(p, type, why)
      BY <2>1 DEF Reject, Hangup
    <3>2. CASE UNCHANGED net
      BY <3>2, SendsNone
    <3>3. CASE Has(p) /\ Send(p, Sig(type, Current(p).id))
      <4>1. PICK x \in Ids : x = Current(p).id
        BY <3>3, Tables
      <4>2. QED
        BY <3>3, <4>1, SendsOne
    <3>4. QED
      BY <3>1, <3>2, <3>3 DEF SendLast, Fail
  <2>2. CASE OnReject(p) \/ OnEnd(p) \/ Lose(p)
    <3>1. Id(p) \in Ids /\ net[p] # <<>> /\ net' = [net EXCEPT ![p] = Tail(@)]
      BY <2>2, TakesReceived, TakesLost DEF OnReject, OnEnd
    <3>2. QED
      BY <3>1, TakesOne
  <2>3. CASE Aside(p)
    BY <2>3, AsideKept, SendsNone
  <2>4. QED
    BY <2>1, <2>2, <2>3
<1>4. JoinedGrows
  BY <1>1, BothGrows
<1>5. \A r \in Peers : \A c \in 1..Len(dicts[r]) : Committed(r, c)' => Committed(r, c)
  BY <1>1, <1>2 DEF Committed
<1>6. QED
  BY <1>2, <1>3, <1>4, <1>5, KeepsJoined

LEMMA StepJoined == TypeOK /\ SignalInv /\ JoinInv /\ [Next]_vars => JoinInv'
<1> SUFFICES ASSUME TypeOK, SignalInv, JoinInv, [Next]_vars PROVE JoinInv'
  OBVIOUS
<1>1. causes \subseteq causes'
  BY CausesGrow
<1>2. ASSUME NEW p \in Peers, Window(p) \/ RelayThread(p) \/ Capture(p) \/ Lose(p)
      PROVE  JoinInv'
  BY <1>1, <1>2, JoinedStartCall, JoinedAccept, JoinedMedia, JoinedOnOffer, JoinedOnAnswer,
     JoinedRest
  DEF Window, RelayThread, Capture, Aside
<1>3. CASE UNCHANGED vars
  BY <1>3 DEF vars, JoinInv, OffersJoined, RingsJoined, AnswersJoint, CommittedJoint, Both,
              Offered, Answered, Comes, Committed, Because
<1>4. QED
  BY <1>2, <1>3 DEF Next

----------------------------------------------------------------------------
(* Whose microphone is on *)

HeardCauses == {"replaced", "reject", "late", "own call"}

\* Media run for the call that p has, and that p offered or accepted.
MediaJoined(p) ==
  \A c \in 1..Len(dicts[p]) :
    dicts[p][c].stop_event = "clear" => c = calls[p] /\ dicts[p][c].id \in joined[p]
MediaInv == Because(HeardCauses) \/ \A p \in Peers : MediaJoined(p)

LEMMA InitMedia == Init => MediaInv
<1> SUFFICES ASSUME Init, NEW p \in Peers PROVE MediaJoined(p)
  BY DEF MediaInv
<1>1. Len(dicts[p]) = 0
  BY DEF Init
<1>2. QED
  BY <1>1 DEF MediaJoined

LEMMA MediaOthers ==
  ASSUME NEW p \in Peers, NEW r \in Peers \ {p}, MediaJoined(r),
         dicts'[r] = dicts[r], calls'[r] = calls[r], joined[r] \subseteq joined'[r]
  PROVE  MediaJoined(r)'
BY DEF MediaJoined

LEMMA PutMedia ==
  ASSUME TypeOK, NEW p \in Peers, NEW x \in Ids, NEW s \in {"ringing_out", "ringing_in"},
         Put(p, NewCall(x, s)), MediaJoined(p), ~Has(p)
  PROVE  MediaJoined(p)' /\ Others(p)
<1>1. NewCall(x, s) \in Call /\ NewCall(x, s).stop_event = "absent"
  BY NewCallFields DEF States
<1>2. /\ Len(dicts'[p]) = Len(dicts[p]) + 1 /\ dicts'[p][Len(dicts[p]) + 1].stop_event = "absent"
      /\ \A c \in 1..Len(dicts[p]) : dicts'[p][c] = dicts[p][c]
      /\ Others(p)
  BY <1>1, PutTable
<1>3. \A c \in 1..Len(dicts[p]) : dicts[p][c].stop_event # "clear"
  BY Tables DEF MediaJoined, Has, None
<1>4. ASSUME NEW c \in 1..Len(dicts'[p]) PROVE dicts'[p][c].stop_event # "clear"
  <2>1. c \in 1..Len(dicts[p]) \/ c = Len(dicts[p]) + 1
    BY <1>2, Tables
  <2>2. QED
    BY <1>2, <1>3, <2>1
<1>5. QED
  BY <1>2, <1>4 DEF MediaJoined

LEMMA MediaStep ==
  ASSUME TypeOK, JoinInv, MediaInv, NEW p \in Peers, causes \subseteq causes',
         ~Because(HeardCauses)',
         Window(p) \/ RelayThread(p) \/ Capture(p) \/ Lose(p)
  PROVE  \A r \in Peers : MediaJoined(r)'
<1>1. /\ ~Because(HeardCauses) /\ ~Because({"own call"})
      /\ \A r \in Peers : MediaJoined(r)
      /\ \A why \in HeardCauses : why \notin causes'
  BY DEF MediaInv, Because, HeardCauses
<1>2. ASSUME Others(p), MediaJoined(p)', \A r \in Peers : joined[r] \subseteq joined'[r]
      PROVE  \A r \in Peers : MediaJoined(r)'
  BY <1>1, <1>2, MediaOthers DEF Others
<1>3. ASSUME UNCHANGED dicts, UNCHANGED calls, \A r \in Peers : joined[r] \subseteq joined'[r]
      PROVE  \A r \in Peers : MediaJoined(r)'
  BY <1>1, <1>3 DEF MediaJoined
<1>4. CASE StartCall(p)
  <2>1. PICK x \in Ids : x = ids + 1
    BY <1>4, CallsAssumption DEF StartCall, TypeOK, Ids
  <2>2. Put(p, NewCall(x, "ringing_out")) /\ ~Has(p)
    BY <1>1, <1>4, <2>1 DEF StartCall, Replaced, HeardCauses
  <2>3. \A r \in Peers : joined[r] \subseteq joined'[r]
    BY <1>4 DEF StartCall, TypeOK
  <2>4. QED
    BY <1>1, <1>2, <2>2, <2>3, PutMedia
<1>5. CASE OnOffer(p)
  <2>1. PICK x \in Ids : x = Id(p)
    BY <1>5, ReceivedTypes DEF OnOffer
  <2>2. Put(p, NewCall(x, "ringing_in")) /\ ~Has(p) /\ joined' = joined
    BY <1>1, <1>5, <2>1 DEF OnOffer, Replaced, HeardCauses
  <2>3. QED
    BY <1>1, <1>2, <2>2, PutMedia
<1>6. CASE Accept(p)
  <2>1. joined' = joined \/ joined' = [joined EXCEPT ![p] = @ \cup {Current(p).id}]
    BY <1>6 DEF Accept
  <2>2. \A r \in Peers : joined[r] \subseteq joined'[r]
    <3>1. joined \in [Peers -> SUBSET Ids]
      BY DEF TypeOK
    <3>2. QED
      BY <2>1, <3>1
  <2>3. UNCHANGED dicts /\ UNCHANGED calls
    BY <1>6 DEF Accept, table
  <2>4. QED
    BY <1>3, <2>2, <2>3
<1>7. CASE AcceptMedia(p) \/ AnswerMedia(p)
  <2>1. PICK inHand \in 1..Len(dicts[p]) : StartMedia(p, inHand) /\ Committed(p, inHand)
    <3>1. CASE AcceptMedia(p)
      BY <3>1, Tables DEF AcceptMedia, At, None, TypeOK, Committed
    <3>2. CASE AnswerMedia(p)
      BY <3>2, Tables DEF AnswerMedia, None, TypeOK, Committed
    <3>3. QED
      BY <1>7, <3>1, <3>2
  <2>2. /\ calls' = calls /\ Len(dicts'[p]) = Len(dicts[p])
        /\ \A c \in 1..Len(dicts[p]) :
             /\ dicts'[p][c].id = dicts[p][c].id
             /\ dicts'[p][c].stop_event =
                  IF Has(p) /\ c = calls[p] THEN "clear" ELSE dicts[p][c].stop_event
        /\ Others(p)
    BY <2>1, MediaTable
  <2>3. joined' = joined
    BY <1>7 DEF AcceptMedia, AnswerMedia
  <2>4. Has(p) => calls[p] = inHand
    BY <1>1, <2>1 DEF StartMedia, HeardCauses
  <2>5. dicts[p][inHand].id \in joined[p]
    BY <1>1, <2>1 DEF JoinInv, CommittedJoint, Both
  <2>6. ASSUME NEW c \in 1..Len(dicts'[p]), dicts'[p][c].stop_event = "clear"
        PROVE  c = calls'[p] /\ dicts'[p][c].id \in joined'[p]
    <3>1. c \in 1..Len(dicts[p]) /\ dicts'[p][c].id = dicts[p][c].id
      BY <2>2, <2>6
    <3>2. CASE Has(p) /\ c = calls[p]
      BY <2>2, <2>3, <2>4, <2>5, <3>1, <3>2
    <3>3. CASE ~(Has(p) /\ c = calls[p])
      <4>1. dicts[p][c].stop_event = "clear"
        BY <2>2, <2>6, <3>1, <3>3
      <4>2. QED
        BY <1>1, <2>2, <2>3, <3>1, <4>1 DEF MediaJoined
    <3>4. QED
      BY <3>2, <3>3
  <2>7. QED
    BY <1>2, <2>2, <2>3, <2>6 DEF MediaJoined
<1>8. CASE Hangup(p) \/ OnEnd(p)
  <2>1. Stop(p) /\ joined' = joined
    BY <1>8 DEF Hangup, OnEnd, Stop
  <2>2. /\ Len(dicts'[p]) = Len(dicts[p])
        /\ \A c \in 1..Len(dicts[p]) : /\ c # calls[p] => dicts'[p][c] = dicts[p][c]
                                       /\ c = calls[p] => dicts'[p][c].stop_event # "clear"
        /\ Others(p)
    BY <2>1, StopTable
  <2>3. \A c \in 1..Len(dicts'[p]) : dicts'[p][c].stop_event # "clear"
    BY <1>1, <2>2 DEF MediaJoined
  <2>4. QED
    BY <1>2, <2>1, <2>2, <2>3 DEF MediaJoined
<1>9. CASE Reject(p) \/ OnReject(p)
  <2>1. dicts' = dicts /\ joined' = joined /\ Pop(p)
    BY <1>9 DEF Reject, OnReject
  <2>2. Has(p) => Rejected(p) \subseteq causes'
    BY <1>9 DEF Reject, OnReject, SendLast
  <2>3. Has(p) => Current(p).stop_event # "clear"
    BY <1>1, <2>2 DEF Rejected, HeardCauses
  <2>4. \A c \in 1..Len(dicts[p]) : dicts[p][c].stop_event # "clear"
    <3>1. ASSUME NEW c \in 1..Len(dicts[p]), dicts[p][c].stop_event = "clear" PROVE FALSE
      <4>1. c = calls[p] /\ c # 0
        <5>1. MediaJoined(p) /\ Len(dicts[p]) \in Nat
          BY <1>1, Tables
        <5>2. QED
          BY <3>1, <5>1 DEF MediaJoined
      <4>2. QED
        BY <2>3, <3>1, <4>1 DEF Has, Current, None
    <3>2. QED
      BY <3>1
  <2>5. Others(p) /\ MediaJoined(p)'
    BY <2>1, <2>4, PopTable DEF Others, MediaJoined
  <2>6. QED
    BY <1>2, <2>1, <2>5
<1>10. CASE OnAnswer(p) \/ Lose(p) \/ Aside(p)
  <2>1. UNCHANGED dicts /\ UNCHANGED calls /\ UNCHANGED joined
    BY <1>10, AsideKept DEF OnAnswer, Lose, table, history
  <2>2. QED
    BY <1>3, <2>1
<1>11. QED
  BY <1>4, <1>5, <1>6, <1>7, <1>8, <1>9, <1>10 DEF Window, RelayThread, Capture, Aside

LEMMA StepMedia == TypeOK /\ JoinInv /\ MediaInv /\ [Next]_vars => MediaInv'
<1> SUFFICES ASSUME TypeOK, JoinInv, MediaInv, [Next]_vars PROVE MediaInv'
  OBVIOUS
<1>1. causes \subseteq causes'
  BY CausesGrow
<1>2. CASE Because(HeardCauses)'
  BY <1>2 DEF MediaInv
<1>3. ASSUME ~Because(HeardCauses)', NEW p \in Peers,
             Window(p) \/ RelayThread(p) \/ Capture(p) \/ Lose(p)
      PROVE  MediaInv'
  BY <1>1, <1>3, MediaStep DEF MediaInv
<1>4. CASE UNCHANGED vars
  BY <1>4 DEF vars, MediaInv, MediaJoined, Because
<1>5. QED
  BY <1>2, <1>3, <1>4 DEF Next

LEMMA HeardInCall == TypeOK /\ MediaInv => HeardWhenJoinedBreaks
<1> SUFFICES ASSUME TypeOK, \A p \in Peers : MediaJoined(p), NEW p \in Peers
             PROVE  Heard(p) \subseteq joined[p]
  BY DEF MediaInv, HeardWhenJoinedBreaks, HeardWhenJoined, HeardCauses
<1>1. ASSUME Has(p), NEW c \in capture[p], dicts[p][c].stop_event = "clear"
      PROVE  Current(p).id \in joined[p]
  <2>1. c \in 1..Len(dicts[p])
    BY DEF TypeOK
  <2>2. QED
    BY <1>1, <2>1 DEF MediaJoined, Current
<1>2. QED
  BY <1>1 DEF Heard

----------------------------------------------------------------------------
(* Whether the two peers agree *)

PartCauses == {"failed", "lost", "replaced", "other id"}

\* p's call is active, or about to be.
Starting(p) == Has(p) /\ Committed(p, calls[p])

\* Who offered is still in the call, or has told that it is not.
OfferStands(p) ==
  \A x \in Ids : Offered(p, x) => InCall(Other[p], x) \/ Ended(p, x)

\* So is the other of the two in a call, unless the offer is still on its way.
CallStands(p) ==
  \A x \in Ids : InCall(p, x) =>
    Offered(Other[p], x) \/ InCall(Other[p], x) \/ Ended(p, x)

\* Where one peer starts the call, the other does, or has the answer to come.
AnswerStands(p) ==
  \A x \in Ids :
    /\ InCall(p, x) /\ Starting(p)
    /\ InCall(Other[p], x) \/ Offered(Other[p], x)
    => Answered(Other[p], x) \/ (InCall(Other[p], x) /\ Starting(Other[p]))

Stands(p) == OfferStands(p) /\ CallStands(p) /\ AnswerStands(p)
AgreeInv == Because(PartCauses) \/ \A p \in Peers : Stands(p)

LEMMA InitAgree == Init => AgreeInv
<1> SUFFICES ASSUME Init, NEW p \in Peers PROVE Stands(p)
  BY DEF AgreeInv
<1>1. Len(net[p]) = 0 /\ calls[p] = None
  BY DEF Init
<1>2. QED
  BY <1>1 DEF Stands, OfferStands, CallStands, AnswerStands, Offered, Comes, InCall, Has

\* When every signal is handled, that is agreement.
LEMMA StandsAgree == TypeOK /\ SignalInv /\ AgreeInv => AgreementBreaks
<1> SUFFICES ASSUME TypeOK, SignalInv, \A p \in Peers : Stands(p), Quiet PROVE Agree
  BY DEF AgreeInv, AgreementBreaks, PartCauses
<1>1. ASSUME NEW p \in Peers
      PROVE  /\ \A x : ~Offered(p, x) /\ ~Ended(p, x) /\ ~Answered(p, x)
             /\ Starting(p) => Current(p).state = "active"
  <2>1. net[p] = <<>> /\ relay[p].at = "idle" /\ ~At(p, "accepting")
    BY DEF Quiet
  <2>2. Len(net[p]) = 0
    BY <2>1
  <2>3. window[p].call = None /\ relay[p].call = None
    BY <2>1 DEF TypeOK
  <2>4. QED
    BY <2>2, <2>3 DEF Offered, Ended, Answered, Comes, Starting, Committed, Has, Current
<1>2. ASSUME NEW p \in Peers, Has(p), NEW q \in Peers, q = Other[p]
      PROVE  /\ Has(q) /\ Current(p).id = Current(q).id
             /\ \/ Current(p).state = "active" /\ Current(q).state = "active"
                \/ Current(p).state = "ringing_out" /\ Current(q).state = "ringing_in"
                \/ Current(p).state = "ringing_in" /\ Current(q).state = "ringing_out"
  <2>1. PICK x \in Ids : x = Current(p).id
    BY <1>2, Tables
  <2>2. InCall(p, x) /\ InCall(q, x)
    BY <1>1, <1>2, <2>1 DEF Stands, CallStands, InCall
  <2>3. /\ Current(p).id = x /\ Current(q).id = x /\ Has(q)
        /\ calls[p] \in 1..Len(dicts[p]) /\ calls[q] \in 1..Len(dicts[q])
        /\ Current(p).state \in States /\ Current(q).state \in States
    BY <1>2, <2>2, Tables, CallFields DEF InCall
  <2>4. Current(p).state = "active" => Current(q).state = "active"
    BY <1>1, <1>2, <2>2 DEF Stands, AnswerStands, Starting, Committed, Current, InCall
  <2>5. Current(q).state = "active" => Current(p).state = "active"
    <3>1. Other[q] = p
      BY <1>2, OtherPeer
    <3>2. QED
      BY <1>1, <1>2, <2>2, <3>1 DEF Stands, AnswerStands, Starting, Committed, Current, InCall
  <2>6. Current(p).state = Current(q).state => Current(p).state = "active"
    BY <1>2, <2>3 DEF SignalInv, Signals, RingsApart, Current
  <2>7. QED
    BY <2>3, <2>4, <2>5, <2>6 DEF States
<1>3. QED
  BY <1>2, OtherPeer DEF Agree

\* A peer that leaves its call tells the other, or was told by it.
LEMMA LeavesStand ==
  ASSUME TypeOK, SignalInv, \A r \in Peers : Stands(r), SameCalls, NEW p \in Peers,
         calls'[p] = None, \A r \in Peers \ {p} : calls'[r] = calls[r],
         \A r \in Peers \ {p} : Starting(r)' <=> Starting(r),
         \A r \in Peers, y \in Ids :
           /\ Offered(r, y)' <=> Offered(r, y)
           /\ Answered(r, y)' <=> Answered(r, y)
           /\ Ended(r, y) => Ended(r, y)' \/ (r = p /\ ~Offered(p, y)'),
         \A y \in Ids : InCall(p, y) =>
           \/ Ended(Other[p], y)'
           \/ ~InCall(Other[p], y) /\ ~Offered(Other[p], y)
  PROVE  \A r \in Peers : Stands(r)'
<1>1. \A y : ~InCall(p, y)'
  BY DEF InCall, Has
<1>2. \A r \in Peers \ {p}, y \in Ids : InCall(r, y)' <=> InCall(r, y)
  BY SameKnown
<1> SUFFICES ASSUME NEW r \in Peers PROVE Stands(r)'
  OBVIOUS
<1> DEFINE q == Other[r]
<1>3. q \in Peers /\ q # r /\ Other[q] = r /\ Stands(r)
  BY OtherPeer
<1>4. OfferStands(r)'
  <2>1. ASSUME NEW y \in Ids, Offered(r, y)' PROVE InCall(q, y)' \/ Ended(r, y)'
    <3>1. InCall(q, y) \/ Ended(r, y)
      BY <1>3, <2>1 DEF Stands, OfferStands
    <3>2. CASE Ended(r, y)
      BY <2>1, <3>2
    <3>3. CASE InCall(q, y) /\ q = p
      BY <1>3, <2>1, <3>3
    <3>4. CASE InCall(q, y) /\ q # p
      BY <1>2, <1>3, <3>4
    <3>5. QED
      BY <3>1, <3>2, <3>3, <3>4
  <2>2. QED
    BY <2>1 DEF OfferStands
<1>5. CallStands(r)'
  <2>1. ASSUME NEW y \in Ids, InCall(r, y)' PROVE Offered(q, y)' \/ InCall(q, y)' \/ Ended(r, y)'
    <3>1. r # p /\ InCall(r, y)
      BY <1>1, <1>2, <2>1
    <3>2. Offered(q, y) \/ InCall(q, y) \/ Ended(r, y)
      BY <1>3, <3>1 DEF Stands, CallStands
    <3>3. CASE Offered(q, y) \/ Ended(r, y)
      BY <1>3, <3>1, <3>3
    <3>4. CASE InCall(q, y) /\ q = p
      BY <1>3, <3>1, <3>4
    <3>5. CASE InCall(q, y) /\ q # p
      BY <1>2, <1>3, <3>5
    <3>6. QED
      BY <3>2, <3>3, <3>4, <3>5
  <2>2. QED
    BY <2>1 DEF CallStands
<1>6. AnswerStands(r)'
  <2>1. ASSUME NEW y \in Ids, InCall(r, y)', Starting(r)', InCall(q, y)' \/ Offered(q, y)'
        PROVE  Answered(q, y)' \/ (InCall(q, y)' /\ Starting(q)')
    <3>1. r # p /\ InCall(r, y) /\ Starting(r)
      BY <1>1, <1>2, <2>1
    <3>2. InCall(q, y) \/ Offered(q, y)
      BY <1>1, <1>2, <1>3, <2>1
    <3>3. Answered(q, y) \/ (InCall(q, y) /\ Starting(q))
      BY <1>3, <3>1, <3>2 DEF Stands, AnswerStands
    <3>4. CASE Answered(q, y)
      BY <1>3, <3>4
    <3>5. CASE InCall(q, y) /\ Starting(q) /\ q # p
      BY <1>2, <1>3, <3>5
    <3>6. CASE InCall(q, y) /\ q = p
      <4>1. Offered(p, y)
        BY <1>1, <1>3, <2>1, <3>6
      <4>2. ~Knows(p, y)
        BY <4>1 DEF SignalInv, Signals, OffersNew
      <4>3. Knows(p, y)
        BY <3>6, Tables DEF InCall, Knows, Current
      <4>4. QED
        BY <4>2, <4>3
    <3>7. QED
      BY <3>3, <3>4, <3>5, <3>6
  <2>2. QED
    BY <2>1 DEF AnswerStands
<1>7. QED
  BY <1>4, <1>5, <1>6 DEF Stands

\* A peer that was in no call enters one.
LEMMA EntersStand ==
  ASSUME TypeOK, SignalInv, \A r \in Peers : Stands(r), NEW p \in Peers, NEW x \in Ids,
         NEW s \in {"ringing_out", "ringing_in"}, Put(p, NewCall(x, s)), ~Has(p),
         UNCHANGED <<window, relay>>,
         \A r \in Peers, y \in Ids :
           /\ Answered(r, y) => Answered(r, y)'
           /\ Ended(r, y) => Ended(r, y)'
           /\ Offered(r, y) => Offered(r, y)' \/ (r = p /\ y = x)
           /\ Offered(r, y)' => Offered(r, y) \/ (r = Other[p] /\ y = x),
         Offered(Other[p], x)' \/ InCall(Other[p], x) \/ Ended(p, x),
         InCall(Other[p], x) => Offered(p, x)
  PROVE  \A r \in Peers : Stands(r)'
<1> DEFINE n == Len(dicts[p]) + 1
           call == NewCall(x, s)
<1>1. call \in Call /\ call.id = x /\ call.state = s
  BY NewCallFields DEF States
<1> HIDE DEF call
<1>2. /\ Len(dicts[p]) \in Nat /\ calls'[p] = n /\ dicts'[p][n] = call
      /\ \A r \in Peers \ {p} : dicts'[r] = dicts[r] /\ calls'[r] = calls[r]
  <2>1. Put(p, call)
    BY DEF call
  <2>2. QED
    BY <1>1, <2>1, PutTable, Tables DEF Others
<1>3. \A y : InCall(p, y)' <=> y = x
  BY <1>1, <1>2 DEF InCall, Has, Current, None
<1>4. \A r \in Peers \ {p} : /\ \A y : InCall(r, y)' <=> InCall(r, y)
                             /\ Starting(r)' <=> Starting(r)
  BY <1>2 DEF InCall, Has, Current, Starting, Committed
<1>5. ~Starting(p)'
  <2>1. window[p].call # n /\ relay[p].call # n
    BY <1>2 DEF TypeOK
  <2>2. QED
    BY <1>1, <1>2, <2>1 DEF Starting, Committed
<1>6. \A y : ~InCall(p, y)
  BY DEF InCall
<1> SUFFICES ASSUME NEW r \in Peers PROVE Stands(r)'
  OBVIOUS
<1> DEFINE q == Other[r]
<1>7. q \in Peers /\ q # r /\ Other[q] = r /\ Stands(r)
  BY OtherPeer
<1>8. OfferStands(r)'
  <2>1. ASSUME NEW y \in Ids, Offered(r, y)' PROVE InCall(q, y)' \/ Ended(r, y)'
    <3>1. CASE Offered(r, y)
      <4>1. InCall(q, y) \/ Ended(r, y)
        BY <1>7, <3>1 DEF Stands, OfferStands
      <4>2. QED
        BY <1>4, <1>6, <1>7, <4>1
    <3>2. CASE r = Other[p] /\ y = x
      BY <1>3, <3>2, OtherPeer
    <3>3. QED
      BY <2>1, <3>1, <3>2
  <2>2. QED
    BY <2>1 DEF OfferStands
<1>9. CallStands(r)'
  <2>1. ASSUME NEW y \in Ids, InCall(r, y)' PROVE Offered(q, y)' \/ InCall(q, y)' \/ Ended(r, y)'
    <3>1. CASE r = p
      BY <1>3, <1>4, <1>7, <2>1, <3>1
    <3>2. CASE r # p
      <4>1. InCall(r, y)
        BY <1>4, <2>1, <3>2
      <4>2. Offered(q, y) \/ InCall(q, y) \/ Ended(r, y)
        BY <1>7, <4>1 DEF Stands, CallStands
      <4>3. QED
        BY <1>3, <1>4, <1>6, <1>7, <4>2
    <3>3. QED
      BY <3>1, <3>2
  <2>2. QED
    BY <2>1 DEF CallStands
<1>10. AnswerStands(r)'
  <2>1. ASSUME NEW y \in Ids, InCall(r, y)', Starting(r)', InCall(q, y)' \/ Offered(q, y)'
        PROVE  Answered(q, y)' \/ (InCall(q, y)' /\ Starting(q)')
    <3>1. r # p /\ InCall(r, y) /\ Starting(r)
      BY <1>4, <1>5, <2>1
    <3>2. InCall(q, y) \/ Offered(q, y)
      <4>1. CASE InCall(q, y)' /\ q = p
        <5>1. y = x /\ r = Other[p]
          BY <1>3, <1>7, <4>1
        <5>2. QED
          BY <3>1, <4>1, <5>1
      <4>2. CASE InCall(q, y)' /\ q # p
        BY <1>4, <1>7, <4>2
      <4>3. CASE Offered(q, y)'
        BY <1>7, <3>1, <4>3, OtherPeer
      <4>4. QED
        BY <2>1, <4>1, <4>2, <4>3
    <3>3. Answered(q, y) \/ (InCall(q, y) /\ Starting(q))
      BY <1>7, <3>1, <3>2 DEF Stands, AnswerStands
    <3>4. QED
      BY <1>4, <1>6, <1>7, <3>3
  <2>2. QED
    BY <2>1 DEF AnswerStands
<1>11. QED
  BY <1>8, <1>9, <1>10 DEF Stands

\* A step of a peer that stays in its call, or in none.
LEMMA StaysStand ==
  ASSUME TypeOK, \A r \in Peers : Stands(r), SameCalls, UNCHANGED calls,
         \A r \in Peers, y \in Ids : /\ Offered(r, y)' <=> Offered(r, y)
                                     /\ Ended(r, y)' <=> Ended(r, y),
         ASSUME NEW r \in Peers, NEW y \in Ids, InCall(r, y), Starting(r)',
                InCall(Other[r], y) \/ Offered(Other[r], y)
         PROVE  Answered(Other[r], y)' \/ (InCall(Other[r], y) /\ Starting(Other[r])')
  PROVE  \A r \in Peers : Stands(r)'
<1> SUFFICES ASSUME NEW r \in Peers PROVE Stands(r)'
  OBVIOUS
<1>1. Other[r] \in Peers /\ Stands(r)
  BY OtherPeer
<1>2. \A y \in Ids : /\ InCall(r, y)' <=> InCall(r, y)
                     /\ InCall(Other[r], y)' <=> InCall(Other[r], y)
  BY <1>1, SameKnown
<1>3. OfferStands(r)' /\ CallStands(r)'
  BY <1>1, <1>2 DEF Stands, OfferStands, CallStands
<1>4. AnswerStands(r)'
  BY <1>1, <1>2 DEF AnswerStands
<1>5. QED
  BY <1>3, <1>4 DEF Stands

LEMMA NoParting ==
  ASSUME ~Because(PartCauses)'
  PROVE  /\ "failed" \notin causes' /\ "lost" \notin causes'
         /\ "replaced" \notin causes' /\ "other id" \notin causes'
BY DEF Because, PartCauses

LEMMA AgreesStartCall ==
  ASSUME TypeOK, SignalInv, \A r \in Peers : Stands(r), NEW p \in Peers, StartCall(p),
         ~Because(PartCauses)'
  PROVE  \A r \in Peers : Stands(r)'
<1>1. PICK x \in Ids : x = ids + 1
  BY CallsAssumption DEF StartCall, TypeOK, Ids
<1>2. /\ Put(p, NewCall(x, "ringing_out")) /\ UNCHANGED <<window, relay>>
      /\ ~Has(p) /\ Send(p, Sig("call_offer", x))
  BY <1>1, NoParting DEF StartCall, Replaced
<1>3. \A r \in Peers : ~Knows(r, x)
  <2>1. ids \in Nat /\ x \in Nat /\ ids < x
    BY <1>1, CallsAssumption DEF TypeOK, Ids
  <2>2. \A r \in Peers : \A c \in 1..Len(dicts[r]) :
          dicts[r][c].id <= ids /\ dicts[r][c].id \in Ids
    BY Tables, CallFields DEF SignalInv, Signals, Distinct
  <2>3. Ids \subseteq Nat
    BY CallsAssumption DEF Ids
  <2>4. QED
    BY <2>1, <2>2, <2>3 DEF Knows
<1>4. Other[p] \in Peers /\ Other[p] # p
  BY OtherPeer
<1>5. ~InCall(Other[p], x)
  BY <1>3, <1>4, Tables DEF InCall, Knows, Current
<1>6. \A r \in Peers, y \in Ids :
        /\ Answered(r, y)' <=> Answered(r, y)
        /\ Ended(r, y)' <=> Ended(r, y)
        /\ Offered(r, y)' <=> Offered(r, y) \/ (r = Other[p] /\ y = x)
  BY <1>2, SendsOne
<1>7. QED
  BY <1>2, <1>4, <1>5, <1>6, EntersStand

LEMMA AgreesOnOffer ==
  ASSUME TypeOK, SignalInv, \A r \in Peers : Stands(r), NEW p \in Peers, OnOffer(p),
         ~Because(PartCauses)'
  PROVE  \A r \in Peers : Stands(r)'
<1>1. /\ Id(p) \in Ids /\ net[p] # <<>> /\ net' = [net EXCEPT ![p] = Tail(@)]
      /\ Head(net[p]).type = "call_offer"
  BY TakesReceived DEF OnOffer
<1>2. PICK x \in Ids : x = Id(p)
  BY <1>1
<1>3. Put(p, NewCall(x, "ringing_in")) /\ UNCHANGED <<window, relay>> /\ ~Has(p)
  BY <1>2, NoParting DEF OnOffer, Replaced
<1>4. /\ Offered(p, x)
      /\ \A r \in Peers, y \in Ids :
           /\ Answered(r, y) => Answered(r, y)'
           /\ Ended(r, y) => Ended(r, y)'
           /\ Offered(r, y) => Offered(r, y)' \/ (r = p /\ y = x)
           /\ Offered(r, y)' => Offered(r, y)
  BY <1>1, <1>2, TakesOne
<1>5. InCall(Other[p], x) \/ Ended(p, x)
  BY <1>4 DEF Stands, OfferStands
<1>6. QED
  BY <1>3, <1>4, <1>5, EntersStand

LEMMA AgreesLast ==
  ASSUME TypeOK, SignalInv, \A r \in Peers : Stands(r), NEW p \in Peers, Reject(p) \/ Hangup(p),
         ~Because(PartCauses)'
  PROVE  \A r \in Peers : Stands(r)'
<1>1. PICK type \in {"call_reject", "call_end"}, why \in {Rejected(p), {}} : SendLast(p, type, why)
  BY DEF Reject, Hangup
<1>2. SameCalls /\ calls'[p] = None /\ relay' = relay
      /\ \A r \in Peers \ {p} : dicts'[r] = dicts[r] /\ calls'[r] = calls[r]
  <2>1. CASE Reject(p)
    BY <2>1, TableKept, PopTable DEF Reject
  <2>2. CASE Hangup(p)
    BY <2>2, StopKept, StopTable DEF Hangup, Stop, Others
  <2>3. QED
    BY <2>1, <2>2
<1>3. \A r \in Peers \ {p} : Starting(r)' <=> Starting(r)
  <2>1. \A r \in Peers \ {p} : window'[r] = window[r]
    BY DEF Reject, Hangup, Goes, TypeOK
  <2>2. QED
    BY <1>2, <2>1 DEF Starting, Has, Committed
<1>4. CASE ~Has(p) /\ UNCHANGED net
  <2>1. \A y : ~InCall(p, y)
    BY <1>4 DEF InCall
  <2>2. QED
    BY <1>2, <1>3, <1>4, <2>1, SendsNone, LeavesStand
<1>5. CASE Has(p) /\ Send(p, Sig(type, Current(p).id))
  <2>1. PICK x \in Ids : x = Current(p).id
    BY <1>5, Tables
  <2>2. \A r \in Peers, y \in Ids :
          /\ Offered(r, y)' <=> Offered(r, y)
          /\ Answered(r, y)' <=> Answered(r, y)
          /\ Ended(r, y)' <=> Ended(r, y) \/ (r = Other[p] /\ y = x)
    BY <1>5, <2>1, SendsOne
  <2>3. Other[p] \in Peers /\ \A y : InCall(p, y) => y = x
    BY <2>1, OtherPeer DEF InCall
  <2>4. QED
    BY <1>2, <1>3, <2>2, <2>3, LeavesStand
<1>6. QED
  BY <1>1, <1>4, <1>5, NoParting DEF SendLast

LEMMA AgreesToldLast ==
  ASSUME TypeOK, SignalInv, \A r \in Peers : Stands(r), NEW p \in Peers, OnReject(p) \/ OnEnd(p),
         ~Because(PartCauses)'
  PROVE  \A r \in Peers : Stands(r)'
<1>1. /\ Id(p) \in Ids /\ net[p] # <<>> /\ net' = [net EXCEPT ![p] = Tail(@)]
      /\ Head(net[p]).type \in {"call_reject", "call_end"}
  BY TakesReceived DEF OnReject, OnEnd
<1>2. PICK h \in Ids : h = Id(p)
  BY <1>1
<1>3. SameCalls /\ calls'[p] = None /\ UNCHANGED <<window, relay>>
      /\ \A r \in Peers \ {p} : dicts'[r] = dicts[r] /\ calls'[r] = calls[r]
  <2>1. CASE OnReject(p)
    BY <2>1, TableKept, PopTable DEF OnReject
  <2>2. CASE OnEnd(p)
    BY <2>2, StopKept, StopTable DEF OnEnd, Stop, Others
  <2>3. QED
    BY <2>1, <2>2
<1>4. \A r \in Peers \ {p} : Starting(r)' <=> Starting(r)
  BY <1>3 DEF Starting, Has, Committed
<1>5. /\ Ended(p, h) /\ ~Offered(p, h)'
      /\ \A r \in Peers, y \in Ids :
           /\ Offered(r, y)' <=> Offered(r, y)
           /\ Answered(r, y)' <=> Answered(r, y)
           /\ Ended(r, y) => Ended(r, y)' \/ (r = p /\ y = h)
  BY <1>1, <1>2, TakesOne
<1>6. \A y : InCall(p, y) => y = h
  BY <1>2, NoParting DEF OnReject, OnEnd, OtherId, InCall
<1>7. Knows(Other[p], h) /\ ~InCall(Other[p], h)
  BY <1>5 DEF SignalInv, Signals, EndsGone
<1>8. ~Offered(Other[p], h)
  BY <1>7, OtherPeer DEF SignalInv, Signals, OffersNew
<1>9. QED
  BY <1>3, <1>4, <1>5, <1>6, <1>7, <1>8, LeavesStand

\* A step that sends no answer, and after which the same peers start their calls.
LEMMA SameStand ==
  ASSUME TypeOK, \A r \in Peers : Stands(r), SameCalls, UNCHANGED calls,
         \A r \in Peers : Starting(r)' <=> Starting(r),
         \A r \in Peers, y \in Ids : /\ Offered(r, y)' <=> Offered(r, y)
                                     /\ Ended(r, y)' <=> Ended(r, y)
                                     /\ Answered(r, y) => Answered(r, y)'
  PROVE  \A r \in Peers : Stands(r)'
<1>1. ASSUME NEW r \in Peers, NEW y \in Ids, InCall(r, y), Starting(r)',
             InCall(Other[r], y) \/ Offered(Other[r], y)
      PROVE  Answered(Other[r], y)' \/ (InCall(Other[r], y) /\ Starting(Other[r])')
  BY <1>1, OtherPeer DEF Stands, AnswerStands
<1>2. QED
  BY <1>1, StaysStand

LEMMA AgreesAccept ==
  ASSUME TypeOK, SignalInv, \A r \in Peers : Stands(r), NEW p \in Peers, Accept(p),
         ~Because(PartCauses)'
  PROVE  \A r \in Peers : Stands(r)'
<1>1. SameCalls /\ UNCHANGED <<dicts, calls, relay>>
  BY TableKept DEF Accept, table
<1>2. /\ window[p].call = None
      /\ \A r \in Peers \ {p} : window'[r] = window[r]
      /\ \A r \in Peers \ {p} : Starting(r)' <=> Starting(r)
  <2>1. window[p].call = None /\ \A r \in Peers \ {p} : window'[r] = window[r]
    BY DEF Accept, At, Goes, TypeOK
  <2>2. QED
    BY <1>1, <2>1 DEF Starting, Has, Committed
<1>3. CASE ~Has(p) /\ UNCHANGED net
  <2>1. \A r \in Peers : Starting(r)' <=> Starting(r)
    BY <1>1, <1>2, <1>3 DEF Starting, Has
  <2>2. QED
    BY <1>1, <1>3, <2>1, SendsNone, SameStand
<1>4. CASE /\ Has(p) /\ Send(p, Sig("call_answer", Current(p).id))
           /\ window' = [window EXCEPT ![p] = [at |-> "accepting", call |-> calls[p]]]
  <2>1. PICK x \in Ids : x = Current(p).id
    BY <1>4, Tables
  <2>2. \A r \in Peers, y \in Ids :
          /\ Offered(r, y)' <=> Offered(r, y)
          /\ Ended(r, y)' <=> Ended(r, y)
          /\ Answered(r, y)' <=> Answered(r, y) \/ (r = Other[p] /\ y = x)
    BY <1>4, <2>1, SendsOne
  <2>3. Starting(p)'
    <3>1. window'[p].call = calls[p]
      BY <1>4 DEF TypeOK
    <3>2. QED
      BY <1>1, <1>4, <3>1 DEF Starting, Has, Committed
  <2>4. ASSUME NEW r \in Peers, NEW y \in Ids, InCall(r, y), Starting(r)',
               InCall(Other[r], y) \/ Offered(Other[r], y)
        PROVE  Answered(Other[r], y)' \/ (InCall(Other[r], y) /\ Starting(Other[r])')
    <3>1. CASE r = p
      BY <2>1, <2>2, <2>4, <3>1, OtherPeer DEF InCall
    <3>2. CASE r # p
      BY <1>2, <2>2, <2>3, <2>4, <3>2, OtherPeer DEF Stands, AnswerStands
    <3>3. QED
      BY <3>1, <3>2
  <2>5. QED
    BY <1>1, <2>2, <2>4, StaysStand
<1>5. QED
  BY <1>3, <1>4, NoParting DEF Accept

LEMMA AgreesMedia ==
  ASSUME TypeOK, SignalInv, \A r \in Peers : Stands(r), NEW p \in Peers,
         AcceptMedia(p) \/ AnswerMedia(p)
  PROVE  \A r \in Peers : Stands(r)'
<1>1. \A c \in 1..Len(dicts[p]) : c # None
  BY Tables DEF None
<1>2. PICK inHand \in 1..Len(dicts[p]) :
        /\ StartMedia(p, inHand) /\ Committed(p, inHand)
        /\ \A r \in Peers : r # p => window'[r] = window[r] /\ relay'[r] = relay[r]
        /\ \A c \in 1..Len(dicts[p]) : c # inHand =>
             /\ window'[p].call = c <=> window[p].call = c
             /\ relay'[p].call = c <=> relay[p].call = c
  <2>1. CASE AcceptMedia(p)
    <3> DEFINE c == window[p].call
    <3>1. c \in 1..Len(dicts[p]) /\ StartMedia(p, c) /\ Committed(p, c)
      BY <2>1, Tables DEF AcceptMedia, At, None, TypeOK, Committed
    <3>2. window'[p].call = None /\ relay' = relay
          /\ \A r \in Peers : r # p => window'[r] = window[r]
      BY <2>1 DEF AcceptMedia, Goes, TypeOK
    <3>3. QED
      BY <1>1, <3>1, <3>2
  <2>2. CASE AnswerMedia(p)
    <3> DEFINE c == relay[p].call
    <3>1. c \in 1..Len(dicts[p]) /\ StartMedia(p, c) /\ Committed(p, c)
      BY <2>2, Tables DEF AnswerMedia, None, TypeOK, Committed
    <3>2. relay'[p].call = None /\ window' = window
          /\ \A r \in Peers : r # p => relay'[r] = relay[r]
      BY <2>2 DEF AnswerMedia, Idle, TypeOK
    <3>3. QED
      BY <1>1, <3>1, <3>2
  <2>3. QED
    BY <2>1, <2>2
<1>3. /\ SameCalls /\ calls' = calls
      /\ \A c \in 1..Len(dicts[p]) :
           dicts'[p][c].state = IF c = inHand THEN "active" ELSE dicts[p][c].state
      /\ \A r \in Peers : r # p => dicts'[r] = dicts[r]
  <2>1. SameCalls
    BY <1>2, MediaKept
  <2>2. calls' = calls /\ Others(p)
        /\ \A c \in 1..Len(dicts[p]) :
             dicts'[p][c].state = IF c = inHand THEN "active" ELSE dicts[p][c].state
    BY <1>2, MediaTable
  <2>3. QED
    BY <2>1, <2>2 DEF Others
<1>4. \A c \in 1..Len(dicts[p]) : Committed(p, c)' <=> Committed(p, c)
  <2>1. ASSUME NEW c \in 1..Len(dicts[p]) PROVE Committed(p, c)' <=> Committed(p, c)
    <3>1. dicts'[p][c].state = IF c = inHand THEN "active" ELSE dicts[p][c].state
      BY <1>3
    <3>2. CASE c = inHand
      BY <1>2, <3>1, <3>2 DEF Committed
    <3>3. CASE c # inHand
      BY <1>2, <3>1, <3>3 DEF Committed
    <3>4. QED
      BY <3>2, <3>3
  <2>2. QED
    BY <2>1
<1>5. Has(p) => calls[p] \in 1..Len(dicts[p])
  BY Tables
<1>6. \A r \in Peers : Starting(r)' <=> Starting(r)
  <2>1. Starting(p)' <=> Starting(p)
    <3>1. ASSUME Has(p) PROVE Committed(p, calls[p])' <=> Committed(p, calls[p])
      <4>1. PICK c \in 1..Len(dicts[p]) : c = calls[p]
        BY <1>5, <3>1
      <4>2. Committed(p, c)' <=> Committed(p, c)
        BY <1>4
      <4>3. QED
        BY <1>3, <4>1, <4>2 DEF Committed
    <3>2. QED
      BY <1>3, <3>1 DEF Starting, Has
  <2>2. ASSUME NEW r \in Peers, r # p PROVE Starting(r)' <=> Starting(r)
    <3>1. dicts'[r] = dicts[r] /\ calls' = calls /\ window'[r] = window[r] /\ relay'[r] = relay[r]
      BY <1>2, <1>3, <2>2
    <3>2. QED
      BY <3>1 DEF Starting, Has, Committed
  <2>3. QED
    BY <2>1, <2>2
<1>7. UNCHANGED net
  BY DEF AcceptMedia, AnswerMedia
<1>8. QED
  BY <1>3, <1>6, <1>7, SendsNone, SameStand

LEMMA AgreesOnAnswer ==
  ASSUME TypeOK, SignalInv, \A r \in Peers : Stands(r), NEW p \in Peers, OnAnswer(p)
  PROVE  \A r \in Peers : Stands(r)'
<1>1. /\ Id(p) \in Ids /\ net[p] # <<>> /\ net' = [net EXCEPT ![p] = Tail(@)]
      /\ Head(net[p]).type = "call_answer"
  BY TakesReceived DEF OnAnswer
<1>2. PICK x \in Ids : x = Id(p)
  BY <1>1
<1>3. SameCalls /\ UNCHANGED <<dicts, calls, window>>
  BY TableKept DEF OnAnswer, table, gui
<1>4. /\ Answered(p, x) /\ ~Offered(p, x)'
      /\ \A r \in Peers, y \in Ids :
           /\ Offered(r, y)' <=> Offered(r, y)
           /\ Ended(r, y)' <=> Ended(r, y)
           /\ Answered(r, y) => Answered(r, y)' \/ (r = p /\ y = x)
  BY <1>1, <1>2, TakesOne
<1> DEFINE q == Other[p]
<1>5. q \in Peers /\ q # p /\ Other[q] = p
  BY OtherPeer
<1>6. /\ \A r \in Peers \ {p} : Starting(r)' <=> Starting(r)
      /\ InCall(p, x) => Starting(p)'
      /\ ~InCall(p, x) => (Starting(p)' <=> Starting(p))
  <2>1. relay[p].call = None /\ \A r \in Peers \ {p} : relay'[r] = relay[r]
    BY DEF OnAnswer, Received, TypeOK
  <2>2. \A r \in Peers \ {p} : Starting(r)' <=> Starting(r)
    BY <1>3, <2>1 DEF Starting, Has, Committed
  <2>3. ASSUME InCall(p, x) PROVE Starting(p)'
    <3>1. relay'[p].call = calls[p]
      BY <1>2, <2>3 DEF OnAnswer, Answers, InCall, TypeOK
    <3>2. QED
      BY <1>3, <2>3, <3>1 DEF Starting, Has, Committed, InCall
  <2>4. ASSUME ~InCall(p, x) PROVE Starting(p)' <=> Starting(p)
    <3>1. relay' = relay
      BY <1>2, <2>4 DEF OnAnswer, Answers, InCall
    <3>2. QED
      BY <1>3, <3>1 DEF Starting, Has, Committed
  <2>5. QED
    BY <2>2, <2>3, <2>4
<1>7. /\ ~Offered(q, x)
      /\ InCall(q, x) => Starting(q)
  <2>1. PICK c \in 1..Len(dicts[q]) :
          dicts[q][c].id = x /\ (dicts[q][c].state = "active" \/ window[q].call = c)
    BY <1>4 DEF SignalInv, Signals, AnswersMade
  <2>2. Knows(q, x)
    BY <2>1 DEF Knows
  <2>3. ~Offered(q, x)
    BY <1>5, <2>2 DEF SignalInv, Signals, OffersNew
  <2>4. ASSUME InCall(q, x) PROVE Starting(q)
    <3>1. calls[q] \in 1..Len(dicts[q]) /\ dicts[q][calls[q]].id = x /\ Has(q)
      BY <1>5, <2>4, Tables DEF InCall, Current
    <3>2. Distinct(q)
      BY <1>5 DEF SignalInv, Signals
    <3>3. c = calls[q]
      BY <2>1, <3>1, <3>2 DEF Distinct
    <3>4. QED
      BY <2>1, <3>1, <3>3 DEF Starting, Committed
  <2>5. QED
    BY <2>3, <2>4
<1>8. ASSUME NEW r \in Peers, NEW y \in Ids, InCall(r, y), Starting(r)',
             InCall(Other[r], y) \/ Offered(Other[r], y)
      PROVE  Answered(Other[r], y)' \/ (InCall(Other[r], y) /\ Starting(Other[r])')
  <2>1. Other[r] \in Peers /\ Other[r] # r
    BY OtherPeer
  <2>2. CASE r = p /\ y = x
    BY <1>5, <1>6, <1>7, <1>8, <2>2
  <2>3. CASE r # p \/ y # x
    <3>1. Starting(r)
      <4>1. CASE r # p
        BY <1>6, <1>8, <4>1
      <4>2. CASE r = p /\ y # x
        BY <1>6, <1>8, <4>2 DEF InCall
      <4>3. QED
        BY <2>3, <4>1, <4>2
    <3>2. Answered(Other[r], y) \/ (InCall(Other[r], y) /\ Starting(Other[r]))
      BY <1>8, <3>1 DEF Stands, AnswerStands
    <3>3. CASE Answered(Other[r], y)'
      BY <3>3
    <3>4. CASE Other[r] = p /\ y = x
      <4>1. InCall(p, x)
        BY <1>4, <1>5, <1>8, <3>4
      <4>2. QED
        BY <1>6, <3>4, <4>1
    <3>5. CASE InCall(Other[r], y) /\ Starting(Other[r])
      BY <1>6, <2>1, <3>5
    <3>6. QED
      BY <1>4, <2>1, <3>2, <3>3, <3>4, <3>5
  <2>4. QED
    BY <2>2, <2>3
<1>9. QED
  BY <1>3, <1>4, <1>8, StaysStand

LEMMA StepAgree == TypeOK /\ SignalInv /\ AgreeInv /\ [Next]_vars => AgreeInv'
<1> SUFFICES ASSUME TypeOK, SignalInv, AgreeInv, [Next]_vars, ~Because(PartCauses)'
             PROVE  \A r \in Peers : Stands(r)'
  BY DEF AgreeInv
<1>1. \A r \in Peers : Stands(r)
  BY CausesGrow DEF AgreeInv, Because
<1>2. ASSUME NEW p \in Peers, Aside(p) PROVE \A r \in Peers : Stands(r)'
  <2>1. /\ UNCHANGED dicts /\ UNCHANGED calls /\ UNCHANGED net
        /\ \A r \in Peers : window'[r].call = window[r].call /\ relay'[r] = relay[r]
    BY <1>2, AsideKept
  <2>2. \A r \in Peers : Starting(r)' <=> Starting(r)
    BY <2>1 DEF Starting, Has, Committed
  <2>3. QED
    BY <1>1, <2>1, <2>2, TableKept, SendsNone, SameStand
<1>3. ASSUME NEW p \in Peers, Window(p) \/ RelayThread(p) \/ Capture(p) \/ Lose(p)
      PROVE  \A r \in Peers : Stands(r)'
  <2>1. ~Lose(p)
    BY NoParting DEF Lose
  <2>2. QED
    BY <1>1, <1>2, <1>3, <2>1, AgreesStartCall, AgreesAccept, AgreesMedia, AgreesLast,
       AgreesOnOffer, AgreesOnAnswer, AgreesToldLast
    DEF Window, RelayThread, Capture, Aside
<1>4. CASE UNCHANGED vars
  <2>1. /\ UNCHANGED dicts /\ UNCHANGED calls /\ UNCHANGED net
        /\ UNCHANGED window /\ UNCHANGED relay
    BY <1>4 DEF vars
  <2>2. \A r \in Peers : Starting(r)' <=> Starting(r)
    BY <2>1 DEF Starting, Has, Committed, Current
  <2>3. QED
    BY <1>1, <2>1, <2>2, TableKept, SendsNone, SameStand
<1>5. QED
  BY <1>3, <1>4 DEF Next

----------------------------------------------------------------------------
(* Whether an active call has a window *)

\* The window of the call is to open, and then to stay; or is open, and stays.
Opens(p) ==
  \E i \in 1..Len(events[p]) :
    events[p][i] = "active" /\ \A j \in 1..Len(events[p]) : j > i => events[p][j] # "ended"
Stays(p) == shown[p] /\ \A j \in 1..Len(events[p]) : events[p][j] # "ended"

ActiveHere(p) == Has(p) /\ Current(p).state = "active"
HangInv == \A p \in Peers : ActiveHere(p) => Opens(p) \/ Stays(p)

LEMMA InitHang == Init => HangInv
BY DEF Init, HangInv, ActiveHere, Has

\* A new event other than "ended" closes no window; "active" opens it.
LEMMA NotifiesHang ==
  ASSUME TypeOK, NEW p \in Peers, NEW e \in Events, Notify(p, e), e # "ended",
         shown[p] => shown'[p]
  PROVE  /\ Opens(p) \/ Stays(p) => Opens(p)' \/ Stays(p)'
         /\ e = "active" => Opens(p)'
<1>1. events[p] \in Seq(Events) /\ events' = [events EXCEPT ![p] = Append(@, e)]
      /\ events'[p] = Append(events[p], e)
  BY DEF TypeOK, Notify
<1>2. /\ Len(events[p]) \in Nat /\ Len(events'[p]) = Len(events[p]) + 1
      /\ events'[p][Len(events[p]) + 1] = e
      /\ \A i \in 1..Len(events[p]) : events'[p][i] = events[p][i]
  BY <1>1
<1>3. \A i \in 1..Len(events'[p]) : i \in 1..Len(events[p]) \/ i = Len(events[p]) + 1
  BY <1>2
<1>4. ASSUME Stays(p) PROVE Stays(p)'
  BY <1>2, <1>3, <1>4 DEF Stays
<1>5. ASSUME Opens(p) PROVE Opens(p)'
  <2>1. PICK i \in 1..Len(events[p]) :
          events[p][i] = "active" /\ \A j \in 1..Len(events[p]) : j > i => events[p][j] # "ended"
    BY <1>5 DEF Opens
  <2>2. i \in 1..Len(events'[p]) /\ events'[p][i] = "active"
    BY <1>2, <2>1
  <2>3. \A j \in 1..Len(events'[p]) : j > i => events'[p][j] # "ended"
    BY <1>2, <1>3, <2>1
  <2>4. QED
    BY <2>2, <2>3 DEF Opens
<1>6. ASSUME e = "active" PROVE Opens(p)'
  <2> DEFINE n == Len(events[p]) + 1
  <2>1. n \in 1..Len(events'[p]) /\ events'[p][n] = "active"
    BY <1>2, <1>6
  <2>2. \A j \in 1..Len(events'[p]) : ~(j > n)
    BY <1>2
  <2> HIDE DEF n
  <2>3. QED
    BY <2>1, <2>2 DEF Opens
<1>7. QED
  BY <1>4, <1>5, <1>6

\* To handle an event opens the window, or leaves it as it was to be.
LEMMA TakesHang ==
  ASSUME TypeOK, NEW p \in Peers, TakeEvent(p), Opens(p) \/ Stays(p)
  PROVE  Opens(p)' \/ Stays(p)'
<1>1. /\ events[p] \in Seq(Events) /\ events[p] # <<>> /\ events'[p] = Tail(events[p])
      /\ shown'[p] = Showing(shown[p], Head(events[p]))
  BY DEF TypeOK, TakeEvent
<1>2. /\ Len(events[p]) \in Nat /\ Len(events[p]) > 0 /\ Len(events'[p]) = Len(events[p]) - 1
      /\ Head(events[p]) = events[p][1] /\ events[p][1] \in Events
      /\ \A i \in 1..Len(events'[p]) : events'[p][i] = events[p][i + 1]
  BY <1>1
<1>3. ASSUME Stays(p) PROVE Stays(p)'
  <2>1. events[p][1] # "ended" /\ shown[p]
    BY <1>2, <1>3 DEF Stays
  <2>2. shown'[p]
    BY <1>1, <1>2, <2>1 DEF Showing, Events
  <2>3. \A j \in 1..Len(events'[p]) : events'[p][j] # "ended"
    BY <1>2, <1>3 DEF Stays
  <2>4. QED
    BY <2>2, <2>3 DEF Stays
<1>4. ASSUME Opens(p) PROVE Opens(p)' \/ Stays(p)'
  <2>1. PICK i \in 1..Len(events[p]) :
          events[p][i] = "active" /\ \A j \in 1..Len(events[p]) : j > i => events[p][j] # "ended"
    BY <1>4 DEF Opens
  <2>2. CASE i = 1
    <3>1. shown'[p]
      BY <1>1, <1>2, <2>1, <2>2 DEF Showing
    <3>2. ASSUME NEW j \in 1..Len(events'[p]) PROVE events'[p][j] # "ended"
      <4>1. j + 1 \in 1..Len(events[p]) /\ j + 1 > 1 /\ events'[p][j] = events[p][j + 1]
        BY <1>2
      <4>2. QED
        BY <2>1, <2>2, <4>1
    <3>3. QED
      BY <3>1, <3>2 DEF Stays
  <2>3. CASE i # 1
    <3> DEFINE k == i - 1
    <3>1. k \in 1..Len(events'[p]) /\ events'[p][k] = "active"
      BY <1>2, <2>1, <2>3
    <3>2. ASSUME NEW j \in 1..Len(events'[p]), j > k PROVE events'[p][j] # "ended"
      <4>1. j + 1 \in 1..Len(events[p]) /\ j + 1 > i /\ events'[p][j] = events[p][j + 1]
        BY <1>2, <3>2
      <4>2. QED
        BY <2>1, <4>1
    <3> HIDE DEF k
    <3>3. QED
      BY <3>1, <3>2 DEF Opens
  <2>4. QED
    BY <2>2, <2>3
<1>5. QED
  BY <1>3, <1>4

\* A step of p, and of nobody else.
LEMMA HangOthers ==
  ASSUME HangInv, NEW p \in Peers,
         \A r \in Peers : r # p => /\ dicts'[r] = dicts[r] /\ calls'[r] = calls[r]
                                   /\ events'[r] = events[r] /\ shown'[r] = shown[r],
         ActiveHere(p)' => Opens(p)' \/ Stays(p)'
  PROVE  HangInv'
<1> SUFFICES ASSUME NEW r \in Peers, r # p PROVE ActiveHere(r)' => Opens(r)' \/ Stays(r)'
  BY DEF HangInv
<1>1. ActiveHere(r) => Opens(r) \/ Stays(r)
  BY DEF HangInv
<1>2. QED
  BY <1>1 DEF ActiveHere, Has, Current, Opens, Stays

LEMMA HangPut ==
  ASSUME TypeOK, HangInv, NEW p \in Peers, StartCall(p) \/ OnOffer(p)
  PROVE  HangInv'
<1>1. PICK x \in Ids, s \in {"ringing_out", "ringing_in"} : Put(p, NewCall(x, s))
  <2>1. CASE StartCall(p)
    <3>1. ids + 1 \in Ids
      BY <2>1, CallsAssumption DEF StartCall, TypeOK, Ids
    <3>2. QED
      BY <2>1, <3>1 DEF StartCall
  <2>2. CASE OnOffer(p)
    BY <2>2, TakesReceived DEF OnOffer
  <2>3. QED
    BY <2>1, <2>2
<1> DEFINE call == NewCall(x, s)
<1>2. call \in Call /\ call.state = s /\ Put(p, call)
  BY <1>1, NewCallFields DEF States
<1> HIDE DEF call
<1>3. /\ calls'[p] = Len(dicts[p]) + 1 /\ dicts'[p][Len(dicts[p]) + 1] = call /\ Others(p)
  BY <1>2, PutTable
<1>4. ~ActiveHere(p)'
  BY <1>2, <1>3 DEF ActiveHere, Current
<1>5. \A r \in Peers : r # p => events'[r] = events[r] /\ shown'[r] = shown[r]
  BY DEF StartCall, OnOffer, Notify, TypeOK
<1>6. QED
  BY <1>3, <1>4, <1>5, HangOthers DEF Others

LEMMA HangPop ==
  ASSUME TypeOK, HangInv, NEW p \in Peers, Reject(p) \/ Hangup(p) \/ OnReject(p) \/ OnEnd(p)
  PROVE  HangInv'
<1>1. ~ActiveHere(p)' /\ \A r \in Peers : r # p => dicts'[r] = dicts[r] /\ calls'[r] = calls[r]
  <2>1. CASE Reject(p) \/ OnReject(p)
    BY <2>1, PopTable DEF Reject, OnReject, ActiveHere, Has
  <2>2. CASE Hangup(p) \/ OnEnd(p)
    <3>1. Stop(p)
      BY <2>2 DEF Hangup, OnEnd, Stop
    <3>2. QED
      BY <3>1, StopTable DEF Others, ActiveHere, Has
  <2>3. QED
    BY <2>1, <2>2
<1>2. \A r \in Peers : r # p => events'[r] = events[r] /\ shown'[r] = shown[r]
  BY DEF Reject, Hangup, OnReject, OnEnd, Notify, TypeOK
<1>3. QED
  BY <1>1, <1>2, HangOthers

LEMMA HangMedia ==
  ASSUME TypeOK, HangInv, NEW p \in Peers, AcceptMedia(p) \/ AnswerMedia(p)
  PROVE  HangInv'
<1>1. PICK inHand \in 1..Len(dicts[p]) : StartMedia(p, inHand)
  BY Tables DEF AcceptMedia, AnswerMedia, At, None, TypeOK
<1>2. calls' = calls /\ Others(p)
  BY <1>1, MediaTable
<1>3. \A r \in Peers : r # p => events'[r] = events[r] /\ shown'[r] = shown[r]
  BY DEF AcceptMedia, AnswerMedia, Notify, TypeOK
<1>4. ASSUME ActiveHere(p)' PROVE Opens(p)'
  <2>1. Notify(p, "active")
    BY <1>2, <1>4 DEF AcceptMedia, AnswerMedia, ActiveHere, Has
  <2>2. shown[p] => shown'[p]
    BY DEF AcceptMedia, AnswerMedia, TypeOK
  <2>3. "active" \in Events
    BY DEF Events
  <2>4. QED
    BY <2>1, <2>2, <2>3, NotifiesHang
<1>5. QED
  BY <1>2, <1>3, <1>4, HangOthers DEF Others

LEMMA HangRest ==
  ASSUME TypeOK, HangInv, NEW p \in Peers,
         Accept(p) \/ OnAnswer(p) \/ Aside(p) \/ Lose(p)
  PROVE  HangInv'
<1>1. UNCHANGED dicts /\ UNCHANGED calls
  BY AsideKept DEF Accept, OnAnswer, Lose, table
<1>2. \A r \in Peers : r # p => events'[r] = events[r] /\ shown'[r] = shown[r]
  BY DEF Accept, OnAnswer, Lose, Aside, Poll, Polled, TakeEvent, CaptureBegin, CaptureEnd, gui,
         TypeOK
<1>3. ASSUME ActiveHere(p)' PROVE Opens(p)' \/ Stays(p)'
  <2>1. Has(p) /\ (Opens(p) \/ Stays(p))
    BY <1>1, <1>3 DEF HangInv, ActiveHere, Has, Current
  <2>2. CASE TakeEvent(p)
    BY <2>1, <2>2, TakesHang
  <2>3. CASE ~TakeEvent(p)
    <3>1. events' = events /\ shown' = shown
      BY <2>1, <2>3 DEF Accept, OnAnswer, Lose, Aside, Poll, Polled, CaptureBegin, CaptureEnd, gui
    <3>2. QED
      BY <2>1, <3>1 DEF Opens, Stays
  <2>4. QED
    BY <2>2, <2>3
<1>4. QED
  BY <1>1, <1>2, <1>3, HangOthers

LEMMA StepHang == TypeOK /\ HangInv /\ [Next]_vars => HangInv'
<1> SUFFICES ASSUME TypeOK, HangInv, [Next]_vars PROVE HangInv'
  OBVIOUS
<1>1. ASSUME NEW p \in Peers, Window(p) \/ RelayThread(p) \/ Capture(p) \/ Lose(p)
      PROVE  HangInv'
  BY <1>1, HangPut, HangPop, HangMedia, HangRest DEF Window, RelayThread, Capture, Aside
<1>2. CASE UNCHANGED vars
  BY <1>2 DEF vars, HangInv, ActiveHere, Has, Current, Opens, Stays
<1>3. QED
  BY <1>1, <1>2 DEF Next

\* When the events are taken, nothing is to open any more.
LEMMA ActiveShown == TypeOK /\ HangInv => CanHangUp
<1> SUFFICES ASSUME HangInv, NEW p \in Peers, events[p] = <<>>, ActiveHere(p) PROVE shown[p]
  BY DEF CanHangUp, ActiveHere
<1>1. Len(events[p]) = 0
  OBVIOUS
<1>2. QED
  BY <1>1 DEF HangInv, Opens, Stays

----------------------------------------------------------------------------
(* What every state of the two peers' calls satisfies *)

\* A call that became active was committed to before.
LEMMA CommittedActive == JoinInv => ActiveIsJoint
BY DEF JoinInv, CommittedJoint, Committed, Both, ActiveIsJoint

Inv == TypeOK /\ SignalInv /\ JoinInv /\ MediaInv /\ AgreeInv /\ HangInv

\* What CallManager's handlers, the window and the capture threads all keep, with
\* the signals that are on their way taken into account.
THEOREM CallsInductive == Spec => []Inv
<1>1. Init => Inv
  BY InitType, InitSignals, InitJoined, InitMedia, InitAgree, InitHang DEF Inv
<1>2. Inv /\ [Next]_vars => Inv'
  BY StepType, StepSignals, StepJoined, StepMedia, StepAgree, StepHang DEF Inv
<1>3. QED
  BY <1>1, <1>2, PTL DEF Spec

\* The dictionary that a window, a relay thread or a capture thread has in hand
\* exists, and the capture threads run only for calls whose media were started,
\* in any interleaving of the three kinds of thread.
THEOREM CallsTypeCorrect == Spec => []TypeOK
<1>1. Inv => TypeOK
  BY DEF Inv
<1>2. QED
  BY <1>1, CallsInductive, PTL

\* accept_call and _on_answer make a call active that both peers offered or
\* accepted, unless a dialog that outlived its call accepts the peer's own.
THEOREM ActiveCallsAreJoint == Spec => []ActiveIsJoint
<1>1. Inv => ActiveIsJoint
  BY CommittedActive DEF Inv
<1>2. QED
  BY <1>1, CallsInductive, PTL

\* When every signal is handled, both CallManagers have the same call, in states
\* that fit, or none; unless a signal failed or was lost, _on_offer or start_call
\* replaced a call, or _on_end or _on_reject ended one with another id.
THEOREM PeersAgree == Spec => []AgreementBreaks
<1>1. Inv => AgreementBreaks
  BY StandsAgree DEF Inv
<1>2. QED
  BY <1>1, CallsInductive, PTL

\* _capture_audio_loop sends only in a call that its peer offered or accepted,
\* unless a replaced or rejected call left its loop running, or _start_media ran
\* for another call than the one accepted.
THEOREM HeardOnlyWhenJoined == Spec => []HeardWhenJoinedBreaks
<1>1. Inv => HeardWhenJoinedBreaks
  BY HeardInCall DEF Inv
<1>2. QED
  BY <1>1, CallsInductive, PTL

\* _handle_call_state, which takes the events in the order they were put in the
\* queue, leaves a window open for every call that is active.
THEOREM ActiveCallsHaveAWindow == Spec => []CanHangUp
<1>1. Inv => CanHangUp
  BY ActiveShown DEF Inv
<1>2. QED
  BY <1>1, CallsInductive, PTL
=============================================================================
