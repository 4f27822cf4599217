-------------------------- MODULE NodeRegistryProofs --------------------------
(***************************************************************************)
(* For any nodes, connections and size of the event queue: the types of    *)
(* NodeRegistry, with the bound of the queue; what becomes of a connection *)
(* that closes: that it is reported, that no report is lost, and that its  *)
(* echo ends; and how the entry of a working connection can be lost.       *)
(***************************************************************************)
EXTENDS NodeRegistry, SequenceTheorems, TLAPS

USE NodesAssumption, EventsAssumption

(* putNettyEvent, whatever the event. *)
LEMMA PutKeeps ==
  ASSUME TypeOK, NEW event \in Events, PutNettyEvent(event)
  PROVE  queue' \in Seq(Events) /\ Len(queue') <= MaxEvents + 1 /\ excused' \subseteq Channels
<1>1. CASE Len(queue) <= MaxEvents
  BY <1>1 DEF PutNettyEvent, TypeOK
<1>2. CASE ~(Len(queue) <= MaxEvents)
  BY <1>2 DEF PutNettyEvent, TypeOK
<1>. QED BY <1>1, <1>2

LEMMA EventFacts ==
  /\ <<"other">> \in Events
  /\ \A ch \in Channels : <<"close", ch>> \in Events /\ <<"allIdle", ch>> \in Events
  /\ \A e \in Events : e[1] \in {"allIdle", "close"} =>
       e \in {"allIdle", "close"} \X Channels /\ e[2] \in Channels
BY DEF Events

(* What takeEvent takes. *)
LEMMA HeadFacts ==
  ASSUME TypeOK, queue # <<>>
  PROVE  /\ Head(queue) \in Events
         /\ Tail(queue) \in Seq(Events) /\ Len(Tail(queue)) <= MaxEvents + 1
BY DEF TypeOK

(* The entries come from heartbeats of connections that were made, the     *)
(* heartbeats from such connections, and links are to them.                *)
Made(ch) == ch \in Channels /\ chan[ch] # "none"

EntriesRight ==
  /\ \A n \in Nodes : registry[n] # NoChannel => NodeOf[registry[n]] = n /\ Made(registry[n])
  /\ \A n \in Nodes : link[n] # NoChannel => NodeOf[link[n]] = n /\ Made(link[n])
  /\ \A ch \in pool : Made(ch)

IInv == TypeOK /\ EntriesRight

LEMMA InitInv == Init => IInv
BY DEF Init, IInv, TypeOK, EntriesRight, Stages

LEMMA ClientKeeps ==
  ASSUME IInv
  PROVE  /\ \A n \in Nodes : SeesClose(n) \/ LosesLink(n) => IInv'
         /\ \A ch \in Channels : Connect(ch) \/ Heartbeat(ch) => IInv'
<1>1. ASSUME NEW n \in Nodes, SeesClose(n) \/ LosesLink(n) PROVE IInv'
  BY <1>1 DEF SeesClose, LosesLink, IInv, TypeOK, EntriesRight, Made, centerVars
<1>2. ASSUME NEW ch \in Channels, Connect(ch) PROVE IInv'
  <2>1. queue' \in Seq(Events) /\ Len(queue') <= MaxEvents + 1 /\ excused' \subseteq Channels
    BY <1>2, PutKeeps, EventFacts DEF Connect, IInv
  <2>2. /\ NodeOf[ch] \in Nodes
        /\ chan' = [chan EXCEPT ![ch] = "active"] /\ link' = [link EXCEPT ![NodeOf[ch]] = ch]
        /\ UNCHANGED <<registry, asked, handling, pool>>
    BY <1>2 DEF Connect
  <2>3. TypeOK'
    BY <2>1, <2>2 DEF IInv, TypeOK, Stages
  <2>4. EntriesRight'
    BY <2>2, <2>3 DEF IInv, TypeOK, EntriesRight, Made
  <2>. QED BY <2>3, <2>4 DEF IInv
<1>3. ASSUME NEW ch \in Channels, Heartbeat(ch) PROVE IInv'
  BY <1>3 DEF Heartbeat, IInv, TypeOK, EntriesRight, Made
<1>. QED BY <1>1, <1>2, <1>3

(* The life of a channel goes on, its events are reported. *)
LEMMA ChannelKeeps ==
  ASSUME IInv, NEW ch \in Channels,
         AllIdle(ch) \/ CloseAsked(ch) \/ CodecFails(ch) \/ ChannelInactive(ch) \/ SocketClosed(ch)
  PROVE  IInv'
<1>1. queue' \in Seq(Events) /\ Len(queue') <= MaxEvents + 1 /\ excused' \subseteq Channels
  BY PutKeeps, EventFacts
  DEF AllIdle, CloseAsked, CodecFails, Close, ChannelInactive, SocketClosed, IInv, TypeOK
<1>2. /\ chan' \in [Channels -> Stages] /\ \A c \in Channels : chan[c] # "none" => chan'[c] # "none"
      /\ asked' \subseteq Channels
      /\ UNCHANGED <<registry, handling, pool, link>>
  BY DEF AllIdle, CloseAsked, CodecFails, Close, ChannelInactive, SocketClosed, IInv, TypeOK, Stages
<1>3. TypeOK'
  BY <1>1, <1>2 DEF IInv, TypeOK
<1>4. EntriesRight'
  BY <1>2 DEF IInv, TypeOK, EntriesRight, Made
<1>. QED BY <1>3, <1>4 DEF IInv

LEMMA CenterKeeps ==
  ASSUME IInv
  PROVE  /\ \A ch \in Channels : Register(ch) => IInv'
         /\ TakeEvent \/ Unregister => IInv'
<1>1. ASSUME NEW ch \in Channels, Register(ch) PROVE IInv'
  <2>1. NodeOf[ch] \in Nodes /\ Made(ch)
    BY <1>1 DEF Register, IInv, EntriesRight
  <2>2. TypeOK'
    BY <1>1, <2>1 DEF Register, IInv, TypeOK
  <2>3. EntriesRight'
    BY <1>1, <2>1 DEF Register, IInv, TypeOK, EntriesRight, Made
  <2>. QED BY <2>2, <2>3 DEF IInv
<1>2. CASE TakeEvent
  <2>1. queue' \in Seq(Events) /\ Len(queue') <= MaxEvents + 1
    BY <1>2, HeadFacts DEF TakeEvent, IInv
  <2>2. /\ asked' \subseteq Channels
        /\ handling' = <<>> \/ \E e \in {"allIdle", "close"} \X Channels : handling' = <<e>>
    <3>1. CASE Head(queue)[1] \in {"allIdle", "close"}
      <4>1. Head(queue) \in {"allIdle", "close"} \X Channels /\ Head(queue)[2] \in Channels
        BY <1>2, <3>1, HeadFacts, EventFacts DEF TakeEvent, IInv
      <4>. QED BY <1>2, <3>1, <4>1 DEF TakeEvent, IInv, TypeOK
    <3>2. CASE Head(queue)[1] \notin {"allIdle", "close"}
      BY <1>2, <3>2 DEF TakeEvent, IInv, TypeOK
    <3>. QED BY <3>1, <3>2
  <2>. QED BY <1>2, <2>1, <2>2 DEF TakeEvent, IInv, TypeOK, EntriesRight, Made
<1>3. CASE Unregister
  <2>1. PICK e \in {"allIdle", "close"} \X Channels : handling = <<e>>
    BY <1>3 DEF Unregister, IInv, TypeOK
  <2>2. NodeOf[handling[1][2]] \in Nodes
    BY <2>1
  <2>. QED BY <1>3, <2>2 DEF Unregister, IInv, TypeOK, EntriesRight, Made
<1>. QED BY <1>1, <1>2, <1>3

LEMMA NextKeeps == IInv /\ [Next]_vars => IInv'
<1>1. IInv /\ Next => IInv'
  BY ClientKeeps, ChannelKeeps, CenterKeeps DEF Next, HandlerStep
<1>2. IInv /\ UNCHANGED vars => IInv'
  BY DEF IInv, TypeOK, EntriesRight, Made, vars, centerVars
<1>. QED BY <1>1, <1>2

LEMMA InductiveInvariant == Spec => []IInv
BY InitInv, NextKeeps, PTL DEF Spec

(* The registry, the event queue with its bound and the client keep their  *)
(* types.                                                                  *)
THEOREM TypeCorrect == Spec => []TypeOK
<1>1. IInv => TypeOK
  BY DEF IInv
<1>. QED BY <1>1, InductiveInvariant, PTL

(***************************************************************************)
(* What the close events are good for: the channel that the center closes  *)
(* is not left in the registry with nobody to remove it.                   *)
(***************************************************************************)
Queued(ch) == \E i \in 1..Len(queue) : queue[i] = <<"close", ch>>

(* The listener has OUT_BOUND_CLOSE of ch before it, or is in the middle of it. *)
Reported(ch) == Queued(ch) \/ handling = <<<<"close", ch>>>>

ClosingIsReported ==
  \A ch \in Channels :
    chan[ch] = "closing" /\ Registered(ch) => Reported(ch) \/ ch \in excused

ReportStays == \A ch \in Channels : Reported(ch) => Reported(ch)' \/ ~Registered(ch)'

EchoDies ==
  \A ch \in Channels :
    chan[ch] = "gone" => chan'[ch] = "gone" /\ (Reported(ch)' => Reported(ch))

(* What putNettyEvent does to the close events in the queue. *)
LEMMA PutReports ==
  ASSUME TypeOK, NEW event \in Events, PutNettyEvent(event), NEW ch \in Channels
  PROVE  /\ Queued(ch) => Queued(ch)'
         /\ Queued(ch)' => Queued(ch) \/ event = <<"close", ch>>
         /\ event = <<"close", ch>> => Queued(ch)' \/ ch \in excused'
         /\ excused \subseteq excused'
<1>1. CASE Len(queue) <= MaxEvents
  <2>1. queue' = Append(queue, event) /\ excused' = excused
    BY <1>1 DEF PutNettyEvent
  <2>2. /\ Len(queue') = Len(queue) + 1 /\ Len(queue) \in Nat
        /\ queue'[Len(queue) + 1] = event
        /\ \A i \in 1..Len(queue) : queue'[i] = queue[i]
    BY <2>1 DEF TypeOK
  <2>3. ASSUME NEW i \in 1..Len(queue), queue[i] = <<"close", ch>> PROVE Queued(ch)'
    <3>1. i \in 1..Len(queue') /\ queue'[i] = <<"close", ch>>
      BY <2>2, <2>3
    <3>. QED BY <3>1 DEF Queued
  <2>4. ASSUME NEW i \in 1..Len(queue'), queue'[i] = <<"close", ch>>
        PROVE  Queued(ch) \/ event = <<"close", ch>>
    <3>1. i \in 1..Len(queue) \/ i = Len(queue) + 1
      BY <2>2
    <3>. QED BY <2>2, <2>4, <3>1 DEF Queued
  <2>5. ASSUME event = <<"close", ch>> PROVE Queued(ch)'
    <3>1. Len(queue) + 1 \in 1..Len(queue')
      BY <2>2
    <3>. QED BY <2>2, <2>5, <3>1 DEF Queued
  <2>. QED BY <2>1, <2>3, <2>4, <2>5 DEF Queued
<1>2. CASE ~(Len(queue) <= MaxEvents)
  BY <1>2 DEF PutNettyEvent, Queued
<1>. QED BY <1>1, <1>2

(* The steps of connections and of clients report and do not register. *)
Reporting(ch) ==
  \/ Connect(ch) \/ AllIdle(ch) \/ CloseAsked(ch) \/ CodecFails(ch) \/ ChannelInactive(ch)

LEMMA ReportingSteps ==
  ASSUME IInv, NEW d \in Channels, Reporting(d), NEW ch \in Channels
  PROVE  /\ Reported(ch) => Reported(ch)'
         /\ chan[ch] = "gone" => chan'[ch] = "gone" /\ (Reported(ch)' => Reported(ch))
         /\ chan'[ch] = "closing" => chan[ch] = "closing" \/ Reported(ch)' \/ ch \in excused'
         /\ UNCHANGED registry /\ excused \subseteq excused'
<1>0. TypeOK /\ chan \in [Channels -> Stages]
  BY DEF IInv, TypeOK
<1>1. UNCHANGED <<registry, handling>>
  BY DEF Reporting, Connect, AllIdle, CloseAsked, CodecFails, Close, ChannelInactive
<1>2. CASE Connect(d) \/ AllIdle(d) \/ ChannelInactive(d)
  <2>1. PICK event \in {<<"other">>, <<"allIdle", d>>} : PutNettyEvent(event)
    BY <1>2 DEF Connect, AllIdle, ChannelInactive
  <2>2. event \in Events /\ event # <<"close", ch>>
    BY EventFacts
  <2>3. (Queued(ch) <=> Queued(ch)') /\ excused \subseteq excused'
    BY <1>0, <2>1, <2>2, PutReports
  <2>4. (chan[ch] = "gone" => chan'[ch] = "gone") /\ (chan'[ch] = "closing" => chan[ch] = "closing")
    BY <1>0, <1>2 DEF Connect, AllIdle, ChannelInactive
  <2>. QED BY <1>1, <2>3, <2>4 DEF Reported
<1>3. CASE CloseAsked(d) \/ CodecFails(d)
  <2>1. Close(d)
    BY <1>3 DEF CloseAsked, CodecFails
  <2>2. CASE chan[d] = "gone"
    <3>1. UNCHANGED <<chan, queue, excused>>
      BY <2>1, <2>2 DEF Close
    <3>. QED BY <1>1, <3>1 DEF Reported, Queued
  <2>3. CASE chan[d] # "gone"
    <3>1. /\ chan' = [chan EXCEPT ![d] = IF @ = "active" THEN "closing" ELSE @]
          /\ PutNettyEvent(<<"close", d>>)
      BY <2>1, <2>3 DEF Close
    <3>2. <<"close", d>> \in Events
      BY EventFacts
    <3>3. /\ Queued(ch) => Queued(ch)'
          /\ Queued(ch)' => Queued(ch) \/ d = ch
          /\ d = ch => Queued(ch)' \/ ch \in excused'
          /\ excused \subseteq excused'
      BY <1>0, <3>1, <3>2, PutReports
    <3>4. chan'[ch] = IF ch = d /\ chan[ch] = "active" THEN "closing" ELSE chan[ch]
      BY <1>0, <3>1
    <3>. QED BY <1>1, <2>3, <3>3, <3>4 DEF Reported
  <2>. QED BY <2>2, <2>3
<1>. QED BY <1>2, <1>3 DEF Reporting

(* The listener takes a close event over from the queue. *)
LEMMA TakingSteps ==
  ASSUME IInv, TakeEvent, NEW ch \in Channels
  PROVE  Reported(ch) <=> Reported(ch)'
<1>1. /\ queue \in Seq(Events) /\ queue # <<>> /\ handling = <<>> /\ queue' = Tail(queue)
      /\ Head(queue)[1] \in {"allIdle", "close"} => handling' = <<Head(queue)>>
      /\ Head(queue)[1] \notin {"allIdle", "close"} => handling' = <<>>
  BY DEF TakeEvent, IInv, TypeOK
<1>2. /\ Len(queue) \in Nat /\ Len(queue) >= 1 /\ Head(queue) = queue[1]
      /\ Len(queue') = Len(queue) - 1
      /\ \A i \in 1..Len(queue') : queue'[i] = queue[i + 1]
  BY <1>1
<1>3. ASSUME Queued(ch) PROVE Reported(ch)'
  <2>1. PICK i \in 1..Len(queue) : queue[i] = <<"close", ch>>
    BY <1>3 DEF Queued
  <2>2. CASE i = 1
    <3>1. Head(queue) = <<"close", ch>> /\ Head(queue)[1] = "close"
      BY <1>2, <2>1, <2>2
    <3>. QED BY <1>1, <3>1 DEF Reported
  <2>3. CASE i # 1
    <3>1. i - 1 \in 1..Len(queue') /\ queue'[i - 1] = <<"close", ch>>
      BY <1>2, <2>1, <2>3
    <3>. QED BY <3>1 DEF Reported, Queued
  <2>. QED BY <2>2, <2>3
<1>4. ASSUME Queued(ch)' PROVE Queued(ch)
  <2>1. PICK i \in 1..Len(queue') : queue'[i] = <<"close", ch>>
    BY <1>4 DEF Queued
  <2>2. i + 1 \in 1..Len(queue) /\ queue[i + 1] = <<"close", ch>>
    BY <1>2, <2>1
  <2>. QED BY <2>2 DEF Queued
<1>5. ASSUME handling' = <<<<"close", ch>>>> PROVE Queued(ch)
  <2>1. handling' = <<Head(queue)>>
    BY <1>1, <1>5
  <2>2. queue[1] = <<"close", ch>>
    <3>1. handling'[1] = Head(queue) /\ handling'[1] = <<"close", ch>>
      BY <1>5, <2>1
    <3>. QED BY <1>2, <3>1
  <2>. QED BY <1>2, <2>2 DEF Queued
<1>6. handling # <<<<"close", ch>>>>
  BY <1>1
<1>. QED BY <1>3, <1>4, <1>5, <1>6 DEF Reported

(* A close event is done with only when the entry is gone. *)
LEMMA UnregisterSteps ==
  ASSUME IInv, Unregister, NEW ch \in Channels
  PROVE  /\ Reported(ch) => Reported(ch)' \/ ~Registered(ch)'
         /\ Reported(ch)' => Reported(ch)
         /\ Registered(ch)' => Registered(ch)
<1>1. /\ handling' = <<>> /\ UNCHANGED queue
      /\ registry' = [registry EXCEPT ![NodeOf[handling[1][2]]] = NoChannel]
      /\ registry \in [Nodes -> Channels \cup {NoChannel}] /\ NodeOf[ch] \in Nodes
  BY DEF Unregister, IInv, TypeOK
<1>2. Registered(ch)' => Registered(ch)
  BY <1>1 DEF Registered
<1>3. ASSUME handling = <<<<"close", ch>>>> PROVE ~Registered(ch)'
  <2>1. handling[1][2] = ch
    BY <1>3
  <2>. QED BY <1>1, <2>1 DEF Registered
<1>4. Queued(ch) <=> Queued(ch)'
  BY <1>1 DEF Queued
<1>5. handling' # <<<<"close", ch>>>>
  BY <1>1
<1>. QED BY <1>2, <1>3, <1>4, <1>5 DEF Reported

LEMMA ReportSteps ==
  ASSUME IInv, ClosingIsReported, [Next]_vars
  PROVE  ClosingIsReported' /\ ReportStays /\ EchoDies
<1> SUFFICES ASSUME NEW ch \in Channels
             PROVE  /\ chan'[ch] = "closing" /\ Registered(ch)' => Reported(ch)' \/ ch \in excused'
                    /\ Reported(ch) => Reported(ch)' \/ ~Registered(ch)'
                    /\ chan[ch] = "gone" => chan'[ch] = "gone" /\ (Reported(ch)' => Reported(ch))
  BY DEF ClosingIsReported, ReportStays, EchoDies, Registered
<1>0. /\ chan[ch] = "closing" /\ Registered(ch) => Reported(ch) \/ ch \in excused
      /\ chan \in [Channels -> Stages] /\ registry \in [Nodes -> Channels \cup {NoChannel}]
      /\ NodeOf \in [Channels -> Nodes]
  BY DEF ClosingIsReported, IInv, TypeOK
<1>1. ASSUME NEW d \in Channels, Reporting(d)
      PROVE  /\ chan'[ch] = "closing" /\ Registered(ch)' => Reported(ch)' \/ ch \in excused'
             /\ Reported(ch) => Reported(ch)' \/ ~Registered(ch)'
             /\ chan[ch] = "gone" => chan'[ch] = "gone" /\ (Reported(ch)' => Reported(ch))
  BY <1>0, <1>1, ReportingSteps DEF Registered
<1>2. ASSUME NEW d \in Channels, SocketClosed(d) \/ Heartbeat(d)
      PROVE  /\ UNCHANGED <<registry, queue, handling, excused>>
             /\ chan'[ch] = "closing" => chan[ch] = "closing"
             /\ chan[ch] = "gone" => chan'[ch] = "gone"
  BY <1>0, <1>2 DEF SocketClosed, Heartbeat
<1>3. ASSUME NEW n \in Nodes, SeesClose(n) \/ LosesLink(n)
      PROVE  UNCHANGED <<registry, chan, queue, handling, excused>>
  BY <1>3 DEF SeesClose, LosesLink, centerVars
<1>4. ASSUME NEW d \in Channels, Register(d)
      PROVE  /\ UNCHANGED <<chan, queue, handling>> /\ excused \subseteq excused'
             /\ chan[ch] = "closing" /\ Registered(ch)' => Registered(ch) \/ ch \in excused'
  <2>1. /\ registry' = [registry EXCEPT ![NodeOf[d]] = d]
        /\ excused' = IF chan[d] = "active" THEN excused ELSE excused \cup {d}
        /\ UNCHANGED <<chan, queue, handling>>
    BY <1>4 DEF Register
  <2>2. registry'[NodeOf[ch]] = IF NodeOf[ch] = NodeOf[d] THEN d ELSE registry[NodeOf[ch]]
    BY <1>0, <2>1
  <2>. QED BY <2>1, <2>2 DEF Registered
<1>5. CASE TakeEvent
  <2>1. UNCHANGED <<registry, chan, excused>> /\ (Reported(ch) <=> Reported(ch)')
    BY <1>5, TakingSteps DEF TakeEvent
  <2>. QED BY <1>0, <2>1 DEF Registered
<1>6. CASE Unregister
  <2>1. UNCHANGED <<chan, excused>>
    BY <1>6 DEF Unregister
  <2>. QED BY <1>0, <1>6, <2>1, UnregisterSteps
<1>7. CASE UNCHANGED vars
  BY <1>0, <1>7 DEF vars, centerVars, Registered, Reported, Queued
<1>8. UNCHANGED <<queue, handling>> => (Reported(ch) <=> Reported(ch)')
  BY DEF Reported, Queued
<1>9. UNCHANGED registry => (Registered(ch) <=> Registered(ch)')
  BY DEF Registered
<1>. QED BY <1>0, <1>1, <1>2, <1>3, <1>4, <1>5, <1>6, <1>7, <1>8, <1>9 DEF Next, HandlerStep, Reporting

LEMMA ReportInvariant == Spec => [](IInv /\ ClosingIsReported)
<1>1. Init => ClosingIsReported
  BY DEF Init, ClosingIsReported
<1>2. IInv /\ ClosingIsReported /\ [Next]_vars => ClosingIsReported'
  BY ReportSteps
<1>. QED BY <1>1, <1>2, InductiveInvariant, PTL DEF Spec

(* The safety half of ClosedIsUnregistered: a registered channel that the  *)
(* center is closing has an OUT_BOUND_CLOSE in the queue or at the         *)
(* listener, unless one of its heartbeats was handled late or the event    *)
(* met a full queue.                                                       *)
THEOREM ClosingAlwaysReported == Spec => []ClosingIsReported
BY ReportInvariant, PTL

(* The other half: no close event is dropped on the way or taken for one   *)
(* of another channel; it stays until the entry is gone.                   *)
THEOREM NoReportLost == Spec => [][ReportStays]_vars
<1>1. IInv /\ ClosingIsReported /\ [Next]_vars => [ReportStays]_vars
  BY ReportSteps
<1>. QED BY <1>1, ReportInvariant, PTL DEF Spec

(* Why the echo of CloseEchoEnds dies out: once the pipeline of a channel  *)
(* is taken apart, close() reports nothing more, whoever calls it.         *)
THEOREM NoEchoOfTheGone == Spec => [][EchoDies]_vars
<1>1. IInv /\ ClosingIsReported /\ [Next]_vars => [EchoDies]_vars
  BY ReportSteps
<1>. QED BY <1>1, ReportInvariant, PTL DEF Spec
-----------------------------------------------------------------------------
(***************************************************************************)
(* How a connected node can lose its entry.                                *)
(***************************************************************************)
BeingClosed(ch) == ch \in asked \/ chan[ch] \in {"closing", "inactive", "gone"}

QueueMade ==
  \A i \in 1..Len(queue) : queue[i][1] \in {"allIdle", "close"} => Made(queue[i][2])

(* Events are of connections that were made, and whatever event the        *)
(* listener is in the middle of: it has asked for the close of the channel *)
(* before, which may have been done meanwhile, but cannot be undone.       *)
ClosesRight ==
  /\ QueueMade
  /\ \A ch \in asked : Made(ch)
  /\ handling # <<>> => BeingClosed(handling[1][2])

LiveKeepsEntry ==
  \A ch \in Channels :
    Live(ch) /\ Registered(ch) /\ ~Registered(ch)' =>
      \E d \in Channels :
        /\ NodeOf[d] = NodeOf[ch]
        /\ \/ d # ch /\ d \in pool /\ Made(d)
           \/ handling # <<>> /\ handling[1][2] = d /\ BeingClosed(d)

(* What putNettyEvent does to the events in the queue. *)
LEMMA PutMade ==
  ASSUME TypeOK, QueueMade, NEW event \in Events, PutNettyEvent(event),
         \A ch \in Channels : Made(ch) => Made(ch)',
         event[1] \in {"allIdle", "close"} => Made(event[2])'
  PROVE  QueueMade'
<1>1. \A i \in 1..Len(queue) : queue[i][1] \in {"allIdle", "close"} =>
        queue[i][2] \in Channels /\ chan'[queue[i][2]] # "none"
  BY DEF QueueMade, Made
<1>2. CASE Len(queue) <= MaxEvents
  <2>0. queue' = Append(queue, event) /\ queue \in Seq(Events)
    BY <1>2 DEF PutNettyEvent, TypeOK
  <2>1. /\ Len(queue') = Len(queue) + 1 /\ Len(queue) \in Nat
        /\ queue'[Len(queue) + 1] = event
        /\ \A i \in 1..Len(queue) : queue'[i] = queue[i]
    BY <2>0
  <2>2. ASSUME NEW i \in 1..Len(queue') PROVE i \in 1..Len(queue) \/ i = Len(queue) + 1
    BY <2>1
  <2>. QED BY <1>1, <2>1, <2>2 DEF QueueMade, Made
<1>3. CASE ~(Len(queue) <= MaxEvents)
  BY <1>1, <1>3 DEF PutNettyEvent, QueueMade, Made
<1>. QED BY <1>2, <1>3

(* Connections are made for good, and a close is not taken back. *)
LEMMA StagesGoOn ==
  ASSUME IInv, [Next]_vars, NEW ch \in Channels, Made(ch)
  PROVE  Made(ch)' /\ (chan[ch] \in {"closing", "inactive", "gone"} =>
                         chan'[ch] \in {"closing", "inactive", "gone"})
<1>0. chan \in [Channels -> Stages]
  BY DEF IInv, TypeOK
<1>1. ASSUME NEW d \in Channels,
             Connect(d) \/ CloseAsked(d) \/ CodecFails(d) \/ SocketClosed(d) \/ ChannelInactive(d)
      PROVE  Made(ch)' /\ (chan[ch] \in {"closing", "inactive", "gone"} =>
                             chan'[ch] \in {"closing", "inactive", "gone"})
  BY <1>0, <1>1 DEF Connect, CloseAsked, CodecFails, Close, SocketClosed, ChannelInactive, Made
<1>2. CASE UNCHANGED chan
  BY <1>2 DEF Made
<1>. QED
  BY <1>1, <1>2
  DEF Next, HandlerStep, SeesClose, LosesLink, Heartbeat, AllIdle, Register, TakeEvent, Unregister,
      vars, centerVars

(* The steps of connections: what they ask for and report is of            *)
(* connections that were made.                                             *)
LEMMA ChannelsCloseRight ==
  ASSUME IInv, ClosesRight, Next, NEW d \in Channels, Reporting(d)
  PROVE  ClosesRight'
<1>0. /\ TypeOK /\ chan \in [Channels -> Stages] /\ asked \subseteq Channels
      /\ handling # <<>> => handling[1][2] \in Channels
  BY DEF IInv, TypeOK
<1>1. /\ UNCHANGED handling
      /\ UNCHANGED asked \/ (asked' = asked \ {d} /\ chan'[d] \in {"closing", "inactive", "gone"})
      /\ UNCHANGED queue \/ \E event \in {<<"other">>, <<"allIdle", d>>, <<"close", d>>} :
           PutNettyEvent(event) /\ (event # <<"other">> => Made(d))
  <2>1. CASE Connect(d) \/ AllIdle(d) \/ ChannelInactive(d)
    BY <2>1 DEF Connect, AllIdle, ChannelInactive, Made
  <2>2. CASE CloseAsked(d) \/ CodecFails(d)
    <3>1. Close(d) /\ Made(d)
      BY <2>2 DEF CloseAsked, CodecFails, ClosesRight, Made
    <3>2. chan[d] \in {"active", "closing", "inactive", "gone"}
      BY <1>0, <3>1 DEF Made, Stages
    <3>3. chan'[d] \in {"closing", "inactive", "gone"}
      BY <1>0, <3>1, <3>2 DEF Close
    <3>. QED BY <3>1, <3>3 DEF Close
  <2>. QED BY <2>1, <2>2 DEF Reporting
<1>2. \A ch \in Channels : Made(ch) => Made(ch)'
  BY StagesGoOn
<1>3. QueueMade'
  <2>1. CASE UNCHANGED queue
    BY <1>2, <2>1 DEF ClosesRight, QueueMade, Made
  <2>2. ASSUME NEW event \in {<<"other">>, <<"allIdle", d>>, <<"close", d>>},
               PutNettyEvent(event), event # <<"other">> => Made(d)
        PROVE  QueueMade'
    <3>1. event \in Events /\ (event[1] \in {"allIdle", "close"} => Made(event[2])')
      BY <1>2, <2>2, EventFacts
    <3>2. QueueMade
      BY DEF ClosesRight
    <3>. QED BY <1>0, <1>2, <2>2, <3>1, <3>2, PutMade
  <2>. QED BY <1>1, <2>1, <2>2
<1>4. \A ch \in asked' : Made(ch)'
  <2>1. asked' \subseteq asked
    BY <1>1
  <2>. QED BY <1>0, <1>2, <2>1 DEF ClosesRight
<1>5. ASSUME handling' # <<>> PROVE BeingClosed(handling[1][2])'
  <2> DEFINE ch == handling[1][2]
  <2>1. ch \in Channels /\ BeingClosed(ch) /\ handling' = handling
    BY <1>0, <1>1, <1>5 DEF ClosesRight
  <2>2. Made(ch)
    BY <2>1 DEF BeingClosed, ClosesRight, Made
  <2>3. chan[ch] \in {"closing", "inactive", "gone"} => chan'[ch] \in {"closing", "inactive", "gone"}
    BY <2>1, <2>2, StagesGoOn
  <2>. QED BY <1>1, <2>1, <2>3 DEF BeingClosed
<1>. QED BY <1>3, <1>4, <1>5 DEF ClosesRight

(* The listener: it asks for the close of the channel before it goes on. *)
LEMMA ListenerClosesRight ==
  ASSUME IInv, ClosesRight, TakeEvent
  PROVE  ClosesRight'
<1>1. /\ queue \in Seq(Events) /\ queue # <<>> /\ queue' = Tail(queue) /\ UNCHANGED chan
      /\ \/ Head(queue)[1] \in {"allIdle", "close"} /\ asked' = asked \cup {Head(queue)[2]}
            /\ handling' = <<Head(queue)>>
         \/ UNCHANGED <<asked, handling>>
  BY DEF TakeEvent, IInv, TypeOK
<1>2. /\ Len(queue) \in Nat /\ 1 \in 1..Len(queue) /\ Head(queue) = queue[1]
      /\ \A i \in 1..Len(queue') : queue'[i] = queue[i + 1] /\ i + 1 \in 1..Len(queue)
  BY <1>1
<1>3. QueueMade'
  BY <1>1, <1>2 DEF ClosesRight, QueueMade, Made
<1>4. \A ch \in asked' : Made(ch)'
  BY <1>1, <1>2 DEF ClosesRight, QueueMade, Made
<1>5. handling' # <<>> => BeingClosed(handling[1][2])'
  BY <1>1 DEF ClosesRight, BeingClosed
<1>. QED BY <1>3, <1>4, <1>5 DEF ClosesRight

LEMMA NextClosesRight ==
  ASSUME IInv, ClosesRight, [Next]_vars
  PROVE  ClosesRight'
<1>1. ASSUME NEW d \in Channels, Next, Reporting(d) PROVE ClosesRight'
  BY <1>1, ChannelsCloseRight
<1>2. CASE TakeEvent
  BY <1>2, ListenerClosesRight
<1>3. CASE Unregister
  BY <1>3 DEF Unregister, ClosesRight, QueueMade, Made
<1>4. ASSUME NEW d \in Channels, SocketClosed(d) PROVE ClosesRight'
  <2>1. UNCHANGED <<asked, queue, handling>> /\ chan' = [chan EXCEPT ![d] = "inactive"]
        /\ chan \in [Channels -> Stages]
    BY <1>4 DEF SocketClosed, IInv, TypeOK
  <2>2. \A ch \in Channels : /\ Made(ch) => Made(ch)'
                             /\ BeingClosed(ch) => BeingClosed(ch)'
    BY <2>1 DEF Made, BeingClosed
  <2>3. handling # <<>> => handling[1][2] \in Channels
    BY DEF IInv, TypeOK
  <2>4. QueueMade'
    BY <2>1, <2>2 DEF ClosesRight, QueueMade, Made
  <2>. QED BY <2>1, <2>2, <2>3, <2>4 DEF ClosesRight, Made, BeingClosed
<1>5. CASE UNCHANGED <<chan, asked, queue, handling>>
  BY <1>5 DEF ClosesRight, QueueMade, Made, BeingClosed
<1>. QED
  BY <1>1, <1>2, <1>3, <1>4, <1>5
  DEF Next, HandlerStep, Reporting, SeesClose, LosesLink, Heartbeat, Register, vars, centerVars

(* The safety half of StaysRegistered: a client that is connected loses    *)
(* its entry in two ways only - to another of its connections, by a        *)
(* heartbeat of it that is handled late, or by an event of a connection    *)
(* that is closed or asked to close, its own if it is this one that is to  *)
(* be closed.  No event takes the entry of a working connection from it    *)
(* without closing that or another connection of the same client.          *)
THEOREM LiveEntryKept == Spec => [][LiveKeepsEntry]_vars
<1>1. Init => ClosesRight
  BY DEF Init, ClosesRight, QueueMade
<1>2. IInv /\ ClosesRight /\ [Next]_vars => ClosesRight'
  BY NextClosesRight
<1>3. IInv /\ ClosesRight /\ [Next]_vars => [LiveKeepsEntry]_vars
  <2>. SUFFICES ASSUME IInv, ClosesRight, Next, NEW ch \in Channels, Registered(ch), ~Registered(ch)'
                PROVE  \E d \in Channels :
                         /\ NodeOf[d] = NodeOf[ch]
                         /\ \/ d # ch /\ d \in pool /\ Made(d)
                            \/ handling # <<>> /\ handling[1][2] = d /\ BeingClosed(d)
    BY DEF LiveKeepsEntry
  <2>0. registry \in [Nodes -> Channels \cup {NoChannel}] /\ NodeOf \in [Channels -> Nodes]
    BY DEF IInv, TypeOK
  <2>1. UNCHANGED registry \/ Unregister \/ \E d \in Channels : Register(d)
    BY DEF Next, HandlerStep, SeesClose, LosesLink, Connect, Heartbeat, AllIdle, CloseAsked, CodecFails,
           Close, ChannelInactive, SocketClosed, TakeEvent, centerVars
  <2>2. CASE UNCHANGED registry
    BY <2>2 DEF Registered
  <2>3. ASSUME NEW d \in Channels, Register(d)
        PROVE  NodeOf[d] = NodeOf[ch] /\ d # ch /\ d \in pool /\ Made(d)
    BY <2>0, <2>3 DEF Register, Registered, IInv, EntriesRight
  <2>4. CASE Unregister
    <3>1. /\ handling # <<>> /\ handling[1][2] \in Channels
          /\ registry' = [registry EXCEPT ![NodeOf[handling[1][2]]] = NoChannel]
      BY <2>4 DEF Unregister, IInv, TypeOK
    <3>2. NodeOf[handling[1][2]] = NodeOf[ch]
      BY <2>0, <3>1 DEF Registered
    <3>. QED BY <3>1, <3>2 DEF ClosesRight
  <2>. QED BY <2>1, <2>2, <2>3, <2>4
<1>. QED BY <1>1, <1>2, <1>3, InductiveInvariant, PTL DEF Spec
=============================================================================
