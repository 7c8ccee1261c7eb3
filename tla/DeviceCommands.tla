--------------------------- MODULE DeviceCommands ---------------------------
(***************************************************************************)
(* The IoT module (local/iot.rs): devices with an owner, the log of the    *)
(* commands published for them, and the subscribers a published command    *)
(* is sent to; and the threads that carry a command stream to its client   *)
(* (open_command_stream, stream_iot_subscription of main.rs).              *)
(*                                                                         *)
(* The state is behind one mutex.  A publication is one hold of it; opening*)
(* a stream is two, a check of the device and the subscription, so commands*)
(* are published in between.  A subscriber leaves the list only when a     *)
(* command is sent to it after its thread has dropped the receiver.        *)
(*                                                                         *)
(* A command keeps its number, device, tenant (the second part of its      *)
(* topic) and issuer; its action and time are left out.  Nothing is        *)
(* persisted: a restarted gateway begins in Init.                          *)
(***************************************************************************)
EXTENDS Integers, Sequences, SequencesExt, Queries

CONSTANTS
  Streams,      \* connections that ask for a command stream
  Viewers,      \* resolved sessions: app, tenant, uid, anonymous
  Devices,      \* configured devices, in order
  ConfiguredCommands,  \* commands of the configuration, in order
  Topics,       \* topics a prepared request may name: tenant and device
  RecentLimit,  \* commands a list shows (10)
  MaxCommands   \* bound: commands in the log

App == "iot-realtime"

ASSUME DevicesAssumption ==
  /\ \A v \in Viewers : DOMAIN v = {"app", "tenant", "uid", "anonymous"}
  /\ DOMAIN Devices \subseteq Nat
  /\ \A i \in DOMAIN Devices : DOMAIN Devices[i] = {"id", "tenant", "owner"}
  /\ ConfiguredCommands \in Seq(Range(ConfiguredCommands))
  /\ RecentLimit \in Nat \ {0} /\ MaxCommands \in Nat
  /\ Len(ConfiguredCommands) <= MaxCommands

DeviceIds == {Devices[i].id : i \in DOMAIN Devices}

Command ==
  Range(ConfiguredCommands) \cup
  [number : Nat, device : DeviceIds, tenant : {v.tenant : v \in Viewers},
   issuer : {v.uid : v \in Viewers}]

VARIABLES
  commands,       \* the log
  nextCommandId,
  subscribers,    \* stream, tenant, issuer, device; nothing depends on their order
  place,          \* where a stream's thread stands
  viewer,         \* the session it was opened with
  device,         \* the device it was opened for
  queue,          \* commands in its channel
  written,        \* history: commands written to its client
  since,          \* history: length of the log when it subscribed
  departed        \* streams whose client has closed the connection

log == <<commands, nextCommandId>>
threads == <<place, viewer, device, queue, written, since>>
vars == <<commands, nextCommandId, subscribers, place, viewer, device, queue,
          written, since, departed>>

NoViewer == [uid |-> "none"]
NoDevice == [id |-> "none"]

\* can_access_device: a visitor sees all of his tenant.
CanAccess(item, v) ==
  /\ item.tenant = v.tenant
  /\ v.anonymous \/ item.owner = v.uid

\* execute lets only the owner through, whether or not he is anonymous.
Owns(item, v) == item.tenant = v.tenant /\ item.owner = v.uid

VisibleDevices(v) == {i \in DOMAIN Devices : CanAccess(Devices[i], v)}
OwnedDevices(v) == {i \in DOMAIN Devices : Owns(Devices[i], v)}

\* The first device among those at the places with the id, if any.
Found(id, places) ==
  {Devices[i] : i \in {j \in places :
     Devices[j].id = id /\ \A k \in places : Devices[k].id = id => j <= k}}

\* require_session: the session of another app is refused.
Admitted(v) == v.app = App

\* The list a viewer gets: his own commands of his tenant, newest first.
RecentCommands(v) ==
  LET own == Selected(commands, [issuer |-> v.uid, tenant |-> v.tenant])
  IN Page(Reverse(own), 0, RecentLimit)
----------------------------------------------------------------------------
Init ==
  /\ commands = ConfiguredCommands
  /\ nextCommandId = Len(ConfiguredCommands) + 1
  /\ subscribers = {}
  /\ place = [s \in Streams |-> "idle"]
  /\ viewer = [s \in Streams |-> NoViewer]
  /\ device = [s \in Streams |-> NoDevice]
  /\ queue = [s \in Streams |-> <<>>]
  /\ written = [s \in Streams |-> <<>>]
  /\ since = [s \in Streams |-> 0]
  /\ departed = {}

\* A subscribed stream has a receiver until its thread returns.
HasReceiver(s) == place[s] \in {"headers", "open"}

MatchesDevice(subscriber, c) ==
  /\ subscriber.tenant = c.tenant
  /\ subscriber.device = c.device

Matches(subscriber, c) ==
  /\ subscriber.tenant = c.tenant
  /\ subscriber.issuer = c.issuer
  /\ subscriber.device = c.device

RetainedAll(c) == subscribers

RetainedMatching(c) ==
  {sub \in subscribers : Matches(sub, c) /\ HasReceiver(sub.stream)}

\* retain: a subscriber that matches and cannot be sent to is dropped.
Retained(c) ==
  {sub \in subscribers : Matches(sub, c) => HasReceiver(sub.stream)}

\* publish_command_record: log the command and send it to who it matches.
PublishRecord(id, topic, uid) ==
  LET c == [number |-> nextCommandId, device |-> id, tenant |-> topic.tenant,
            issuer |-> uid]
      Receives(s) == \E sub \in subscribers : sub.stream = s /\ Matches(sub, c)
  IN
  /\ Len(commands) < MaxCommands
  /\ commands' = Append(commands, c)
  /\ nextCommandId' = nextCommandId + 1
  /\ subscribers' = Retained(c)
  /\ queue' = [s \in Streams |->
       IF HasReceiver(s) /\ Receives(s) THEN Append(queue[s], c) ELSE queue[s]]
  /\ UNCHANGED <<place, viewer, device, written, since, departed>>

\* POST /apps/iot-realtime/commands
PostCommand(v, id) ==
  /\ Admitted(v)
  /\ \E d \in Found(id, VisibleDevices(v)) :
       PublishRecord(id, [tenant |-> d.tenant, device |-> d.id], v.uid)

\* iot.device-command.publish, with the topic the gateway prepared
ExecutePublish(v, id, topic) ==
  \E d \in Found(id, OwnedDevices(v)) :
    /\ topic = [tenant |-> d.tenant, device |-> d.id]
    /\ PublishRecord(id, topic, v.uid)
----------------------------------------------------------------------------
\* open_command_stream, first hold of the mutex
CheckDevice(s, v, id) ==
  /\ place[s] = "idle"
  /\ Admitted(v)
  /\ \E d \in Found(id, VisibleDevices(v)) :
       device' = [device EXCEPT ![s] = d]
  /\ viewer' = [viewer EXCEPT ![s] = v]
  /\ place' = [place EXCEPT ![s] = "checked"]
  /\ UNCHANGED <<log, subscribers, queue, written, since, departed>>

\* An error before the stream is open ends the connection without an answer.
RefuseStream(s, v, id) ==
  /\ place[s] = "idle"
  /\ ~Admitted(v) \/ Found(id, VisibleDevices(v)) = {}
  /\ place' = [place EXCEPT ![s] = "ended"]
  /\ UNCHANGED <<log, subscribers, viewer, device, queue, written, since, departed>>

\* open_command_stream, second hold of the mutex
Subscribe(s) ==
  /\ place[s] = "checked"
  /\ subscribers' = subscribers \cup
       {[stream |-> s, tenant |-> device[s].tenant, issuer |-> viewer[s].uid,
         device |-> device[s].id]}
  /\ since' = [since EXCEPT ![s] = Len(commands)]
  /\ place' = [place EXCEPT ![s] = "headers"]
  /\ UNCHANGED <<log, viewer, device, queue, written, departed>>

WriteHeaders(s) ==
  /\ place[s] = "headers"
  /\ place' = [place EXCEPT ![s] = "open"]
  /\ UNCHANGED <<log, subscribers, viewer, device, queue, written, since, departed>>

\* recv_timeout returned a command: it goes to the client, if he is there.
WriteCommand(s) ==
  /\ place[s] = "open" /\ queue[s] # <<>>
  /\ queue' = [queue EXCEPT ![s] = Tail(@)]
  /\ written' = IF s \in departed THEN written
                ELSE [written EXCEPT ![s] = Append(@, Head(queue[s]))]
  /\ UNCHANGED <<log, subscribers, place, viewer, device, since, departed>>

\* Headers, a command or, after five idle seconds, a keepalive cannot be
\* written: the thread returns and its receiver is dropped.
EndStream(s) ==
  /\ place[s] \in {"headers", "open"} /\ s \in departed
  /\ place' = [place EXCEPT ![s] = "ended"]
  /\ queue' = [queue EXCEPT ![s] = <<>>]
  /\ UNCHANGED <<log, subscribers, viewer, device, written, since, departed>>

Depart(s) ==
  /\ place[s] \in {"checked", "headers", "open"}
  /\ s \notin departed
  /\ departed' = departed \cup {s}
  /\ UNCHANGED <<log, subscribers, threads>>

StreamStep(s) ==
  \/ Subscribe(s) \/ WriteHeaders(s) \/ WriteCommand(s) \/ EndStream(s)

Next ==
  \/ \E v \in Viewers, id \in DeviceIds :
       \/ PostCommand(v, id)
       \/ \E topic \in Topics : ExecutePublish(v, id, topic)
       \/ \E s \in Streams : CheckDevice(s, v, id) \/ RefuseStream(s, v, id)
  \/ \E s \in Streams : StreamStep(s) \/ Depart(s)

Spec == Init /\ [][Next]_vars

\* A stream's thread runs, and a write to a closed connection fails in the end.
Fairness == \A s \in Streams : WF_vars(StreamStep(s)) /\ WF_vars(EndStream(s))

FairSpec == Spec /\ Fairness
----------------------------------------------------------------------------
TypeOK ==
  /\ commands \in Seq(Command) /\ Len(commands) <= MaxCommands
  /\ nextCommandId \in Nat
  /\ subscribers \subseteq
       [stream : Streams, tenant : {v.tenant : v \in Viewers},
        issuer : {v.uid : v \in Viewers}, device : DeviceIds]
  /\ place \in [Streams -> {"idle", "checked", "headers", "open", "ended"}]
  /\ viewer \in [Streams -> Viewers \cup {NoViewer}]
  /\ device \in [Streams -> Range(Devices) \cup {NoDevice}]
  /\ queue \in [Streams -> Seq(Command)] /\ written \in [Streams -> Seq(Command)]
  /\ since \in [Streams -> 0..MaxCommands]
  /\ departed \subseteq Streams

\* The commands that are for a stream.
Wanted(s) ==
  [device |-> device[s].id, tenant |-> device[s].tenant, issuer |-> viewer[s].uid]

(* A client that stays on the line sees, or has waiting for him, every       *)
(* command he issued for the device since the stream subscribed, once and in *)
(* the order of the log, whoever else published and whatever other streams   *)
(* came and went; of the commands before, published while the stream was     *)
(* between its two holds of the mutex, he sees none.                         *)
StreamComplete ==
  \A s \in Streams : HasReceiver(s) /\ s \notin departed =>
    written[s] \o queue[s] =
      Selected(SubSeq(commands, since[s] + 1, Len(commands)), Wanted(s))

(* A stream shows its viewer nothing his list would keep from him: every     *)
(* command that reached him is his own, of his tenant, for a device he may   *)
(* use, and unless the list is full of newer ones it is in his list.         *)
StreamsApart ==
  \A s \in Streams : \A i \in DOMAIN written[s] :
    LET c == written[s][i] IN
    /\ c.issuer = viewer[s].uid /\ c.tenant = viewer[s].tenant
    /\ \E d \in VisibleDevices(viewer[s]) : Devices[d].id = c.device
    /\ \/ c \in Range(RecentCommands(viewer[s]))
       \/ Len(RecentCommands(viewer[s])) = RecentLimit

(* A subscriber without a receiver costs at most one command: it is gone     *)
(* after the next that matches it (publish_command_record).                  *)
EndedAreDropped ==
  [][\A sub \in subscribers' :
       Len(commands') > Len(commands) /\ place[sub.stream] = "ended"
         => ~Satisfies(Last(commands'), Wanted(sub.stream))]_vars

(* A stream whose client left ends, and its subscriber is soon forgotten.    *)
DepartedStreamsEnd ==
  /\ \A s \in Streams : s \in departed ~> place[s] = "ended"
  /\ EndedAreDropped
=============================================================================
