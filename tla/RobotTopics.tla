----------------------------- MODULE RobotTopics -----------------------------
(***************************************************************************)
(* The ROS 2 module (local/ros2.rs): topics of robots, their message log,  *)
(* and the threads that carry a topic's stream to a client                 *)
(* (stream_ros2_subscription of main.rs).                                  *)
(*                                                                         *)
(* With no backend configured the module keeps the log itself, behind one  *)
(* mutex, and feeds its subscribers.  With one, the app's publications,    *)
(* reads and streams go to the backend over HTTP while policy commands     *)
(* still use the module's own log.  A proxied publication is a request the *)
(* gateway waits five seconds for: it may give up on one that is carried   *)
(* out later, or was already.                                              *)
(*                                                                         *)
(* The backend is apps/examples/ros2-backend/server.mjs, a single-threaded *)
(* service of one tenant, modelled as the gateway uses it; it may restart  *)
(* and forget.  A message keeps its number, tenant, topic, robot and       *)
(* issuer, and the call that published it; its type and payload are left   *)
(* out, and with them the checks that a request has them.                  *)
(***************************************************************************)
EXTENDS FiniteSets, Integers, Sequences, SequencesExt

CONSTANTS
  Streams,        \* connections that ask for a topic's stream
  Calls,          \* publications, each one call
  Viewers,        \* resolved sessions: app, tenant, uid, anonymous, anon_uid
  Topics,
  Robots, RemoteRobots,      \* configured: id, tenant, owner
  AllowedTopics, RemoteAllowedTopics,
  Configured, RemoteSeed,    \* messages the logs begin with
  RemoteTenant,
  RecentLimit,    \* messages a list shows (12)
  MaxRestarts     \* bound: restarts of the backend

App == "ros2-bridge"

ASSUME TopicsAssumption ==
  /\ \A v \in Viewers : DOMAIN v = {"app", "tenant", "uid", "anonymous", "anon_uid"}
  /\ \A i \in DOMAIN Robots : DOMAIN Robots[i] = {"id", "tenant", "owner"}
  /\ \A i \in DOMAIN RemoteRobots :
       DOMAIN RemoteRobots[i] = {"id", "tenant", "owner"}
  /\ AllowedTopics \subseteq Topics /\ RemoteAllowedTopics \subseteq Topics
  /\ Configured \in Seq(Range(Configured)) /\ RemoteSeed \in Seq(Range(RemoteSeed))
  /\ RecentLimit \in Nat \ {0} /\ MaxRestarts \in Nat

\* A message the logs begin with is no call's.
ASSUME SeedAssumption == \A m \in Range(Configured \o RemoteSeed) : m.call \notin Calls

VARIABLES
  backed,       \* backend_base_url is configured
  messages,     \* the module's log
  subscribers,  \* stream, tenant, topic; nothing depends on their order
  place,        \* where a stream's thread stands
  asked,        \* the topic and tenant it was opened for
  queue,        \* messages in its channel, or on their way from the backend
  written,      \* history: messages written to its client
  since,        \* history: length of the log when it subscribed
  departed,     \* streams whose client has closed the connection
  outcome,      \* what became of a publication, as its caller knows
  flight,       \* the proxied request of a call that is under way
  reply,        \* the backend's answer on its way back
  remote,       \* the backend's log
  attached,     \* streams the backend writes to
  restarts,
  forgotten     \* history: calls whose message a restart lost

threads == <<place, asked, queue, written, since>>
calls == <<outcome, flight, reply>>
backend == <<remote, attached, restarts, forgotten>>
vars == <<backed, messages, subscribers, place, asked, queue, written, since,
          departed, outcome, flight, reply, remote, attached, restarts, forgotten>>

NoTopic == [topic |-> "none"]

Tenants == {RemoteTenant} \cup {v.tenant : v \in Viewers}
RobotIds == {Robots[i].id : i \in DOMAIN Robots}

LogEntry ==
  Range(Configured) \cup Range(RemoteSeed) \cup
  [number : Nat \ {0}, tenant : Tenants, topic : AllowedTopics \cup RemoteAllowedTopics,
   robot : RobotIds, issuer : {v.uid : v \in Viewers}, call : Calls]

\* Who asks: {} is a request no session was resolved for.
Sessions == {{}} \cup {{v} : v \in Viewers}

\* require_session
Admitted(session) == \E v \in session : v.app = App

\* ensure_robot_access; the handler and execute tell a visitor differently.
HasRobot(tenant, uid, visitor, robot) ==
  \E i \in DOMAIN Robots :
    /\ Robots[i].id = robot /\ Robots[i].tenant = tenant
    /\ visitor \/ Robots[i].owner = uid

\* matchRobot of the backend
RemoteHasRobot(v, robot) ==
  \E i \in DOMAIN RemoteRobots :
    /\ RemoteRobots[i].id = robot /\ RemoteRobots[i].tenant = RemoteTenant
    /\ v.anon_uid \/ RemoteRobots[i].owner = v.uid

Message(log, tenant, topic, robot, uid, call) ==
  [number |-> Len(log) + 1, tenant |-> tenant, topic |-> topic, robot |-> robot,
   issuer |-> uid, call |-> call]

\* The messages of a tenant's topic, in the order of the log.
OfTopic(log, tenant, topic) ==
  LET kept[n \in 0..Len(log)] ==
        IF n = 0 THEN <<>>
        ELSE IF log[n].tenant = tenant /\ log[n].topic = topic
               THEN Append(kept[n - 1], log[n])
               ELSE kept[n - 1]
  IN kept[Len(log)]

\* latest_message: {} is a topic without one, answered with an error.
LatestMessage(all) == IF all = <<>> THEN {} ELSE {Last(all)}

\* recent_messages: at most RecentLimit, newest first.
RecentMessages(all) ==
  SubSeq(Reverse(all), 1, IF Len(all) < RecentLimit THEN Len(all) ELSE RecentLimit)

\* What the app's routes read for a viewer; the backend has one tenant.
\* The policies ros2.topic.read-* read the module's own log in either case.
AppMessages(tenant, topic) ==
  IF backed THEN OfTopic(remote, RemoteTenant, topic) ELSE OfTopic(messages, tenant, topic)
----------------------------------------------------------------------------
Init ==
  /\ backed \in BOOLEAN
  /\ messages = Configured
  /\ subscribers = {}
  /\ place = [s \in Streams |-> "idle"]
  /\ asked = [s \in Streams |-> NoTopic]
  /\ queue = [s \in Streams |-> <<>>]
  /\ written = [s \in Streams |-> <<>>]
  /\ since = [s \in Streams |-> 0]
  /\ departed = {}
  /\ outcome = [c \in Calls |-> "none"]
  /\ flight = [c \in Calls |-> {}]
  /\ reply = [c \in Calls |-> "none"]
  /\ remote = RemoteSeed
  /\ attached = {} /\ restarts = 0 /\ forgotten = {}

HasReceiver(s) == place[s] \in {"headers", "open"}

MatchesTopic(subscriber, m) == subscriber.topic = m.topic

Matches(subscriber, m) == subscriber.tenant = m.tenant /\ subscriber.topic = m.topic

\* publish_message: log it, send it, drop who cannot be sent to.
PublishMessage(c, tenant, uid, visitor, robot, topic) ==
  LET m == Message(messages, tenant, topic, robot, uid, c)
      Receives(s) == \E sub \in subscribers : sub.stream = s /\ Matches(sub, m)
  IN
  /\ outcome[c] = "none"
  /\ IF topic \in AllowedTopics /\ HasRobot(tenant, uid, visitor, robot)
     THEN /\ messages' = Append(messages, m)
          /\ subscribers' = {sub \in subscribers : Matches(sub, m) => HasReceiver(sub.stream)}
          /\ queue' = [s \in Streams |->
               IF HasReceiver(s) /\ Receives(s) THEN Append(queue[s], m) ELSE queue[s]]
          /\ outcome' = [outcome EXCEPT ![c] = "published"]
     ELSE /\ outcome' = [outcome EXCEPT ![c] = "refused"]
          /\ UNCHANGED <<messages, subscribers, queue>>
  /\ UNCHANGED <<backed, place, asked, written, since, departed, flight, reply, backend>>

\* POST /apps/ros2-bridge/messages, without a backend
PostMessage(c, v, robot, topic) ==
  /\ ~backed /\ Admitted({v})
  /\ PublishMessage(c, v.tenant, v.uid, v.anonymous, robot, topic)

\* ros2.topic.publish, with or without a backend
ExecutePublish(c, v, robot, topic) ==
  PublishMessage(c, v.tenant, v.uid, v.anon_uid, robot, topic)

RefusePost(c, session) ==
  /\ outcome[c] = "none" /\ ~Admitted(session)
  /\ outcome' = [outcome EXCEPT ![c] = "refused"]
  /\ UNCHANGED <<backed, messages, subscribers, threads, departed, flight, reply, backend>>
----------------------------------------------------------------------------
\* proxy_publish_message: nothing but the request's shape is checked here.
PostProxied(c, v, robot, topic) ==
  /\ backed /\ Admitted({v})
  /\ outcome[c] = "none"
  /\ outcome' = [outcome EXCEPT ![c] = "waiting"]
  /\ flight' = [flight EXCEPT ![c] = {[viewer |-> v, robot |-> robot, topic |-> topic]}]
  /\ UNCHANGED <<backed, messages, subscribers, threads, departed, reply, backend>>

\* The backend carries the request out, whether or not it is still awaited.
BackendPublishes(c) ==
  /\ \E r \in flight[c] :
       LET m == Message(remote, RemoteTenant, r.topic, r.robot, r.viewer.uid, c) IN
       IF r.topic \in RemoteAllowedTopics /\ RemoteHasRobot(r.viewer, r.robot)
       THEN /\ remote' = Append(remote, m)
            /\ queue' = [s \in Streams |->
                 IF s \in attached /\ asked[s].topic = r.topic
                 THEN Append(queue[s], m) ELSE queue[s]]
            /\ reply' = [reply EXCEPT ![c] = "published"]
       ELSE /\ reply' = [reply EXCEPT ![c] = "refused"]
            /\ UNCHANGED <<remote, queue>>
  /\ flight' = [flight EXCEPT ![c] = {}]
  /\ UNCHANGED <<backed, messages, subscribers, place, asked, written, since, departed,
                 outcome, attached, restarts, forgotten>>

AnswerProxied(c) ==
  /\ outcome[c] = "waiting" /\ reply[c] # "none"
  /\ outcome' = [outcome EXCEPT ![c] = reply[c]]
  /\ UNCHANGED <<backed, messages, subscribers, threads, departed, flight, reply, backend>>

\* The answer is a transport error: the request may be under way, done or lost.
GiveUpAsRefused(c) ==
  /\ outcome[c] = "waiting"
  /\ outcome' = [outcome EXCEPT ![c] = "refused"]
  /\ UNCHANGED <<backed, messages, subscribers, threads, departed, flight, reply, backend>>

GiveUp(c) ==
  /\ outcome[c] = "waiting"
  /\ outcome' = [outcome EXCEPT ![c] = "unknown"]
  /\ UNCHANGED <<backed, messages, subscribers, threads, departed, flight, reply, backend>>

BackendRestarts ==
  /\ backed /\ restarts < MaxRestarts
  /\ restarts' = restarts + 1
  /\ forgotten' = forgotten \cup {remote[i].call : i \in DOMAIN remote}
  /\ remote' = RemoteSeed
  /\ attached' = {}
  /\ flight' = [c \in Calls |-> {}]
  /\ UNCHANGED <<backed, messages, subscribers, threads, departed, outcome, reply>>
----------------------------------------------------------------------------
\* open_message_stream: one hold of the mutex; with a backend any session will do.
RefuseStream(s, session, topic) ==
  /\ place[s] = "idle"
  /\ topic \notin AllowedTopics \/ (~backed /\ ~Admitted(session))
  /\ place' = [place EXCEPT ![s] = "ended"]
  /\ UNCHANGED <<backed, messages, subscribers, asked, queue, written, since, departed,
                 calls, backend>>

Subscribe(s, v, topic) ==
  /\ place[s] = "idle" /\ topic \in AllowedTopics
  /\ ~backed /\ Admitted({v})
  /\ subscribers' = subscribers \cup
       {[stream |-> s, tenant |-> v.tenant, topic |-> topic]}
  /\ asked' = [asked EXCEPT ![s] = [tenant |-> v.tenant, topic |-> topic]]
  /\ since' = [since EXCEPT ![s] = Len(messages)]
  /\ place' = [place EXCEPT ![s] = "headers"]
  /\ UNCHANGED <<backed, messages, queue, written, departed, calls, backend>>

ProxyStream(s, session, topic) ==
  /\ place[s] = "idle" /\ topic \in AllowedTopics /\ backed
  /\ \E tenant \in {RemoteTenant} \cup {v.tenant : v \in session} :
       asked' = [asked EXCEPT ![s] = [tenant |-> tenant, topic |-> topic]]
  /\ place' = [place EXCEPT ![s] = "headers"]
  /\ UNCHANGED <<backed, messages, subscribers, queue, written, since, departed,
                 calls, backend>>

WriteHeaders(s) ==
  /\ place[s] = "headers"
  /\ place' = [place EXCEPT ![s] = IF backed THEN "connect" ELSE "open"]
  /\ UNCHANGED <<backed, messages, subscribers, asked, queue, written, since, departed,
                 calls, backend>>

\* The backend accepts the proxied request for its own topics.
Connect(s) ==
  /\ place[s] = "connect" /\ asked[s].topic \in RemoteAllowedTopics
  /\ attached' = attached \cup {s}
  /\ since' = [since EXCEPT ![s] = Len(remote)]
  /\ place' = [place EXCEPT ![s] = "open"]
  /\ UNCHANGED <<backed, messages, subscribers, asked, queue, written, departed, calls,
                 remote, restarts, forgotten>>

\* It refuses, cannot be reached, or has closed the stream it served.
UpstreamEnds(s) ==
  /\ backed
  /\ \/ place[s] = "connect"
     \/ place[s] = "open" /\ s \notin attached /\ queue[s] = <<>>
  /\ place' = [place EXCEPT ![s] = "ended"]
  /\ UNCHANGED <<backed, messages, subscribers, asked, queue, written, since, departed,
                 calls, backend>>

\* A message of the channel, or a chunk read from the backend, is written.
WriteMessage(s) ==
  /\ place[s] = "open" /\ queue[s] # <<>> /\ s \notin departed
  /\ written' = [written EXCEPT ![s] = Append(@, Head(queue[s]))]
  /\ queue' = [queue EXCEPT ![s] = Tail(@)]
  /\ UNCHANGED <<backed, messages, subscribers, place, asked, since, departed, calls,
                 backend>>

\* A write fails.  A local stream writes at least every five seconds; a
\* proxied one only what the backend sends it, which has no keepalive.
EndStream(s) ==
  /\ s \in departed
  /\ \/ place[s] = "headers"
     \/ place[s] = "open" /\ (~backed \/ queue[s] # <<>>)
  /\ place' = [place EXCEPT ![s] = "ended"]
  /\ queue' = [queue EXCEPT ![s] = <<>>]
  /\ attached' = attached \ {s}
  /\ UNCHANGED <<backed, messages, subscribers, asked, written, since, departed, calls,
                 remote, restarts, forgotten>>

Depart(s) ==
  /\ place[s] \in {"headers", "connect", "open"} /\ s \notin departed
  /\ departed' = departed \cup {s}
  /\ UNCHANGED <<backed, messages, subscribers, threads, calls, backend>>

CallStep(c) == BackendPublishes(c) \/ AnswerProxied(c) \/ GiveUp(c)

StreamStep(s) ==
  \/ WriteHeaders(s) \/ Connect(s) \/ UpstreamEnds(s)
  \/ WriteMessage(s) \/ EndStream(s) \/ Depart(s)

Next ==
  \/ \E c \in Calls :
       \/ CallStep(c)
       \/ \E session \in Sessions : RefusePost(c, session)
       \/ \E v \in Viewers, topic \in Topics, robot \in RobotIds :
            \/ PostMessage(c, v, robot, topic)
            \/ ExecutePublish(c, v, robot, topic)
            \/ PostProxied(c, v, robot, topic)
  \/ \E s \in Streams :
       \/ StreamStep(s)
       \/ \E topic \in Topics :
            \/ \E session \in Sessions :
                 RefuseStream(s, session, topic) \/ ProxyStream(s, session, topic)
            \/ \E v \in Viewers : Subscribe(s, v, topic)
  \/ BackendRestarts

Spec == Init /\ [][Next]_vars
----------------------------------------------------------------------------
TypeOK ==
  /\ backed \in BOOLEAN
  /\ messages \in Seq(LogEntry) /\ remote \in Seq(LogEntry)
  /\ subscribers \subseteq [stream : Streams, tenant : Tenants, topic : AllowedTopics]
  /\ place \in [Streams -> {"idle", "headers", "connect", "open", "ended"}]
  /\ asked \in [Streams -> {NoTopic} \cup [tenant : Tenants, topic : AllowedTopics]]
  /\ queue \in [Streams -> Seq(LogEntry)] /\ written \in [Streams -> Seq(LogEntry)]
  /\ since \in [Streams -> Nat]
  /\ departed \subseteq Streams /\ attached \subseteq Streams
  /\ outcome \in [Calls -> {"none", "waiting", "published", "refused", "unknown"}]
  /\ flight \in [Calls -> SUBSET [viewer : Viewers, robot : RobotIds, topic : Topics]]
  /\ reply \in [Calls -> {"none", "published", "refused"}]
  /\ restarts \in 0..MaxRestarts
  /\ forgotten \subseteq
       Calls \cup {m.call : m \in Range(Configured) \cup Range(RemoteSeed)}

\* The log a stream is fed from, and what a part of it holds for the stream.
Feed == IF backed THEN remote ELSE messages

ForStream(s, log) ==
  OfTopic(log, IF backed THEN RemoteTenant ELSE asked[s].tenant, asked[s].topic)

(* A client that stays on the line of a fed stream is shown every message of *)
(* his tenant's topic since the stream was attached, once and in order,      *)
(* proxied or not; and once the stream has caught up, what the app's routes  *)
(* list as the newest messages is what it showed last.                       *)
StreamFaithful ==
  \A s \in Streams :
    place[s] = "open" /\ s \notin departed /\ (backed => s \in attached) =>
      /\ written[s] \o queue[s] =
           ForStream(s, SubSeq(Feed, since[s] + 1, Len(Feed)))
      /\ queue[s] = <<>> /\ written[s] # <<>> =>
           LET all == AppMessages(asked[s].tenant, asked[s].topic) IN
           /\ LatestMessage(all) = {Last(written[s])}
           /\ IsPrefix(RecentMessages(written[s]), RecentMessages(all))

Published(c) ==
  \E log \in {messages, remote} : \E i \in DOMAIN log : log[i].call = c

(* The answer to a publication can be believed: what was published is in one *)
(* log, once, unless a restarted backend forgot it; what was refused is in   *)
(* none and never will be; only an unanswered call may or may not have       *)
(* happened, and it too happens at most once.                                *)
PublishesAccounted ==
  \A c \in Calls :
    /\ outcome[c] = "published" => Published(c) \/ c \in forgotten
    /\ outcome[c] \in {"none", "refused"} =>
         ~Published(c) /\ flight[c] = {} /\ c \notin forgotten
    /\ Cardinality({i \in DOMAIN messages : messages[i].call = c})
         + Cardinality({i \in DOMAIN remote : remote[i].call = c})
         + Cardinality(flight[c] \cup (forgotten \cap {c})) <= 1
=============================================================================
