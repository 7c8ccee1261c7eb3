-------------------------- MODULE RobotTopicsProofs --------------------------
(***************************************************************************)
(* Proofs about RobotTopics for every set of streams, calls, viewers and   *)
(* topics, every configuration and any number of backend restarts: type    *)
(* correctness, streams that show all of their topic in order, and answers *)
(* to publications that can be believed.                                   *)
(***************************************************************************)
EXTENDS RobotTopics, FiniteSetTheorems, SequenceTheorems,
        WellFoundedInduction, TLAPS

\* A stream that is sent what its log receives.
Fed(s) == IF backed THEN s \in attached ELSE HasReceiver(s)

\* A stream with a receiver is subscribed to what it asked for, and a stream
\* that is in the list asked for what the list says.
SubscribersOpen ==
  /\ backed => subscribers = {}
  /\ \A sub \in subscribers :
       /\ place[sub.stream] # "idle"
       /\ asked[sub.stream] = [tenant |-> sub.tenant, topic |-> sub.topic]
  /\ ~backed => \A s \in Streams :
       HasReceiver(s) => \E sub \in subscribers : sub.stream = s

AttachedOpen ==
  /\ ~backed => attached = {}
  /\ \A s \in attached : place[s] = "open"
  /\ ~backed => \A s \in Streams : place[s] # "connect"

\* Nothing was sent to a stream before it could be fed.
UnfedEmpty ==
  \A s \in Streams :
    place[s] \in {"idle", "connect"} \/ (backed /\ place[s] = "headers") =>
      queue[s] = <<>> /\ written[s] = <<>>

\* What a stream with the first n messages of its log behind it was sent is
\* the rest of its topic, and the whole of it with what came before.
SentOf(log, n, tenant, topic, sent) ==
  /\ n \in 0..Len(log)
  /\ sent = OfTopic(SubSeq(log, n + 1, Len(log)), tenant, topic)
  /\ OfTopic(log, tenant, topic) = OfTopic(SubSeq(log, 1, n), tenant, topic) \o sent

FeedTenant(s) == IF backed THEN RemoteTenant ELSE asked[s].tenant

Sent(s) ==
  SentOf(Feed, since[s], FeedTenant(s), asked[s].topic, written[s] \o queue[s])

SentInOrder == \A s \in Streams : Fed(s) => Sent(s)

StreamInv == SubscribersOpen /\ AttachedOpen /\ UnfedEmpty /\ SentInOrder

InLog(c) == {i \in DOMAIN messages : messages[i].call = c}
InRemote(c) == {i \in DOMAIN remote : remote[i].call = c}
Elsewhere(c) == flight[c] \cup (forgotten \cap {c})

AtMostOne(S) == \A x, y \in S : x = y

\* A call is in one place at most, and what was answered agrees with where.
CallOnce(c) ==
  /\ AtMostOne(InLog(c)) /\ AtMostOne(InRemote(c)) /\ AtMostOne(Elsewhere(c))
  /\ InLog(c) = {} \/ InRemote(c) = {}
  /\ InLog(c) = {} \/ Elsewhere(c) = {}
  /\ InRemote(c) = {} \/ Elsewhere(c) = {}

Nowhere(c) == InLog(c) = {} /\ InRemote(c) = {} /\ Elsewhere(c) = {}

CallAnswered(c) ==
  /\ outcome[c] = "none" => reply[c] = "none"
  /\ outcome[c] \in {"none", "refused"} \/ reply[c] = "refused" => Nowhere(c)
  /\ outcome[c] = "published" \/ reply[c] = "published" =>
       InLog(c) # {} \/ InRemote(c) # {} \/ c \in forgotten
  /\ flight[c] # {} => reply[c] = "none" /\ c \notin forgotten

CallInv == \A c \in Calls : CallOnce(c) /\ CallAnswered(c)

IInv == TypeOK /\ StreamInv /\ CallInv
----------------------------------------------------------------------------
(* OfTopic, which goes through a log message by message.  Filter gives what *)
(* is kept of every beginning of the log.                                   *)
FilterStep(log, tenant, topic, F, n) ==
  IF n = 0 THEN <<>>
  ELSE IF log[n].tenant = tenant /\ log[n].topic = topic
         THEN Append(F[n - 1], log[n])
         ELSE F[n - 1]
Filter(log, tenant, topic, F, last) ==
  F = [n \in 0..last |-> FilterStep(log, tenant, topic, F, n)]

LEMMA OfTopicDef ==
  ASSUME NEW log, NEW tenant, NEW topic
  PROVE  OfTopic(log, tenant, topic) =
           (CHOOSE F : Filter(log, tenant, topic, F, Len(log)))[Len(log)]
BY DEF OfTopic, Filter, FilterStep

\* Every nonempty set of numbers has a least member.
LEMMA NatMinimum ==
  ASSUME NEW S \in SUBSET Nat, S # {}
  PROVE  \E n \in S : \A m \in S : n <= m
<1> DEFINE R == OpToRel(<, Nat)
<1>1. IsWellFoundedOn(R, Nat)
  BY NatLessThanWellFounded
<1>2. PICK n \in S : \A m \in S : ~(<<m, n>> \in R)
  <2> HIDE DEF R
  <2> QED BY <1>1, WFMin
<1>3. \A m \in S : ~(m < n)
  BY <1>2 DEF OpToRel
<1> QED BY <1>3

\* A beginning of any length can be filtered.
LEMMA FilterExists ==
  ASSUME NEW log, NEW tenant, NEW topic
  PROVE  \A last \in Nat : \E F : Filter(log, tenant, topic, F, last)
<1> DEFINE Ok(n) == \E F : Filter(log, tenant, topic, F, n)
           Bad == {n \in Nat : ~Ok(n)}
<1>1. Ok(0)
  <2>1. Filter(log, tenant, topic, [n \in 0..0 |-> <<>>], 0)
    BY DEF Filter, FilterStep
  <2> QED BY <2>1
<1>2. ASSUME NEW n \in Nat \ {0}, Ok(n - 1)
      PROVE  Ok(n)
  <2>1. PICK F : Filter(log, tenant, topic, F, n - 1)
    BY <1>2
  <2> DEFINE G == [i \in 0..n |-> FilterStep(log, tenant, topic, F, i)]
  <2>2. \A i \in 0..(n - 1) : G[i] = F[i]
    BY <2>1 DEF Filter
  <2>3. ASSUME NEW i \in 0..n
        PROVE  FilterStep(log, tenant, topic, G, i) = FilterStep(log, tenant, topic, F, i)
    <3>1. i # 0 => i - 1 \in 0..(n - 1)
      OBVIOUS
    <3> HIDE DEF G
    <3> QED BY <2>2, <3>1 DEF FilterStep
  <2>4. Filter(log, tenant, topic, G, n)
    BY <2>3 DEF Filter
  <2> QED BY <2>4
<1>3. Bad = {}
  <2> SUFFICES ASSUME Bad # {} PROVE FALSE
    OBVIOUS
  <2>1. Bad \in SUBSET Nat
    OBVIOUS
  <2>2. PICK n \in Bad : \A m \in Bad : n <= m
    <3> HIDE DEF Bad
    <3> QED BY <2>1, NatMinimum
  <2> HIDE DEF Ok
  <2>3. n # 0
    BY <1>1, <2>2
  <2>4. Ok(n - 1)
    BY <2>2, <2>3
  <2> QED BY <1>2, <2>2, <2>3, <2>4
<1> QED BY <1>3

LEMMA FilterAt ==
  ASSUME NEW log, NEW tenant, NEW topic, NEW last \in Nat,
         NEW F, Filter(log, tenant, topic, F, last), NEW n \in 0..last
  PROVE  F[n] = FilterStep(log, tenant, topic, F, n)
<1> PICK G : G = F
  OBVIOUS
<1>1. F = [i \in 0..last |-> FilterStep(log, tenant, topic, G, i)]
  BY DEF Filter
<1> QED BY <1>1

\* What is kept are messages of the log.
LEMMA FilterType ==
  ASSUME NEW S, NEW log, NEW tenant, NEW topic, NEW last \in Nat,
         \A n \in 1..last : log[n] \in S,
         NEW F, Filter(log, tenant, topic, F, last)
  PROVE  \A n \in 0..last : F[n] \in Seq(S)
<1> DEFINE Ok(n) == F[n] \in Seq(S)
           Bad == {n \in 0..last : ~Ok(n)}
<1>1. ASSUME NEW n \in 0..last, n # 0 => Ok(n - 1)
      PROVE  Ok(n)
  <2>1. F[n] = FilterStep(log, tenant, topic, F, n)
    BY FilterAt
  <2>2. CASE n = 0
    <3>1. F[n] = <<>>
      BY <2>1, <2>2 DEF FilterStep
    <3> QED BY <3>1
  <2>3. CASE n # 0
    <3>1. log[n] \in S /\ F[n - 1] \in Seq(S)
      BY <1>1, <2>3
    <3>2. F[n] \in {Append(F[n - 1], log[n]), F[n - 1]}
      BY <2>1, <2>3 DEF FilterStep
    <3>3. \A kept \in Seq(S) : Append(kept, log[n]) \in Seq(S)
      BY <3>1
    <3> QED BY <3>1, <3>2, <3>3
  <2> QED BY <2>2, <2>3
<1>2. Bad = {}
  <2> SUFFICES ASSUME Bad # {} PROVE FALSE
    OBVIOUS
  <2>1. Bad \in SUBSET Nat
    OBVIOUS
  <2>2. PICK n \in Bad : \A m \in Bad : n <= m
    <3> HIDE DEF Bad
    <3> QED BY <2>1, NatMinimum
  <2> HIDE DEF Ok
  <2>3. n # 0 => Ok(n - 1)
    BY <2>2
  <2> QED BY <1>1, <2>2, <2>3
<1> QED BY <1>2

\* Logs that begin alike are filtered alike.
LEMMA FiltersAgree ==
  ASSUME NEW log, NEW longer, NEW tenant, NEW topic, NEW last \in Nat, NEW more \in Nat,
         last <= more, \A n \in 1..last : longer[n] = log[n],
         NEW F, Filter(log, tenant, topic, F, last),
         NEW G, Filter(longer, tenant, topic, G, more)
  PROVE  \A n \in 0..last : G[n] = F[n]
<1> DEFINE Ok(n) == G[n] = F[n]
           Bad == {n \in 0..last : ~Ok(n)}
<1>1. ASSUME NEW n \in 0..last, n # 0 => Ok(n - 1)
      PROVE  Ok(n)
  <2>1. F[n] = FilterStep(log, tenant, topic, F, n)
    BY FilterAt
  <2>2. G[n] = FilterStep(longer, tenant, topic, G, n)
    <3>1. n \in 0..more
      OBVIOUS
    <3> QED BY <3>1, FilterAt
  <2>3. CASE n = 0
    <3>1. F[n] = <<>> /\ G[n] = <<>>
      BY <2>1, <2>2, <2>3 DEF FilterStep
    <3> QED BY <3>1
  <2>4. CASE n # 0
    <3>1. longer[n] = log[n] /\ G[n - 1] = F[n - 1]
      BY <1>1, <2>4
    <3>2. FilterStep(longer, tenant, topic, G, n) = FilterStep(log, tenant, topic, F, n)
      BY <2>4, <3>1 DEF FilterStep
    <3> QED BY <2>1, <2>2, <3>2
  <2> QED BY <2>3, <2>4
<1>2. Bad = {}
  <2> SUFFICES ASSUME Bad # {} PROVE FALSE
    OBVIOUS
  <2>1. Bad \in SUBSET Nat
    OBVIOUS
  <2>2. PICK n \in Bad : \A m \in Bad : n <= m
    <3> HIDE DEF Bad
    <3> QED BY <2>1, NatMinimum
  <2> HIDE DEF Ok
  <2>3. n # 0 => Ok(n - 1)
    BY <2>2
  <2> QED BY <1>1, <2>2, <2>3
<1> QED BY <1>2

LEMMA OfTopicFilter ==
  ASSUME NEW S, NEW log \in Seq(S), NEW tenant, NEW topic
  PROVE  \E F : /\ Filter(log, tenant, topic, F, Len(log))
                /\ OfTopic(log, tenant, topic) = F[Len(log)]
<1>1. \E F : Filter(log, tenant, topic, F, Len(log))
  <2>1. Len(log) \in Nat
    OBVIOUS
  <2> QED BY <2>1, FilterExists
<1> QED BY <1>1, OfTopicDef

\* What a log holds of a topic when it is empty, and when it has one more
\* message.
Kept(sent, m, tenant, topic) ==
  IF m.tenant = tenant /\ m.topic = topic THEN Append(sent, m) ELSE sent

LEMMA OfTopicEmpty ==
  ASSUME NEW tenant, NEW topic
  PROVE  OfTopic(<<>>, tenant, topic) = <<>>
<1>1. PICK F : /\ Filter(<<>>, tenant, topic, F, 0)
               /\ OfTopic(<<>>, tenant, topic) = F[0]
  <2>1. <<>> \in Seq(LogEntry) /\ Len(<<>>) = 0
    OBVIOUS
  <2> QED BY <2>1, OfTopicFilter
<1> QED BY <1>1 DEF Filter, FilterStep

LEMMA TopicType ==
  ASSUME NEW log \in Seq(LogEntry), NEW tenant, NEW topic
  PROVE  OfTopic(log, tenant, topic) \in Seq(LogEntry)
<1>1. PICK F : /\ Filter(log, tenant, topic, F, Len(log))
               /\ OfTopic(log, tenant, topic) = F[Len(log)]
  BY OfTopicFilter
<1>2. Len(log) \in Nat /\ \A n \in 1..Len(log) : log[n] \in LogEntry
  OBVIOUS
<1>3. \A n \in 0..Len(log) : F[n] \in Seq(LogEntry)
  BY <1>1, <1>2, FilterType
<1> QED BY <1>1, <1>2, <1>3

LEMMA TopicOfLonger ==
  ASSUME NEW log \in Seq(LogEntry), NEW m \in LogEntry, NEW tenant, NEW topic
  PROVE  OfTopic(Append(log, m), tenant, topic) =
           Kept(OfTopic(log, tenant, topic), m, tenant, topic)
<1> DEFINE longer == Append(log, m)
           k == Len(log)
<1>1. /\ k \in Nat /\ longer \in Seq(LogEntry) /\ Len(longer) = k + 1 /\ longer[k + 1] = m
      /\ \A n \in 1..k : log[n] \in LogEntry /\ longer[n] = log[n]
  OBVIOUS
<1> HIDE DEF longer, k
<1>2. PICK F : Filter(log, tenant, topic, F, k) /\ OfTopic(log, tenant, topic) = F[k]
  BY OfTopicFilter DEF k
<1>3. PICK G : /\ Filter(longer, tenant, topic, G, k + 1)
               /\ OfTopic(longer, tenant, topic) = G[k + 1]
  BY <1>1, OfTopicFilter
<1>4. G[k] = F[k]
  <2>1. k + 1 \in Nat /\ k <= k + 1 /\ k \in 0..k /\ k + 1 \in 0..(k + 1)
    BY <1>1
  <2>2. \A n \in 0..k : G[n] = F[n]
    BY <1>1, <1>2, <1>3, <2>1, FiltersAgree
  <2> QED BY <2>1, <2>2
<1>5. G[k + 1] = FilterStep(longer, tenant, topic, G, k + 1)
  <2>1. k + 1 \in Nat /\ k + 1 \in 0..(k + 1)
    BY <1>1
  <2> QED BY <1>3, <2>1, FilterAt
<1>6. k + 1 # 0 /\ (k + 1) - 1 = k
  BY <1>1
<1> QED BY <1>1, <1>2, <1>3, <1>4, <1>5, <1>6 DEF FilterStep, longer, Kept
----------------------------------------------------------------------------
(* Type correctness.                                                        *)
LEMMA SeedsTyped ==
  /\ Configured \in Seq(LogEntry) /\ RemoteSeed \in Seq(LogEntry)
  /\ \A i \in DOMAIN Configured : Configured[i].call \notin Calls
  /\ \A i \in DOMAIN RemoteSeed : RemoteSeed[i].call \notin Calls
<1>1. /\ Configured \in Seq(Range(Configured)) /\ RemoteSeed \in Seq(Range(RemoteSeed))
      /\ Range(Configured) \subseteq LogEntry /\ Range(RemoteSeed) \subseteq LogEntry
  BY TopicsAssumption DEF LogEntry
<1>2. Configured \in Seq(LogEntry) /\ RemoteSeed \in Seq(LogEntry)
  BY <1>1
<1>3. ASSUME NEW m \in Range(Configured) \cup Range(RemoteSeed)
      PROVE  m \in Range(Configured \o RemoteSeed)
  <2>1. PICK i : \/ i \in DOMAIN Configured /\ m = Configured[i]
                 \/ i \in DOMAIN RemoteSeed /\ m = RemoteSeed[i]
    BY DEF Range
  <2> DEFINE both == Configured \o RemoteSeed
  <2>2. \E j \in DOMAIN both : both[j] = m
    <3>1. CASE i \in DOMAIN Configured /\ m = Configured[i]
      <4>1. i \in DOMAIN both /\ both[i] = m
        BY <1>2, <3>1
      <4> QED BY <4>1
    <3>2. CASE i \in DOMAIN RemoteSeed /\ m = RemoteSeed[i]
      <4>1. Len(Configured) + i \in DOMAIN both /\ both[Len(Configured) + i] = m
        BY <1>2, <3>2
      <4> QED BY <4>1
    <3> QED BY <2>1, <3>1, <3>2
  <2> QED BY <2>2 DEF Range
<1> QED BY <1>2, <1>3, SeedAssumption DEF Range

LEMMA MessageType ==
  ASSUME NEW log \in Seq(LogEntry), NEW tenant \in Tenants,
         NEW topic \in AllowedTopics \cup RemoteAllowedTopics,
         NEW robot \in RobotIds, NEW v \in Viewers, NEW c \in Calls
  PROVE  /\ Message(log, tenant, topic, robot, v.uid, c) \in LogEntry
         /\ Append(log, Message(log, tenant, topic, robot, v.uid, c)) \in Seq(LogEntry)
<1> DEFINE m == Message(log, tenant, topic, robot, v.uid, c)
<1>1. Len(log) + 1 \in Nat \ {0} /\ v.uid \in {w.uid : w \in Viewers}
  OBVIOUS
<1>2. m \in LogEntry
  BY <1>1 DEF LogEntry, Message
<1>3. \A x \in LogEntry : Append(log, x) \in Seq(LogEntry)
  OBVIOUS
<1> QED BY <1>2, <1>3

\* A publication logs one message of the call, in the module's own log.
LEMMA PublishType ==
  ASSUME TypeOK, NEW c \in Calls, NEW v \in Viewers, NEW visitor,
         NEW robot \in RobotIds, NEW topic \in Topics,
         PublishMessage(c, v.tenant, v.uid, visitor, robot, topic)
  PROVE  TypeOK'
<1> DEFINE m == Message(messages, v.tenant, topic, robot, v.uid, c)
<1>1. CASE topic \in AllowedTopics /\ HasRobot(v.tenant, v.uid, visitor, robot)
  <2>1. m \in LogEntry /\ Append(messages, m) \in Seq(LogEntry)
    BY <1>1, MessageType DEF TypeOK, Tenants
  <2>2. messages' = Append(messages, m) /\ subscribers' \subseteq subscribers
    BY <1>1 DEF PublishMessage
  <2>3. queue' \in [Streams -> Seq(LogEntry)]
    <3>1. \A s \in Streams : queue[s] \in Seq(LogEntry) /\ Append(queue[s], m) \in Seq(LogEntry)
      BY <2>1 DEF TypeOK
    <3>2. queue' = [s \in Streams |->
             IF HasReceiver(s) /\ \E sub \in subscribers : sub.stream = s /\ Matches(sub, m)
             THEN Append(queue[s], m) ELSE queue[s]]
      BY <1>1 DEF PublishMessage
    <3> HIDE DEF m
    <3> QED BY <3>1, <3>2
  <2>4. outcome' = [outcome EXCEPT ![c] = "published"]
    BY <1>1 DEF PublishMessage
  <2> HIDE DEF m
  <2> QED BY <2>1, <2>2, <2>3, <2>4 DEF PublishMessage, TypeOK, backend
<1>2. CASE ~(topic \in AllowedTopics /\ HasRobot(v.tenant, v.uid, visitor, robot))
  BY <1>2 DEF PublishMessage, TypeOK, backend
<1> QED BY <1>1, <1>2

LEMMA BackendPublishesType ==
  ASSUME TypeOK, NEW c \in Calls, BackendPublishes(c)
  PROVE  TypeOK'
<1>1. PICK r \in flight[c] :
        LET m == Message(remote, RemoteTenant, r.topic, r.robot, r.viewer.uid, c) IN
        IF r.topic \in RemoteAllowedTopics /\ RemoteHasRobot(r.viewer, r.robot)
        THEN /\ remote' = Append(remote, m)
             /\ queue' = [s \in Streams |->
                  IF s \in attached /\ asked[s].topic = r.topic
                  THEN Append(queue[s], m) ELSE queue[s]]
             /\ reply' = [reply EXCEPT ![c] = "published"]
        ELSE /\ reply' = [reply EXCEPT ![c] = "refused"]
             /\ UNCHANGED <<remote, queue>>
  BY DEF BackendPublishes
<1>2. r \in [viewer : Viewers, robot : RobotIds, topic : Topics]
  BY DEF TypeOK
<1>3. flight' \in [Calls -> SUBSET [viewer : Viewers, robot : RobotIds, topic : Topics]]
  BY DEF BackendPublishes, TypeOK
<1>4. reply' \in [Calls -> {"none", "published", "refused"}]
  BY <1>1 DEF TypeOK
<1>5. remote' \in Seq(LogEntry) /\ queue' \in [Streams -> Seq(LogEntry)]
  <2> DEFINE m == Message(remote, RemoteTenant, r.topic, r.robot, r.viewer.uid, c)
  <2>1. CASE r.topic \in RemoteAllowedTopics /\ RemoteHasRobot(r.viewer, r.robot)
    <3>1. m \in LogEntry /\ Append(remote, m) \in Seq(LogEntry)
      BY <1>2, <2>1, MessageType DEF TypeOK, Tenants
    <3>2. \A s \in Streams : queue[s] \in Seq(LogEntry) /\ Append(queue[s], m) \in Seq(LogEntry)
      BY <3>1 DEF TypeOK
    <3>3. /\ remote' = Append(remote, m)
          /\ queue' = [s \in Streams |->
               IF s \in attached /\ asked[s].topic = r.topic THEN Append(queue[s], m) ELSE queue[s]]
      BY <1>1, <2>1
    <3> HIDE DEF m
    <3> QED BY <3>1, <3>2, <3>3
  <2>2. CASE ~(r.topic \in RemoteAllowedTopics /\ RemoteHasRobot(r.viewer, r.robot))
    BY <1>1, <2>2 DEF TypeOK
  <2> QED BY <2>1, <2>2
<1> QED BY <1>3, <1>4, <1>5 DEF BackendPublishes, TypeOK

LEMMA CallsType ==
  ASSUME TypeOK, NEW c \in Calls
  PROVE  /\ AnswerProxied(c) => TypeOK'
         /\ GiveUp(c) => TypeOK'
         /\ \A session \in Sessions : RefusePost(c, session) => TypeOK'
         /\ \A v \in Viewers, robot \in RobotIds, topic \in Topics :
              PostProxied(c, v, robot, topic) => TypeOK'
<1> USE DEF TypeOK, threads, backend
<1>1. ASSUME AnswerProxied(c) PROVE TypeOK'
  BY <1>1 DEF AnswerProxied
<1>2. ASSUME GiveUp(c) PROVE TypeOK'
  BY <1>2 DEF GiveUp
<1>3. ASSUME NEW session \in Sessions, RefusePost(c, session) PROVE TypeOK'
  BY <1>3 DEF RefusePost
<1>4. ASSUME NEW v \in Viewers, NEW robot \in RobotIds, NEW topic \in Topics,
             PostProxied(c, v, robot, topic)
      PROVE  TypeOK'
  BY <1>4 DEF PostProxied
<1> HIDE DEF TypeOK
<1> QED BY <1>1, <1>2, <1>3, <1>4

LEMMA RestartType ==
  ASSUME TypeOK, BackendRestarts
  PROVE  TypeOK'
<1>1. forgotten' \subseteq
        Calls \cup {m.call : m \in Range(Configured) \cup Range(RemoteSeed)}
  <2>1. ASSUME NEW i \in DOMAIN remote
        PROVE  remote[i].call \in
                 Calls \cup {m.call : m \in Range(Configured) \cup Range(RemoteSeed)}
    <3>1. remote[i] \in LogEntry
      BY DEF TypeOK
    <3> QED BY <3>1 DEF LogEntry
  <2> QED BY <2>1 DEF BackendRestarts, TypeOK
<1>2. restarts' \in 0..MaxRestarts
  BY TopicsAssumption DEF BackendRestarts, TypeOK
<1> QED BY <1>1, <1>2, SeedsTyped DEF BackendRestarts, TypeOK, threads

LEMMA OpenStreamType ==
  ASSUME TypeOK, NEW s \in Streams, NEW topic \in Topics
  PROVE  /\ \A v \in Viewers : Subscribe(s, v, topic) => TypeOK'
         /\ \A session \in Sessions : RefuseStream(s, session, topic) => TypeOK'
         /\ \A session \in Sessions : ProxyStream(s, session, topic) => TypeOK'
<1> USE DEF TypeOK, calls, backend
<1>1. ASSUME NEW v \in Viewers, Subscribe(s, v, topic) PROVE TypeOK'
  <2>1. v.tenant \in Tenants /\ topic \in AllowedTopics
    BY <1>1 DEF Subscribe, Tenants
  <2>2. subscribers' \subseteq [stream : Streams, tenant : Tenants, topic : AllowedTopics]
    BY <1>1, <2>1 DEF Subscribe
  <2>3. asked' \in [Streams -> {NoTopic} \cup [tenant : Tenants, topic : AllowedTopics]]
    BY <1>1, <2>1 DEF Subscribe
  <2>4. since' \in [Streams -> Nat]
    BY <1>1 DEF Subscribe
  <2>5. place' \in [Streams -> {"idle", "headers", "connect", "open", "ended"}]
    BY <1>1 DEF Subscribe
  <2> QED BY <1>1, <2>2, <2>3, <2>4, <2>5 DEF Subscribe
<1>2. ASSUME NEW session \in Sessions, RefuseStream(s, session, topic) PROVE TypeOK'
  BY <1>2 DEF RefuseStream
<1>3. ASSUME NEW session \in Sessions, ProxyStream(s, session, topic) PROVE TypeOK'
  <2>1. PICK tenant \in {RemoteTenant} \cup {v.tenant : v \in session} :
          asked' = [asked EXCEPT ![s] = [tenant |-> tenant, topic |-> topic]]
    BY <1>3 DEF ProxyStream
  <2>2. tenant \in Tenants
    BY DEF Tenants, Sessions
  <2>3. asked' \in [Streams -> {NoTopic} \cup [tenant : Tenants, topic : AllowedTopics]]
    BY <1>3, <2>1, <2>2 DEF ProxyStream
  <2> QED BY <1>3, <2>3 DEF ProxyStream
<1> HIDE DEF TypeOK
<1> QED BY <1>1, <1>2, <1>3

LEMMA StreamStepType ==
  ASSUME TypeOK, NEW s \in Streams, StreamStep(s)
  PROVE  TypeOK'
<1> USE DEF TypeOK, threads, calls, backend
<1>1. CASE WriteHeaders(s)
  BY <1>1 DEF WriteHeaders
<1>2. CASE Connect(s)
  <2>1. since' \in [Streams -> Nat] /\ attached' \subseteq Streams
    BY <1>2 DEF Connect
  <2>2. place' \in [Streams -> {"idle", "headers", "connect", "open", "ended"}]
    BY <1>2 DEF Connect
  <2> QED BY <1>2, <2>1, <2>2 DEF Connect
<1>3. CASE UpstreamEnds(s)
  BY <1>3 DEF UpstreamEnds
<1>4. CASE WriteMessage(s)
  <2>1. queue[s] \in Seq(LogEntry) /\ queue[s] # <<>> /\ written[s] \in Seq(LogEntry)
    BY <1>4 DEF WriteMessage
  <2>2. Tail(queue[s]) \in Seq(LogEntry) /\ Append(written[s], Head(queue[s])) \in Seq(LogEntry)
    BY <2>1
  <2>3. queue' \in [Streams -> Seq(LogEntry)] /\ written' \in [Streams -> Seq(LogEntry)]
    BY <1>4, <2>2 DEF WriteMessage
  <2> QED BY <1>4, <2>3 DEF WriteMessage
<1>5. CASE EndStream(s)
  <2>1. <<>> \in Seq(LogEntry)
    OBVIOUS
  <2>2. queue' \in [Streams -> Seq(LogEntry)] /\ attached' \subseteq Streams
    BY <1>5, <2>1 DEF EndStream
  <2> QED BY <1>5, <2>2 DEF EndStream
<1>6. CASE Depart(s)
  BY <1>6 DEF Depart
<1> QED BY <1>1, <1>2, <1>3, <1>4, <1>5, <1>6 DEF StreamStep

LEMMA InitType == Init => TypeOK
<1> SUFFICES ASSUME Init PROVE TypeOK
  OBVIOUS
<1> USE DEF Init
<1>1. messages \in Seq(LogEntry) /\ remote \in Seq(LogEntry)
  BY SeedsTyped
<1>2. queue \in [Streams -> Seq(LogEntry)] /\ written \in [Streams -> Seq(LogEntry)]
  <2>1. <<>> \in Seq(LogEntry)
    OBVIOUS
  <2> QED BY <2>1
<1>3. /\ place \in [Streams -> {"idle", "headers", "connect", "open", "ended"}]
      /\ asked \in [Streams -> {NoTopic} \cup [tenant : Tenants, topic : AllowedTopics]]
      /\ since \in [Streams -> Nat]
  OBVIOUS
<1>4. /\ outcome \in [Calls -> {"none", "waiting", "published", "refused", "unknown"}]
      /\ flight \in [Calls -> SUBSET [viewer : Viewers, robot : RobotIds, topic : Topics]]
      /\ reply \in [Calls -> {"none", "published", "refused"}]
  OBVIOUS
<1>5. restarts \in 0..MaxRestarts
  BY TopicsAssumption
<1>6. /\ subscribers = {} /\ departed = {} /\ attached = {} /\ forgotten = {}
      /\ backed \in BOOLEAN
  OBVIOUS
<1> HIDE DEF Init
<1> QED BY <1>1, <1>2, <1>3, <1>4, <1>5, <1>6 DEF TypeOK

LEMMA NextType ==
  ASSUME TypeOK, [Next]_vars
  PROVE  TypeOK'
<1>1. ASSUME NEW c \in Calls, CallStep(c) PROVE TypeOK'
  BY <1>1, BackendPublishesType, CallsType DEF CallStep
<1>2. ASSUME NEW c \in Calls, NEW session \in Sessions, RefusePost(c, session) PROVE TypeOK'
  BY <1>2, CallsType
<1>3. ASSUME NEW c \in Calls, NEW v \in Viewers, NEW topic \in Topics, NEW robot \in RobotIds,
             \/ PostMessage(c, v, robot, topic)
             \/ ExecutePublish(c, v, robot, topic)
             \/ PostProxied(c, v, robot, topic)
      PROVE  TypeOK'
  BY <1>3, CallsType, PublishType DEF PostMessage, ExecutePublish
<1>4. ASSUME NEW s \in Streams, NEW topic \in Topics,
             \/ \E session \in Sessions :
                  RefuseStream(s, session, topic) \/ ProxyStream(s, session, topic)
             \/ \E v \in Viewers : Subscribe(s, v, topic)
      PROVE  TypeOK'
  BY <1>4, OpenStreamType
<1>5. ASSUME NEW s \in Streams, StreamStep(s) PROVE TypeOK'
  BY <1>5, StreamStepType
<1>6. CASE BackendRestarts
  BY <1>6, RestartType
<1>7. CASE UNCHANGED vars
  BY <1>7 DEF vars, TypeOK
<1> QED BY <1>1, <1>2, <1>3, <1>4, <1>5, <1>6, <1>7 DEF Next

(* In every reachable state the logs, queues and streams are well typed; in  *)
(* particular no log holds and no stream is subscribed to a topic that is    *)
(* not allowed.                                                              *)
THEOREM TypeCorrect == Spec => []TypeOK
<1>1. TypeOK /\ [Next]_vars => TypeOK'
  BY NextType
<1> QED BY <1>1, InitType, PTL DEF Spec
----------------------------------------------------------------------------
(* Answers to publications.                                                 *)
LEMMA AtMostOneCardinality ==
  ASSUME NEW S, AtMostOne(S)
  PROVE  /\ Cardinality(S) \in {0, 1}
         /\ S = {} => Cardinality(S) = 0
<1>1. Cardinality({}) = 0 /\ \A x : Cardinality({x}) = 1
  BY FS_EmptySet, FS_Singleton
<1>2. ASSUME S # {} PROVE \E x : S = {x}
  BY <1>2 DEF AtMostOne
<1> QED BY <1>1, <1>2

\* A log that receives a message of a call has one more of that call, and as
\* many of every other.
LEMMA CallsOfLonger ==
  ASSUME NEW log \in Seq(LogEntry), NEW tenant, NEW topic, NEW robot, NEW uid, NEW c, NEW longer,
         longer = Append(log, Message(log, tenant, topic, robot, uid, c))
  PROVE  /\ {i \in DOMAIN longer : longer[i].call = c} =
              {i \in DOMAIN log : log[i].call = c} \cup {Len(log) + 1}
         /\ \A d : d # c => {i \in DOMAIN longer : longer[i].call = d} =
                             {i \in DOMAIN log : log[i].call = d}
<1> DEFINE m == Message(log, tenant, topic, robot, uid, c)
<1>1. m.call = c
  BY DEF Message
<1> HIDE DEF m
<1>2. /\ DOMAIN longer = 1..(Len(log) + 1) /\ DOMAIN log = 1..Len(log) /\ Len(log) \in Nat
      /\ longer[Len(log) + 1] = m
      /\ \A i \in 1..Len(log) : longer[i] = log[i]
  BY DEF m
<1> QED BY <1>1, <1>2

LEMMA InitCalls == Init => CallInv
<1> SUFFICES ASSUME Init, NEW c \in Calls PROVE CallOnce(c) /\ CallAnswered(c)
  BY DEF CallInv
<1>1. InLog(c) = {} /\ InRemote(c) = {} /\ Elsewhere(c) = {} /\ flight[c] = {}
  BY SeedsTyped DEF Init, InLog, InRemote, Elsewhere
<1>2. outcome[c] = "none" /\ reply[c] = "none"
  BY DEF Init
<1> QED BY <1>1, <1>2 DEF CallOnce, CallAnswered, Nowhere, AtMostOne

\* A step that leaves a call's traces and answers alone.
LEMMA CallKept ==
  ASSUME CallInv, NEW c \in Calls,
         InLog(c)' = InLog(c), InRemote(c)' = InRemote(c), flight'[c] = flight[c],
         c \in forgotten' <=> c \in forgotten,
         outcome'[c] = outcome[c], reply'[c] = reply[c]
  PROVE  CallOnce(c)' /\ CallAnswered(c)'
<1>1. CallOnce(c) /\ CallAnswered(c)
  BY DEF CallInv
<1>2. Elsewhere(c)' = Elsewhere(c)
  BY DEF Elsewhere
<1>3. CallOnce(c)'
  BY <1>1, <1>2 DEF CallOnce, AtMostOne
<1>4. CallAnswered(c)'
  BY <1>1, <1>2 DEF CallAnswered, Nowhere
<1> QED BY <1>3, <1>4

LEMMA PublishCalls ==
  ASSUME TypeOK, CallInv, NEW c \in Calls, NEW tenant, NEW uid, NEW visitor,
         NEW robot, NEW topic, PublishMessage(c, tenant, uid, visitor, robot, topic)
  PROVE  CallInv'
<1> DEFINE allowed == topic \in AllowedTopics /\ HasRobot(tenant, uid, visitor, robot)
<1>1. Nowhere(c) /\ reply[c] = "none" /\ flight[c] = {}
  BY DEF CallInv, CallAnswered, PublishMessage, Nowhere, Elsewhere
<1>2. /\ remote' = remote /\ flight' = flight /\ reply' = reply /\ forgotten' = forgotten
      /\ outcome' = [outcome EXCEPT ![c] = IF allowed THEN "published" ELSE "refused"]
  BY DEF PublishMessage, backend
<1>3. messages' = IF allowed
                    THEN Append(messages, Message(messages, tenant, topic, robot, uid, c))
                    ELSE messages
  BY DEF PublishMessage
<1>4. \A d : InRemote(d)' = InRemote(d) /\ Elsewhere(d)' = Elsewhere(d)
  BY <1>2 DEF InRemote, Elsewhere
<1>5. PICK old, new : old = messages /\ new = messages'
  OBVIOUS
<1>6. old \in Seq(LogEntry)
  BY <1>5 DEF TypeOK
<1>7. ASSUME NEW d \in Calls, d # c
      PROVE  CallOnce(d)' /\ CallAnswered(d)'
  <2>1. InLog(d)' = InLog(d)
    <3>1. CASE allowed
      <4>1. new = Append(old, Message(old, tenant, topic, robot, uid, c))
        BY <1>3, <1>5, <3>1
      <4> QED BY <1>5, <1>6, <1>7, <4>1, CallsOfLonger DEF InLog
    <3>2. CASE ~allowed
      BY <1>3, <3>2 DEF InLog
    <3> QED BY <3>1, <3>2
  <2>2. outcome'[d] = outcome[d]
    BY <1>2, <1>7 DEF TypeOK
  <2> QED BY <1>2, <1>4, <2>1, <2>2, CallKept
<1>8. outcome'[c] = IF allowed THEN "published" ELSE "refused"
  BY <1>2 DEF TypeOK
<1>9. CASE allowed
  <2>1. new = Append(old, Message(old, tenant, topic, robot, uid, c))
    BY <1>3, <1>5, <1>9
  <2>2. InLog(c)' = InLog(c) \cup {Len(messages) + 1}
    BY <1>5, <1>6, <2>1, CallsOfLonger DEF InLog
  <2>3. InLog(c)' = {Len(messages) + 1} /\ InRemote(c)' = {} /\ Elsewhere(c)' = {}
    BY <1>1, <1>4, <2>2 DEF Nowhere
  <2>4. CallOnce(c)'
    BY <2>3 DEF CallOnce, AtMostOne
  <2>5. CallAnswered(c)'
    BY <1>1, <1>2, <1>8, <1>9, <2>3 DEF CallAnswered
  <2> QED BY <1>7, <2>4, <2>5 DEF CallInv
<1>10. CASE ~allowed
  <2>1. InLog(c)' = {} /\ InRemote(c)' = {} /\ Elsewhere(c)' = {}
    BY <1>1, <1>3, <1>4, <1>10 DEF Nowhere, InLog
  <2>2. CallOnce(c)'
    BY <2>1 DEF CallOnce, AtMostOne
  <2>3. CallAnswered(c)'
    BY <1>1, <1>2, <1>8, <1>10, <2>1 DEF CallAnswered, Nowhere
  <2> QED BY <1>7, <2>2, <2>3 DEF CallInv
<1> QED BY <1>9, <1>10

LEMMA BackendPublishesCalls ==
  ASSUME TypeOK, CallInv, NEW c \in Calls, BackendPublishes(c)
  PROVE  CallInv'
<1>1. PICK r \in flight[c] :
        \/ /\ remote' = Append(remote,
                Message(remote, RemoteTenant, r.topic, r.robot, r.viewer.uid, c))
           /\ reply' = [reply EXCEPT ![c] = "published"]
        \/ /\ remote' = remote
           /\ reply' = [reply EXCEPT ![c] = "refused"]
  BY DEF BackendPublishes
<1>2. /\ messages' = messages /\ forgotten' = forgotten /\ outcome' = outcome
      /\ flight' = [flight EXCEPT ![c] = {}]
  BY DEF BackendPublishes
<1>3. CallOnce(c) /\ CallAnswered(c)
  BY DEF CallInv
<1>4. Elsewhere(c) # {} /\ c \notin forgotten /\ reply[c] = "none"
  BY <1>1, <1>3 DEF CallAnswered, Elsewhere
<1>5. InLog(c) = {} /\ InRemote(c) = {} /\ outcome[c] \notin {"none", "refused", "published"}
  BY <1>3, <1>4 DEF CallOnce, CallAnswered, Nowhere
<1>6. InLog(c)' = {} /\ Elsewhere(c)' = {} /\ flight'[c] = {}
  BY <1>2, <1>4, <1>5 DEF InLog, Elsewhere, TypeOK
<1>7. PICK old, new : old = remote /\ new = remote'
  OBVIOUS
<1>8. old \in Seq(LogEntry)
  BY <1>7 DEF TypeOK
<1>9. \/ reply'[c] = "published" /\ InRemote(c)' = {Len(remote) + 1}
      \/ reply'[c] = "refused" /\ InRemote(c)' = {}
  <2>1. CASE remote' = remote /\ reply' = [reply EXCEPT ![c] = "refused"]
    BY <1>5, <2>1 DEF InRemote, TypeOK
  <2>2. CASE /\ remote' = Append(remote,
                  Message(remote, RemoteTenant, r.topic, r.robot, r.viewer.uid, c))
             /\ reply' = [reply EXCEPT ![c] = "published"]
    <3>1. new = Append(old, Message(old, RemoteTenant, r.topic, r.robot, r.viewer.uid, c))
      BY <1>7, <2>2
    <3>2. InRemote(c)' = InRemote(c) \cup {Len(remote) + 1}
      BY <1>7, <1>8, <3>1, CallsOfLonger DEF InRemote
    <3> QED BY <1>5, <2>2, <3>2 DEF TypeOK
  <2> QED BY <1>1, <2>1, <2>2
<1>10. CallOnce(c)'
  BY <1>6, <1>9 DEF CallOnce, AtMostOne
<1>11. CallAnswered(c)'
  BY <1>2, <1>5, <1>6, <1>9 DEF CallAnswered, Nowhere
<1>12. ASSUME NEW d \in Calls, d # c
       PROVE  CallOnce(d)' /\ CallAnswered(d)'
  <2>1. InRemote(d)' = InRemote(d)
    <3>1. CASE remote' = remote
      BY <3>1 DEF InRemote
    <3>2. CASE remote' = Append(remote,
                 Message(remote, RemoteTenant, r.topic, r.robot, r.viewer.uid, c))
      <4>1. new = Append(old, Message(old, RemoteTenant, r.topic, r.robot, r.viewer.uid, c))
        BY <1>7, <3>2
      <4> QED BY <1>7, <1>8, <1>12, <4>1, CallsOfLonger DEF InRemote
    <3> QED BY <1>1, <3>1, <3>2
  <2>2. InLog(d)' = InLog(d)
    BY <1>2 DEF InLog
  <2>3. flight'[d] = flight[d] /\ reply'[d] = reply[d] /\ outcome'[d] = outcome[d]
    BY <1>1, <1>2, <1>12 DEF TypeOK
  <2> QED BY <1>2, <2>1, <2>2, <2>3, CallKept
<1> QED BY <1>10, <1>11, <1>12 DEF CallInv

LEMMA PostProxiedCalls ==
  ASSUME TypeOK, CallInv, NEW c \in Calls, NEW v, NEW robot, NEW topic,
         PostProxied(c, v, robot, topic)
  PROVE  CallInv'
<1>1. CallOnce(c) /\ CallAnswered(c) /\ outcome[c] = "none"
  BY DEF CallInv, PostProxied
<1>2. Nowhere(c) /\ reply[c] = "none" /\ c \notin forgotten
  BY <1>1 DEF CallAnswered, Nowhere, Elsewhere
<1> DEFINE request == [viewer |-> v, robot |-> robot, topic |-> topic]
<1>3. /\ messages' = messages /\ remote' = remote /\ forgotten' = forgotten /\ reply' = reply
      /\ outcome' = [outcome EXCEPT ![c] = "waiting"]
      /\ flight' = [flight EXCEPT ![c] = {request}]
  BY DEF PostProxied, backend
<1> HIDE DEF request
<1>4. \A d : InLog(d)' = InLog(d) /\ InRemote(d)' = InRemote(d)
  BY <1>3 DEF InLog, InRemote
<1>5. ASSUME NEW d \in Calls, d # c PROVE CallOnce(d)' /\ CallAnswered(d)'
  <2>1. flight'[d] = flight[d] /\ outcome'[d] = outcome[d]
    BY <1>3, <1>5 DEF TypeOK
  <2> QED BY <1>3, <1>4, <2>1, CallKept
<1>6. outcome'[c] = "waiting" /\ flight'[c] = {request}
  BY <1>3 DEF TypeOK
<1>7. Elsewhere(c)' = {request}
  BY <1>2, <1>3, <1>6 DEF Elsewhere
<1>8. CallOnce(c)'
  BY <1>2, <1>4, <1>7 DEF CallOnce, AtMostOne, Nowhere
<1>9. CallAnswered(c)'
  BY <1>2, <1>3, <1>4, <1>6 DEF CallAnswered, Nowhere
<1> QED BY <1>5, <1>8, <1>9 DEF CallInv

LEMMA OutcomeCalls ==
  ASSUME TypeOK, CallInv, NEW c \in Calls,
         AnswerProxied(c) \/ GiveUp(c) \/ \E session \in Sessions : RefusePost(c, session)
  PROVE  CallInv'
<1>1. CallOnce(c) /\ CallAnswered(c)
  BY DEF CallInv
<1>2. /\ messages' = messages /\ remote' = remote /\ forgotten' = forgotten
      /\ reply' = reply /\ flight' = flight
  BY DEF AnswerProxied, GiveUp, RefusePost, backend
<1>3. \A d : InLog(d)' = InLog(d) /\ InRemote(d)' = InRemote(d) /\ Elsewhere(d)' = Elsewhere(d)
  BY <1>2 DEF InLog, InRemote, Elsewhere
<1>4. \/ outcome' = [outcome EXCEPT ![c] = reply[c]] /\ reply[c] # "none"
      \/ outcome' = [outcome EXCEPT ![c] = "unknown"]
      \/ outcome' = [outcome EXCEPT ![c] = "refused"] /\ outcome[c] = "none"
  BY DEF AnswerProxied, GiveUp, RefusePost
<1>5. ASSUME NEW d \in Calls, d # c PROVE CallOnce(d)' /\ CallAnswered(d)'
  <2>1. outcome'[d] = outcome[d]
    BY <1>4, <1>5 DEF TypeOK
  <2> QED BY <1>2, <1>3, <2>1, CallKept
<1>6. CallOnce(c)'
  BY <1>1, <1>3 DEF CallOnce, AtMostOne
<1>7. CallAnswered(c)'
  <2>1. \/ outcome'[c] = reply[c] /\ reply[c] \in {"published", "refused"}
        \/ outcome'[c] = "unknown"
        \/ outcome'[c] = "refused" /\ outcome[c] = "none"
    BY <1>4 DEF TypeOK
  <2> QED BY <1>1, <1>2, <1>3, <2>1 DEF CallAnswered, Nowhere
<1> QED BY <1>5, <1>6, <1>7 DEF CallInv

LEMMA RestartCalls ==
  ASSUME TypeOK, CallInv, BackendRestarts
  PROVE  CallInv'
<1>1. /\ messages' = messages /\ outcome' = outcome /\ reply' = reply
      /\ remote' = RemoteSeed /\ flight' = [c \in Calls |-> {}]
      /\ forgotten' = forgotten \cup {remote[i].call : i \in DOMAIN remote}
  BY DEF BackendRestarts
<1> SUFFICES ASSUME NEW c \in Calls PROVE CallOnce(c)' /\ CallAnswered(c)'
  BY DEF CallInv
<1>2. CallOnce(c) /\ CallAnswered(c)
  BY DEF CallInv
<1>3. InLog(c)' = InLog(c) /\ InRemote(c)' = {} /\ flight'[c] = {}
  BY <1>1, SeedsTyped DEF InLog, InRemote
<1>4. c \in forgotten' <=> c \in forgotten \/ InRemote(c) # {}
  BY <1>1 DEF InRemote
<1>5. Elsewhere(c)' = IF c \in forgotten \/ InRemote(c) # {} THEN {c} ELSE {}
  BY <1>3, <1>4 DEF Elsewhere
<1>6. InLog(c) = {} \/ ~(c \in forgotten \/ InRemote(c) # {})
  BY <1>2 DEF CallOnce, Elsewhere
<1>7. CallOnce(c)'
  BY <1>2, <1>3, <1>5, <1>6 DEF CallOnce, AtMostOne
<1>8. CallAnswered(c)'
  BY <1>1, <1>2, <1>3, <1>4, <1>5 DEF CallAnswered, Nowhere, Elsewhere
<1> QED BY <1>7, <1>8

LEMMA NextCalls ==
  ASSUME TypeOK, CallInv, [Next]_vars
  PROVE  CallInv'
<1>1. ASSUME NEW c \in Calls,
             CallStep(c) \/ \E session \in Sessions : RefusePost(c, session)
      PROVE  CallInv'
  BY <1>1, BackendPublishesCalls, OutcomeCalls DEF CallStep
<1>2. ASSUME NEW c \in Calls, NEW v \in Viewers, NEW topic \in Topics, NEW robot \in RobotIds,
             \/ PostMessage(c, v, robot, topic)
             \/ ExecutePublish(c, v, robot, topic)
             \/ PostProxied(c, v, robot, topic)
      PROVE  CallInv'
  BY <1>2, PublishCalls, PostProxiedCalls DEF PostMessage, ExecutePublish
<1>3. CASE BackendRestarts
  BY <1>3, RestartCalls
<1>4. CASE UNCHANGED <<messages, remote, flight, outcome, reply, forgotten>>
  <2> SUFFICES ASSUME NEW c \in Calls PROVE CallOnce(c)' /\ CallAnswered(c)'
    BY DEF CallInv
  <2> QED BY <1>4, CallKept DEF InLog, InRemote
<1>5. ASSUME NEW s \in Streams,
             \/ StreamStep(s)
             \/ \E topic \in Topics :
                  \/ \E session \in Sessions :
                       RefuseStream(s, session, topic) \/ ProxyStream(s, session, topic)
                  \/ \E v \in Viewers : Subscribe(s, v, topic)
      PROVE  UNCHANGED <<messages, remote, flight, outcome, reply, forgotten>>
  BY <1>5 DEF StreamStep, WriteHeaders, Connect, UpstreamEnds, WriteMessage, EndStream,
              Depart, RefuseStream, ProxyStream, Subscribe, calls, backend
<1>6. CASE UNCHANGED vars
  BY <1>4, <1>6 DEF vars
<1> QED BY <1>1, <1>2, <1>3, <1>4, <1>5, <1>6 DEF Next

(* The answer to a publication can be believed, however late the backend is, *)
(* however often it restarts and whenever the gateway gives up on it: every  *)
(* call is published at most once, a refused one never.                      *)
THEOREM PublishesAlwaysAccounted == Spec => []PublishesAccounted
<1>1. TypeOK /\ CallInv => PublishesAccounted
  <2> SUFFICES ASSUME CallInv, NEW c \in Calls
               PROVE  /\ outcome[c] = "published" => Published(c) \/ c \in forgotten
                      /\ outcome[c] \in {"none", "refused"} =>
                           ~Published(c) /\ flight[c] = {} /\ c \notin forgotten
                      /\ Cardinality(InLog(c)) + Cardinality(InRemote(c))
                           + Cardinality(Elsewhere(c)) <= 1
    BY DEF PublishesAccounted, InLog, InRemote, Elsewhere
  <2>1. CallOnce(c) /\ CallAnswered(c)
    BY DEF CallInv
  <2>2. Published(c) <=> InLog(c) # {} \/ InRemote(c) # {}
    BY DEF Published, InLog, InRemote
  <2>3. Cardinality(InLog(c)) + Cardinality(InRemote(c)) + Cardinality(Elsewhere(c)) <= 1
    <3>1. PICK a \in {0, 1}, b \in {0, 1}, e \in {0, 1} :
            /\ a = Cardinality(InLog(c)) /\ (InLog(c) = {} => a = 0)
            /\ b = Cardinality(InRemote(c)) /\ (InRemote(c) = {} => b = 0)
            /\ e = Cardinality(Elsewhere(c)) /\ (Elsewhere(c) = {} => e = 0)
      BY <2>1, AtMostOneCardinality DEF CallOnce
    <3>2. (a = 0 \/ b = 0) /\ (a = 0 \/ e = 0) /\ (b = 0 \/ e = 0)
      BY <2>1, <3>1 DEF CallOnce
    <3>3. a + b + e <= 1
      BY <3>2
    <3> QED BY <3>1, <3>3
  <2>4. Nowhere(c) => flight[c] = {} /\ c \notin forgotten
    BY DEF Nowhere, Elsewhere
  <2> QED BY <2>1, <2>2, <2>3, <2>4 DEF CallAnswered, Nowhere
<1>2. TypeOK /\ CallInv /\ [Next]_vars => CallInv'
  BY NextCalls
<1> QED BY <1>1, <1>2, InitCalls, TypeCorrect, PTL DEF Spec
----------------------------------------------------------------------------
(* Streams.                                                                 *)

LEMMA AppendConcat ==
  \A s, t \in Seq(LogEntry), m \in LogEntry : Append(s \o t, m) = s \o Append(t, m)
<1> SUFFICES ASSUME NEW s \in Seq(LogEntry), NEW t \in Seq(LogEntry), NEW m \in LogEntry
             PROVE  Append(s \o t, m) = s \o Append(t, m)
  OBVIOUS
<1>1. PICK st : st = s \o t
  OBVIOUS
<1>2. st \in Seq(LogEntry)
  BY <1>1, ConcatProperties
<1>3. Append(st, m) = st \o <<m>>
  BY <1>2, AppendIsConcat
<1>4. Append(t, m) = t \o <<m>>
  BY AppendIsConcat
<1>5. PICK one : one = <<m>>
  OBVIOUS
<1>6. one \in Seq(LogEntry)
  BY <1>5
<1>7. (s \o t) \o one = s \o (t \o one)
  BY <1>6, ConcatAssociative
<1> QED BY <1>1, <1>3, <1>4, <1>5, <1>7

LEMMA RestOfLog ==
  \A log \in Seq(LogEntry) : \A n \in 0..Len(log) :
    LET rest == SubSeq(log, n + 1, Len(log)) IN
    /\ rest \in Seq(LogEntry) /\ Len(rest) = Len(log) - n
    /\ \A i \in 1..(Len(log) - n) : rest[i] = log[n + i]
<1> SUFFICES ASSUME NEW log \in Seq(LogEntry), NEW n \in 0..Len(log),
                    NEW rest, rest = SubSeq(log, n + 1, Len(log))
             PROVE  /\ rest \in Seq(LogEntry) /\ Len(rest) = Len(log) - n
                    /\ \A i \in 1..(Len(log) - n) : rest[i] = log[n + i]
  OBVIOUS
<1>1. PICK k \in Nat : k = Len(log)
  BY LenProperties
<1>2. \A i \in 1..k : log[i] \in LogEntry
  BY <1>1, ElementOfSeq
<1>3. n + 1 \in Int /\ k \in Int /\ \A i \in (n + 1)..k : log[i] \in LogEntry
  BY <1>1, <1>2
<1>4. /\ rest \in Seq(LogEntry)
      /\ Len(rest) = IF n + 1 <= k THEN k - (n + 1) + 1 ELSE 0
      /\ \A i \in 1..(k - (n + 1) + 1) : rest[i] = log[(n + 1) + i - 1]
  BY <1>1, <1>3, SubSeqProperties
<1>5. n <= k /\ k - (n + 1) + 1 = k - n /\ \A i \in Nat : (n + 1) + i - 1 = n + i
  BY <1>1
<1> QED BY <1>1, <1>4, <1>5

LEMMA SubSeqOfLonger ==
  ASSUME NEW log \in Seq(LogEntry), NEW m \in LogEntry, NEW n \in 0..Len(log),
         NEW longer, longer = Append(log, m)
  PROVE  /\ n \in 0..Len(longer)
         /\ SubSeq(longer, n + 1, Len(longer)) = Append(SubSeq(log, n + 1, Len(log)), m)
         /\ SubSeq(longer, 1, n) = SubSeq(log, 1, n)
<1>0. PICK k : k = Len(log)
  OBVIOUS
<1>1. /\ k \in Nat /\ n \in 0..k
      /\ longer \in Seq(LogEntry) /\ Len(longer) = k + 1
      /\ longer[k + 1] = m /\ \A i \in 1..k : longer[i] = log[i]
  BY <1>0, AppendProperties, LenProperties
<1>2. \A i \in 1..k : log[i] \in LogEntry
  BY <1>0, ElementOfSeq
<1>3. \A i \in 1..(k + 1) : longer[i] \in LogEntry
  BY <1>1, ElementOfSeq
<1>4. PICK rest : rest = SubSeq(log, n + 1, Len(log))
  OBVIOUS
<1>5. /\ rest \in Seq(LogEntry) /\ Len(rest) = k - n
      /\ \A i \in 1..(k - n) : rest[i] = log[n + i]
  BY <1>0, <1>4, RestOfLog
<1>6. PICK x : x = SubSeq(longer, n + 1, Len(longer))
  OBVIOUS
<1>7. /\ x \in Seq(LogEntry) /\ Len(x) = k + 1 - n
      /\ \A i \in 1..(k + 1 - n) : x[i] = longer[n + i]
  <2>1. PICK k1 \in Nat : k1 = Len(longer) /\ k1 = k + 1
    BY <1>1
  <2>2. k \in Nat /\ n \in 0..k
    BY <1>1
  <2>3. n \in 0..k1 /\ k1 - n = k + 1 - n
    BY <2>1, <2>2
  <2>4. longer \in Seq(LogEntry) /\ n \in 0..Len(longer)
    BY <1>1, <2>1, <2>3
  <2>5. /\ x \in Seq(LogEntry) /\ Len(x) = Len(longer) - n
        /\ \A i \in 1..(Len(longer) - n) : x[i] = longer[n + i]
    BY <1>6, <2>4, RestOfLog, Zenon
  <2> QED BY <2>1, <2>3, <2>5
<1>8. PICK y : y = Append(rest, m)
  OBVIOUS
<1>9. /\ y \in Seq(LogEntry) /\ Len(y) = k - n + 1 /\ y[k - n + 1] = m
      /\ \A i \in 1..(k - n) : y[i] = rest[i]
  BY <1>5, <1>8, AppendProperties
<1>10. ASSUME NEW i \in 1..(k + 1 - n) PROVE x[i] = y[i]
  <2>1. CASE i = k + 1 - n
    <3>1. n + i = k + 1 /\ k - n + 1 = i
      BY <1>1, <2>1
    <3> QED BY <1>1, <1>7, <1>9, <3>1
  <2>2. CASE i # k + 1 - n
    <3>1. i \in 1..(k - n) /\ n + i \in 1..k
      BY <1>1, <2>2
    <3> QED BY <1>1, <1>5, <1>7, <1>9, <3>1
  <2> QED BY <2>1, <2>2
<1>11. x = y
  <2>1. Len(x) = Len(y)
    BY <1>1, <1>7, <1>9
  <2> QED BY <1>7, <1>9, <1>10, <2>1, SeqEqual
<1>12. SubSeq(longer, 1, n) = SubSeq(log, 1, n)
  BY <1>1
<1>13. n \in 0..Len(longer)
  BY <1>1
<1> QED BY <1>0, <1>1, <1>4, <1>6, <1>8, <1>11, <1>12, <1>13

LEMMA SubSeqsOfLog ==
  ASSUME NEW log \in Seq(LogEntry), NEW n \in 0..Len(log)
  PROVE  /\ SubSeq(log, n + 1, Len(log)) \in Seq(LogEntry)
         /\ SubSeq(log, 1, n) \in Seq(LogEntry)
<1>1. PICK k \in Nat : k = Len(log)
  BY LenProperties
<1>2. \A i \in 1..k : log[i] \in LogEntry
  BY <1>1, ElementOfSeq
<1>3. SubSeq(log, n + 1, k) \in Seq(LogEntry)
  <2>1. n + 1 \in Int /\ k \in Int /\ \A i \in (n + 1)..k : log[i] \in LogEntry
    BY <1>1, <1>2
  <2> QED BY <2>1, SubSeqProperties
<1>4. SubSeq(log, 1, n) \in Seq(LogEntry)
  <2>1. 1 \in Int /\ n \in Int /\ \A i \in 1..n : log[i] \in LogEntry
    BY <1>1, <1>2
  <2> QED BY <2>1, SubSeqProperties
<1> QED BY <1>1, <1>3, <1>4

\* What is sent to a stream when its log receives a message, and what the
\* two parts of its log hold then.
LEMMA SentMore ==
  ASSUME NEW log \in Seq(LogEntry), NEW m \in LogEntry, NEW n,
         NEW tenant, NEW topic, NEW sent \in Seq(LogEntry),
         SentOf(log, n, tenant, topic, sent),
         NEW longer, longer = Append(log, m)
  PROVE  SentOf(longer, n, tenant, topic, Kept(sent, m, tenant, topic))
<1> n \in 0..Len(log)
  BY DEF SentOf
<1>0. /\ sent = OfTopic(SubSeq(log, n + 1, Len(log)), tenant, topic)
      /\ OfTopic(log, tenant, topic) = OfTopic(SubSeq(log, 1, n), tenant, topic) \o sent
  BY DEF SentOf
<1>1. PICK rest, first : /\ rest = SubSeq(log, n + 1, Len(log))
                        /\ first = SubSeq(log, 1, n)
  OBVIOUS
<1>2. rest \in Seq(LogEntry) /\ first \in Seq(LogEntry)
  BY <1>1, SubSeqsOfLog
<1>3. PICK rest2 : rest2 = SubSeq(longer, n + 1, Len(longer))
  OBVIOUS
<1>4. rest2 = Append(rest, m) /\ SubSeq(longer, 1, n) = first /\ n \in 0..Len(longer)
  BY <1>1, <1>3, SubSeqOfLonger
<1>7. sent = OfTopic(rest, tenant, topic)
  BY <1>0, <1>1
<1>8. OfTopic(rest2, tenant, topic) = Kept(sent, m, tenant, topic)
  BY <1>2, <1>4, <1>7, TopicOfLonger
<1>9. PICK old : old = OfTopic(log, tenant, topic)
  OBVIOUS
<1>10. OfTopic(longer, tenant, topic) = Kept(old, m, tenant, topic)
  <2>1. PICK l, l2 : l = log /\ l2 = longer
    OBVIOUS
  <2>2. l \in Seq(LogEntry) /\ l2 = Append(l, m) /\ old = OfTopic(l, tenant, topic)
    BY <1>9, <2>1
  <2>3. OfTopic(l2, tenant, topic) = Kept(old, m, tenant, topic)
    BY <2>2, TopicOfLonger
  <2> QED BY <2>1, <2>3
<1>11. PICK p : p = OfTopic(first, tenant, topic)
  OBVIOUS
<1>12. p \in Seq(LogEntry)
  BY <1>2, <1>11, TopicType
<1>13. old = p \o sent
  BY <1>0, <1>1, <1>9, <1>11
<1>14. Kept(old, m, tenant, topic) = p \o Kept(sent, m, tenant, topic)
  <2>1. Append(old, m) = p \o Append(sent, m)
    BY <1>12, <1>13, AppendConcat
  <2> QED BY <1>13, <2>1 DEF Kept
<1> QED BY <1>3, <1>4, <1>8, <1>10, <1>11, <1>14 DEF SentOf

\* A stream that has just been subscribed or attached was sent nothing.
LEMMA SentNothing ==
  ASSUME NEW log \in Seq(LogEntry), NEW tenant, NEW topic
  PROVE  SentOf(log, Len(log), tenant, topic, <<>>)
<1>1. SubSeq(log, Len(log) + 1, Len(log)) = <<>> /\ SubSeq(log, 1, Len(log)) = log
  <2>1. Len(log) \in Nat
    BY LenProperties
  <2> QED BY <2>1, SubSeqFull
<1>2. OfTopic(<<>>, tenant, topic) = <<>> /\ OfTopic(log, tenant, topic) \in Seq(LogEntry)
  BY OfTopicEmpty, TopicType
<1>3. \A t \in Seq(LogEntry) : t \o <<>> = t
  OBVIOUS
<1>4. Len(log) \in 0..Len(log)
  OBVIOUS
<1> QED BY <1>1, <1>2, <1>3, <1>4 DEF SentOf

\* Writing a message moves it, and changes nothing of what was sent.
LEMMA SentSame ==
  ASSUME NEW w \in Seq(LogEntry), NEW q \in Seq(LogEntry), q # <<>>
  PROVE  Append(w, Head(q)) \o Tail(q) = w \o q
OBVIOUS

\* Once a stream has caught up, the newest messages of its topic are the ones
\* it showed last.
LEMMA NewestShownLast ==
  ASSUME NEW p \in Seq(LogEntry), NEW w \in Seq(LogEntry), w # <<>>
  PROVE  /\ LatestMessage(p \o w) = {Last(w)}
         /\ IsPrefix(RecentMessages(w), RecentMessages(p \o w))
<1> DEFINE all == p \o w
           k == Len(w)
<1>1. /\ k \in Nat \ {0} /\ all \in Seq(LogEntry) /\ Len(all) = Len(p) + k /\ Len(p) \in Nat
      /\ \A i \in 1..k : all[Len(p) + i] = w[i]
      /\ all # <<>>
  OBVIOUS
<1> HIDE DEF all, k
<1>2. all[Len(all)] = w[k]
  BY <1>1
<1>3. LatestMessage(all) = {Last(w)}
  BY <1>1, <1>2 DEF LatestMessage, Last, k
<1> DEFINE Recent(s) == IF Len(s) < RecentLimit THEN Len(s) ELSE RecentLimit
<1>4. ASSUME NEW s \in Seq(LogEntry)
      PROVE  RecentMessages(s) = [i \in 1..Recent(s) |-> s[(Len(s) - i) + 1]]
  <2>1. RecentLimit \in Nat \ {0} /\ Len(s) \in Nat
    BY TopicsAssumption
  <2>2. Recent(s) \in 0..Len(s)
    BY <2>1
  <2>3. PICK n \in 0..Len(s) : n = Recent(s)
    BY <2>2
  <2>4. Reverse(s) \in Seq(LogEntry) /\ Len(Reverse(s)) = Len(s)
    <3>1. \A i \in 1..Len(s) : s[(Len(s) - i) + 1] \in LogEntry
      BY <2>1
    <3> QED BY <2>1, <3>1 DEF Reverse
  <2>5. SubSeq(Reverse(s), 1, n) = [i \in 1..n |-> Reverse(s)[i]]
    BY <2>1, <2>4
  <2>6. \A i \in 1..n : Reverse(s)[i] = s[(Len(s) - i) + 1]
    BY <2>1 DEF Reverse
  <2>7. SubSeq(Reverse(s), 1, n) = [i \in 1..n |-> s[(Len(s) - i) + 1]]
    BY <2>5, <2>6
  <2> QED BY <2>3, <2>7 DEF RecentMessages
<1>5. /\ Recent(w) \in Nat /\ Recent(all) \in Nat /\ Recent(w) <= Recent(all)
      /\ Recent(w) <= k
  BY <1>1, TopicsAssumption DEF k
<1>6. \A i \in 1..Recent(w) : all[(Len(all) - i) + 1] = w[(Len(w) - i) + 1]
  <2> SUFFICES ASSUME NEW i \in 1..Recent(w)
               PROVE  all[(Len(all) - i) + 1] = w[(Len(w) - i) + 1]
    OBVIOUS
  <2> HIDE DEF Recent
  <2>1. (k - i) + 1 \in 1..k /\ (Len(all) - i) + 1 = Len(p) + ((k - i) + 1)
    BY <1>1, <1>5
  <2> QED BY <1>1, <2>1 DEF k
<1>7. PICK a, b : a = RecentMessages(w) /\ b = RecentMessages(all)
  OBVIOUS
<1>8. PICK x \in Nat, y \in Nat : x = Recent(w) /\ y = Recent(all) /\ x <= y
  BY <1>5
<1>9. /\ a = [i \in 1..x |-> w[(Len(w) - i) + 1]]
      /\ b = [i \in 1..y |-> all[(Len(all) - i) + 1]]
  BY <1>1, <1>4, <1>7, <1>8
<1>10. \A i \in 1..x : b[i] = a[i]
  BY <1>6, <1>8, <1>9
<1>11. Len(a) = x /\ Len(b) = y /\ SubSeq(a, 1, x) = SubSeq(b, 1, x)
  <2>1. a \in Seq(LogEntry) /\ b \in Seq(LogEntry) /\ Len(a) = x /\ Len(b) = y
    <3>1. \A i \in 1..x : w[(Len(w) - i) + 1] \in LogEntry
      BY <1>1, <1>5, <1>8 DEF k
    <3>2. \A i \in 1..y : all[(Len(all) - i) + 1] \in LogEntry
      BY <1>1, <1>8, TopicsAssumption
    <3>3. a \in [1..x -> LogEntry] /\ b \in [1..y -> LogEntry]
      BY <1>9, <3>1, <3>2
    <3>4. \A n \in Nat : \A f \in [1..n -> LogEntry] : f \in Seq(LogEntry) /\ Len(f) = n
      BY SeqDef
    <3> QED BY <1>8, <3>3, <3>4
  <2> QED BY <1>8, <1>10, <2>1
<1>12. IsPrefix(a, b)
  BY <1>8, <1>11 DEF IsPrefix
<1> QED BY <1>3, <1>7, <1>12 DEF all

\* A stream that is neither written to nor sent anything, and whose log stands.
LEMMA SentKept ==
  ASSUME NEW s \in Streams, Sent(s), UNCHANGED <<backed, Feed>>,
         asked'[s] = asked[s], since'[s] = since[s],
         written'[s] \o queue'[s] = written[s] \o queue[s]
  PROVE  Sent(s)'
<1>1. FeedTenant(s)' = FeedTenant(s)
  BY DEF FeedTenant
<1> QED BY <1>1 DEF Sent

\* A stream whose log receives a message.
LEMMA SentLonger ==
  ASSUME TypeOK, NEW s \in Streams, Sent(s), NEW m \in LogEntry,
         Feed' = Append(Feed, m), backed' = backed,
         asked'[s] = asked[s], since'[s] = since[s], written'[s] = written[s],
         queue'[s] = Kept(queue[s], m, FeedTenant(s), asked[s].topic)
  PROVE  Sent(s)'
<1>1. PICK log, n, w, q, tenant, topic :
        /\ log = Feed /\ n = since[s] /\ w = written[s] /\ q = queue[s]
        /\ tenant = FeedTenant(s) /\ topic = asked[s].topic
  OBVIOUS
<1>2. PICK longer, sent, more : longer = Feed' /\ sent = w \o q /\ more = w \o queue'[s]
  OBVIOUS
<1>3. log \in Seq(LogEntry) /\ w \in Seq(LogEntry) /\ q \in Seq(LogEntry)
  BY <1>1 DEF TypeOK, Feed
<1>4. sent \in Seq(LogEntry)
  BY <1>2, <1>3, ConcatProperties
<1>5. SentOf(log, n, tenant, topic, sent)
  BY <1>1, <1>2 DEF Sent
<1>6. longer = Append(log, m)
  BY <1>1, <1>2
<1>7. SentOf(longer, n, tenant, topic, Kept(sent, m, tenant, topic))
  BY <1>3, <1>4, <1>5, <1>6, SentMore
<1>8. Kept(sent, m, tenant, topic) = w \o Kept(q, m, tenant, topic)
  <2>1. Append(sent, m) = w \o Append(q, m)
    BY <1>2, <1>3, AppendConcat
  <2> QED BY <1>2, <2>1 DEF Kept
<1>9. Kept(sent, m, tenant, topic) = more
  BY <1>1, <1>2, <1>8
<1>10. /\ tenant = FeedTenant(s)' /\ topic = asked'[s].topic /\ n = since'[s]
       /\ w = written'[s]
  BY <1>1 DEF FeedTenant
<1> QED BY <1>2, <1>7, <1>9, <1>10 DEF Sent

\* A stream that was sent nothing yet and is fed from now on.
LEMMA SentFirst ==
  ASSUME NEW s \in Streams, Feed' \in Seq(LogEntry), since'[s] = Len(Feed'),
         written'[s] = <<>>, queue'[s] = <<>>
  PROVE  Sent(s)'
<1>1. PICK log, tenant, topic :
        log = Feed' /\ tenant = FeedTenant(s)' /\ topic = asked'[s].topic
  OBVIOUS
<1>2. SentOf(log, Len(log), tenant, topic, <<>>)
  BY <1>1, SentNothing
<1>3. written'[s] \o queue'[s] = <<>>
  OBVIOUS
<1> QED BY <1>1, <1>2, <1>3 DEF Sent

LEMMA InitStreams == Init => StreamInv
BY DEF Init, StreamInv, SubscribersOpen, AttachedOpen, UnfedEmpty, SentInOrder, Fed,
       HasReceiver

\* A step of something else.
LEMMA StreamsUntouched ==
  ASSUME StreamInv,
         UNCHANGED <<backed, messages, remote, subscribers, place, asked, queue, written,
                     since, attached>>
  PROVE  StreamInv'
<1>1. SubscribersOpen' /\ AttachedOpen' /\ UnfedEmpty'
  BY DEF StreamInv, SubscribersOpen, AttachedOpen, UnfedEmpty, HasReceiver
<1>2. ASSUME NEW s \in Streams, Fed(s)' PROVE Sent(s)'
  <2>1. Fed(s)
    BY <1>2 DEF Fed, HasReceiver
  <2>2. Feed' = Feed
    BY DEF Feed
  <2> QED BY <2>1, <2>2, SentKept DEF StreamInv, SentInOrder
<1> QED BY <1>1, <1>2 DEF StreamInv, SentInOrder

LEMMA PublishStreams ==
  ASSUME TypeOK, TypeOK', StreamInv, NEW c \in Calls, NEW v \in Viewers, NEW visitor,
         NEW robot \in RobotIds, NEW topic \in Topics,
         PublishMessage(c, v.tenant, v.uid, visitor, robot, topic)
  PROVE  StreamInv'
<1>0. UNCHANGED <<backed, place, asked, written, since, remote, attached>>
  BY DEF PublishMessage, backend
<1>1. CASE topic \in AllowedTopics /\ HasRobot(v.tenant, v.uid, visitor, robot)
  <2>1. PICK m : m = Message(messages, v.tenant, topic, robot, v.uid, c)
    OBVIOUS
  <2>2. m \in LogEntry
    BY <1>1, <2>1, MessageType DEF TypeOK, Tenants
  <2>3. /\ messages' = Append(messages, m)
        /\ subscribers' = {sub \in subscribers : Matches(sub, m) => HasReceiver(sub.stream)}
        /\ queue' = [s \in Streams |->
             IF HasReceiver(s) /\ \E sub \in subscribers : sub.stream = s /\ Matches(sub, m)
             THEN Append(queue[s], m) ELSE queue[s]]
    BY <1>1, <2>1 DEF PublishMessage
  <2>4. SubscribersOpen'
    BY <1>0, <2>3 DEF StreamInv, SubscribersOpen, HasReceiver
  <2>5. AttachedOpen'
    BY <1>0 DEF StreamInv, AttachedOpen
  <2>6. UnfedEmpty'
    BY <1>0, <2>3 DEF StreamInv, UnfedEmpty, SubscribersOpen, HasReceiver, TypeOK
  <2>7. ASSUME NEW s \in Streams, Fed(s)' PROVE Sent(s)'
    <3>1. Fed(s)
      BY <1>0, <2>7 DEF Fed, HasReceiver
    <3>2. Sent(s)
      BY <3>1 DEF StreamInv, SentInOrder
    <3>3. CASE backed
      <4>1. queue'[s] = queue[s]
        BY <2>3, <3>3 DEF StreamInv, SubscribersOpen
      <4>2. Feed' = Feed
        BY <1>0, <3>3 DEF Feed
      <4> QED BY <1>0, <3>2, <4>1, <4>2, SentKept
    <3>4. CASE ~backed
      <4>1. HasReceiver(s)
        BY <3>1, <3>4 DEF Fed
      <4>2. PICK sub \in subscribers : sub.stream = s
        BY <3>4, <4>1 DEF StreamInv, SubscribersOpen
      <4>3. /\ asked[s] = [tenant |-> sub.tenant, topic |-> sub.topic]
            /\ \A other \in subscribers : other.stream = s =>
                 asked[s] = [tenant |-> other.tenant, topic |-> other.topic]
        BY <4>2 DEF StreamInv, SubscribersOpen
      <4>4. (\E other \in subscribers : other.stream = s /\ Matches(other, m))
               <=> m.tenant = asked[s].tenant /\ m.topic = asked[s].topic
        <5>1. ASSUME NEW other \in subscribers, other.stream = s
              PROVE  other.tenant = asked[s].tenant /\ other.topic = asked[s].topic
          <6>1. asked[s] = [tenant |-> other.tenant, topic |-> other.topic]
            BY <4>3, <5>1
          <6> QED BY <6>1
        <5> QED BY <4>2, <5>1 DEF Matches
      <4>5. queue'[s] = Kept(queue[s], m, FeedTenant(s), asked[s].topic)
        BY <2>3, <3>4, <4>1, <4>4 DEF Kept, FeedTenant
      <4>6. Feed' = Append(Feed, m)
        BY <1>0, <2>3, <3>4 DEF Feed
      <4> QED BY <1>0, <2>2, <3>2, <4>5, <4>6, SentLonger
    <3> QED BY <3>3, <3>4
  <2> QED BY <2>4, <2>5, <2>6, <2>7 DEF StreamInv, SentInOrder
<1>2. CASE ~(topic \in AllowedTopics /\ HasRobot(v.tenant, v.uid, visitor, robot))
  <2>1. UNCHANGED <<messages, subscribers, queue>>
    BY <1>2 DEF PublishMessage
  <2> QED BY <1>0, <2>1, StreamsUntouched
<1> QED BY <1>1, <1>2

LEMMA BackendPublishesStreams ==
  ASSUME TypeOK, StreamInv, NEW c \in Calls, BackendPublishes(c)
  PROVE  StreamInv'
<1>0. UNCHANGED <<backed, messages, subscribers, place, asked, written, since, attached>>
  BY DEF BackendPublishes
<1>1. PICK r \in flight[c] :
        LET m == Message(remote, RemoteTenant, r.topic, r.robot, r.viewer.uid, c) IN
        IF r.topic \in RemoteAllowedTopics /\ RemoteHasRobot(r.viewer, r.robot)
        THEN /\ remote' = Append(remote, m)
             /\ queue' = [s \in Streams |->
                  IF s \in attached /\ asked[s].topic = r.topic
                  THEN Append(queue[s], m) ELSE queue[s]]
             /\ reply' = [reply EXCEPT ![c] = "published"]
        ELSE /\ reply' = [reply EXCEPT ![c] = "refused"]
             /\ UNCHANGED <<remote, queue>>
  BY DEF BackendPublishes
<1>2. r \in [viewer : Viewers, robot : RobotIds, topic : Topics]
  BY DEF TypeOK
<1>3. CASE r.topic \in RemoteAllowedTopics /\ RemoteHasRobot(r.viewer, r.robot)
  <2>1. PICK m : m = Message(remote, RemoteTenant, r.topic, r.robot, r.viewer.uid, c)
    OBVIOUS
  <2>2. m \in LogEntry /\ m.tenant = RemoteTenant /\ m.topic = r.topic
    <3>1. m \in LogEntry
      BY <1>2, <1>3, <2>1, MessageType DEF TypeOK, Tenants
    <3> QED BY <2>1, <3>1 DEF Message
  <2>3. /\ remote' = Append(remote, m)
        /\ queue' = [s \in Streams |->
             IF s \in attached /\ asked[s].topic = r.topic
             THEN Append(queue[s], m) ELSE queue[s]]
    BY <1>1, <1>3, <2>1
  <2>4. SubscribersOpen' /\ AttachedOpen'
    BY <1>0 DEF StreamInv, SubscribersOpen, AttachedOpen, HasReceiver
  <2>5. UnfedEmpty'
    BY <1>0, <2>3 DEF StreamInv, UnfedEmpty, AttachedOpen
  <2>6. ASSUME NEW s \in Streams, Fed(s)' PROVE Sent(s)'
    <3>1. Fed(s)
      BY <1>0, <2>6 DEF Fed, HasReceiver
    <3>2. Sent(s)
      BY <3>1 DEF StreamInv, SentInOrder
    <3>3. CASE ~backed
      <4>1. queue'[s] = queue[s]
        BY <2>3, <3>3 DEF StreamInv, AttachedOpen
      <4>2. Feed' = Feed
        BY <1>0, <3>3 DEF Feed
      <4> QED BY <1>0, <3>2, <4>1, <4>2, SentKept
    <3>4. CASE backed
      <4>1. s \in attached
        BY <3>1, <3>4 DEF Fed
      <4>2. queue'[s] = Kept(queue[s], m, FeedTenant(s), asked[s].topic)
        BY <2>2, <2>3, <3>4, <4>1 DEF Kept, FeedTenant
      <4>3. Feed' = Append(Feed, m)
        BY <1>0, <2>3, <3>4 DEF Feed
      <4> QED BY <1>0, <2>2, <3>2, <4>2, <4>3, SentLonger
    <3> QED BY <3>3, <3>4
  <2> QED BY <2>4, <2>5, <2>6 DEF StreamInv, SentInOrder
<1>4. CASE ~(r.topic \in RemoteAllowedTopics /\ RemoteHasRobot(r.viewer, r.robot))
  <2>1. UNCHANGED <<remote, queue>>
    BY <1>1, <1>4
  <2> QED BY <1>0, <2>1, StreamsUntouched
<1> QED BY <1>3, <1>4

LEMMA RestartStreams ==
  ASSUME StreamInv, BackendRestarts
  PROVE  StreamInv'
<1>1. /\ UNCHANGED <<backed, messages, subscribers, place, asked, queue, written, since>>
      /\ backed /\ attached' = {}
  BY DEF BackendRestarts, threads
<1>2. SubscribersOpen' /\ AttachedOpen' /\ UnfedEmpty'
  BY <1>1 DEF StreamInv, SubscribersOpen, AttachedOpen, UnfedEmpty, HasReceiver
<1>3. SentInOrder'
  BY <1>1 DEF SentInOrder, Fed
<1> QED BY <1>2, <1>3 DEF StreamInv

LEMMA OpenStreams ==
  ASSUME TypeOK, TypeOK', StreamInv, NEW s \in Streams, NEW topic \in Topics
  PROVE  /\ \A session \in Sessions : RefuseStream(s, session, topic) => StreamInv'
         /\ \A session \in Sessions : ProxyStream(s, session, topic) => StreamInv'
         /\ \A v \in Viewers : Subscribe(s, v, topic) => StreamInv'
<1>1. ASSUME NEW session \in Sessions, RefuseStream(s, session, topic)
      PROVE  StreamInv'
  <2>1. /\ place[s] = "idle" /\ place' = [place EXCEPT ![s] = "ended"]
        /\ UNCHANGED <<backed, messages, subscribers, asked, queue, written, since, remote,
                       attached>>
    BY <1>1 DEF RefuseStream, backend
  <2>2. SubscribersOpen' /\ AttachedOpen' /\ UnfedEmpty'
    BY <2>1 DEF StreamInv, SubscribersOpen, AttachedOpen, UnfedEmpty, HasReceiver, TypeOK
  <2>3. ASSUME NEW t \in Streams, Fed(t)' PROVE Sent(t)'
    <3>1. Fed(t) /\ Feed' = Feed
      BY <2>1, <2>3 DEF Fed, HasReceiver, Feed, TypeOK
    <3> QED BY <2>1, <3>1, SentKept DEF StreamInv, SentInOrder
  <2> QED BY <2>2, <2>3 DEF StreamInv, SentInOrder
<1>2. ASSUME NEW session \in Sessions, ProxyStream(s, session, topic)
      PROVE  StreamInv'
  <2>1. /\ place[s] = "idle" /\ backed /\ place' = [place EXCEPT ![s] = "headers"]
        /\ UNCHANGED <<backed, messages, subscribers, queue, written, since, remote, attached>>
        /\ \A t \in Streams : t # s => asked'[t] = asked[t]
    BY <1>2 DEF ProxyStream, backend, TypeOK
  <2>2. SubscribersOpen' /\ AttachedOpen' /\ UnfedEmpty'
    BY <2>1 DEF StreamInv, SubscribersOpen, AttachedOpen, UnfedEmpty, HasReceiver, TypeOK
  <2>3. ASSUME NEW t \in Streams, Fed(t)' PROVE Sent(t)'
    <3>1. Fed(t) /\ Feed' = Feed /\ t # s
      BY <2>1, <2>3 DEF Fed, Feed, StreamInv, AttachedOpen
    <3> QED BY <2>1, <3>1, SentKept DEF StreamInv, SentInOrder
  <2> QED BY <2>2, <2>3 DEF StreamInv, SentInOrder
<1>3. ASSUME NEW v \in Viewers, Subscribe(s, v, topic)
      PROVE  StreamInv'
  <2> DEFINE new == [stream |-> s, tenant |-> v.tenant, topic |-> topic]
  <2>1. /\ place[s] = "idle" /\ ~backed /\ place' = [place EXCEPT ![s] = "headers"]
        /\ subscribers' = subscribers \cup {new}
        /\ asked' = [asked EXCEPT ![s] = [tenant |-> v.tenant, topic |-> topic]]
        /\ since' = [since EXCEPT ![s] = Len(messages)]
        /\ UNCHANGED <<backed, messages, queue, written, remote, attached>>
    BY <1>3 DEF Subscribe, backend
  <2>2. SubscribersOpen'
    <3>1. ASSUME NEW sub \in subscribers'
          PROVE  /\ place'[sub.stream] # "idle"
                 /\ asked'[sub.stream] = [tenant |-> sub.tenant, topic |-> sub.topic]
      <4>1. CASE sub \in subscribers
        <5>1. /\ sub.stream \in Streams /\ place[sub.stream] # "idle"
              /\ asked[sub.stream] = [tenant |-> sub.tenant, topic |-> sub.topic]
          BY <4>1 DEF StreamInv, SubscribersOpen, TypeOK
        <5> QED BY <2>1, <5>1 DEF TypeOK
      <4>2. CASE sub = new
        BY <2>1, <4>2 DEF TypeOK
      <4> QED BY <2>1, <3>1, <4>1, <4>2
    <3>2. ASSUME NEW t \in Streams, HasReceiver(t)'
          PROVE  \E sub \in subscribers' : sub.stream = t
      <4>1. CASE t = s
        <5>1. new \in subscribers' /\ new.stream = s
          BY <2>1
        <5> QED BY <4>1, <5>1
      <4>2. CASE t # s
        <5>1. HasReceiver(t)
          BY <2>1, <3>2, <4>2 DEF HasReceiver, TypeOK
        <5> QED BY <2>1, <5>1 DEF StreamInv, SubscribersOpen
      <4> QED BY <4>1, <4>2
    <3> QED BY <2>1, <3>1, <3>2 DEF SubscribersOpen
  <2>3. AttachedOpen' /\ UnfedEmpty'
    BY <2>1 DEF StreamInv, AttachedOpen, UnfedEmpty, TypeOK
  <2>4. ASSUME NEW t \in Streams, Fed(t)' PROVE Sent(t)'
    <3>1. Feed' = Feed /\ Feed' = messages'
      BY <2>1 DEF Feed
    <3>2. CASE t = s
      <4>1. written[s] = <<>> /\ queue[s] = <<>>
        BY <2>1 DEF StreamInv, UnfedEmpty
      <4>2. since'[s] = Len(Feed') /\ Feed' \in Seq(LogEntry)
        BY <2>1, <3>1 DEF TypeOK
      <4> QED BY <2>1, <3>2, <4>1, <4>2, SentFirst
    <3>3. CASE t # s
      <4>1. Fed(t) /\ asked'[t] = asked[t] /\ since'[t] = since[t]
        BY <2>1, <2>4, <3>3 DEF Fed, HasReceiver, TypeOK
      <4> QED BY <2>1, <3>1, <4>1, SentKept DEF StreamInv, SentInOrder
    <3> QED BY <3>2, <3>3
  <2> QED BY <2>2, <2>3, <2>4 DEF StreamInv, SentInOrder
<1> QED BY <1>1, <1>2, <1>3

LEMMA StepStreams ==
  ASSUME TypeOK, TypeOK', StreamInv, NEW s \in Streams, StreamStep(s)
  PROVE  StreamInv'
<1>1. ASSUME WriteHeaders(s) PROVE StreamInv'
  <2>1. /\ place[s] = "headers"
        /\ place' = [place EXCEPT ![s] = IF backed THEN "connect" ELSE "open"]
        /\ UNCHANGED <<backed, messages, subscribers, asked, queue, written, since, remote,
                       attached>>
    BY <1>1 DEF WriteHeaders, backend
  <2>2. SubscribersOpen' /\ AttachedOpen' /\ UnfedEmpty'
    BY <2>1 DEF StreamInv, SubscribersOpen, AttachedOpen, UnfedEmpty, HasReceiver, TypeOK
  <2>3. ASSUME NEW t \in Streams, Fed(t)' PROVE Sent(t)'
    <3>1. Fed(t) /\ Feed' = Feed
      BY <2>1, <2>3 DEF Fed, HasReceiver, Feed, TypeOK
    <3> QED BY <2>1, <3>1, SentKept DEF StreamInv, SentInOrder
  <2> QED BY <2>2, <2>3 DEF StreamInv, SentInOrder
<1>2. ASSUME Connect(s) PROVE StreamInv'
  <2>1. /\ place[s] = "connect" /\ place' = [place EXCEPT ![s] = "open"]
        /\ attached' = attached \cup {s}
        /\ since' = [since EXCEPT ![s] = Len(remote)]
        /\ UNCHANGED <<backed, messages, subscribers, asked, queue, written, remote>>
    BY <1>2 DEF Connect
  <2>2. backed
    BY <2>1 DEF StreamInv, AttachedOpen
  <2>3. SubscribersOpen' /\ AttachedOpen' /\ UnfedEmpty'
    BY <2>1, <2>2 DEF StreamInv, SubscribersOpen, AttachedOpen, UnfedEmpty, TypeOK
  <2>4. ASSUME NEW t \in Streams, Fed(t)' PROVE Sent(t)'
    <3>1. Feed' = Feed /\ Feed' = remote'
      BY <2>1, <2>2 DEF Feed
    <3>2. CASE t = s
      <4>1. written[s] = <<>> /\ queue[s] = <<>>
        BY <2>1 DEF StreamInv, UnfedEmpty
      <4>2. since'[s] = Len(Feed') /\ Feed' \in Seq(LogEntry)
        BY <2>1, <3>1 DEF TypeOK
      <4> QED BY <2>1, <3>2, <4>1, <4>2, SentFirst
    <3>3. CASE t # s
      <4>1. Fed(t) /\ since'[t] = since[t]
        BY <2>1, <2>2, <2>4, <3>3 DEF Fed, TypeOK
      <4> QED BY <2>1, <3>1, <4>1, SentKept DEF StreamInv, SentInOrder
    <3> QED BY <3>2, <3>3
  <2> QED BY <2>3, <2>4 DEF StreamInv, SentInOrder
<1>3. ASSUME UpstreamEnds(s) PROVE StreamInv'
  <2>1. /\ backed /\ place' = [place EXCEPT ![s] = "ended"]
        /\ UNCHANGED <<backed, messages, subscribers, asked, queue, written, since, remote,
                       attached>>
    BY <1>3 DEF UpstreamEnds, backend
  <2>2. s \notin attached
    BY <1>3 DEF UpstreamEnds, StreamInv, AttachedOpen
  <2>3. SubscribersOpen' /\ AttachedOpen' /\ UnfedEmpty'
    BY <2>1, <2>2 DEF StreamInv, SubscribersOpen, AttachedOpen, UnfedEmpty, TypeOK
  <2>4. ASSUME NEW t \in Streams, Fed(t)' PROVE Sent(t)'
    <3>1. Fed(t) /\ Feed' = Feed
      BY <2>1, <2>4 DEF Fed, Feed
    <3> QED BY <2>1, <3>1, SentKept DEF StreamInv, SentInOrder
  <2> QED BY <2>3, <2>4 DEF StreamInv, SentInOrder
<1>4. ASSUME WriteMessage(s) PROVE StreamInv'
  <2>1. /\ place[s] = "open" /\ queue[s] # <<>>
        /\ written' = [written EXCEPT ![s] = Append(written[s], Head(queue[s]))]
        /\ queue' = [queue EXCEPT ![s] = Tail(queue[s])]
        /\ UNCHANGED <<backed, messages, subscribers, place, asked, since, remote, attached>>
    BY <1>4 DEF WriteMessage, backend
  <2>2. SubscribersOpen' /\ AttachedOpen'
    BY <2>1 DEF StreamInv, SubscribersOpen, AttachedOpen, HasReceiver
  <2>3. UnfedEmpty'
    BY <2>1 DEF StreamInv, UnfedEmpty, TypeOK
  <2>4. ASSUME NEW t \in Streams, Fed(t)' PROVE Sent(t)'
    <3>1. Fed(t) /\ Feed' = Feed
      BY <2>1, <2>4 DEF Fed, HasReceiver, Feed
    <3>2. written'[t] \o queue'[t] = written[t] \o queue[t]
      <4>1. CASE t = s
        <5>1. PICK w, q : w = written[s] /\ q = queue[s]
          OBVIOUS
        <5>2. w \in Seq(LogEntry) /\ q \in Seq(LogEntry) /\ q # <<>>
          BY <2>1, <5>1 DEF TypeOK
        <5>3. Append(w, Head(q)) \o Tail(q) = w \o q
          BY <5>2, SentSame
        <5>4. written'[s] = Append(w, Head(q)) /\ queue'[s] = Tail(q)
          BY <2>1, <5>1 DEF TypeOK
        <5> QED BY <4>1, <5>1, <5>3, <5>4
      <4>2. CASE t # s
        BY <2>1, <4>2 DEF TypeOK
      <4> QED BY <4>1, <4>2
    <3> QED BY <2>1, <3>1, <3>2, SentKept DEF StreamInv, SentInOrder
  <2> QED BY <2>2, <2>3, <2>4 DEF StreamInv, SentInOrder
<1>5. ASSUME EndStream(s) PROVE StreamInv'
  <2>1. /\ place[s] \in {"headers", "open"} /\ place' = [place EXCEPT ![s] = "ended"]
        /\ queue' = [queue EXCEPT ![s] = <<>>] /\ attached' = attached \ {s}
        /\ UNCHANGED <<backed, messages, subscribers, asked, written, since, remote>>
    BY <1>5 DEF EndStream
  <2>2. SubscribersOpen' /\ AttachedOpen' /\ UnfedEmpty'
    BY <2>1 DEF StreamInv, SubscribersOpen, AttachedOpen, UnfedEmpty, HasReceiver, TypeOK
  <2>3. ASSUME NEW t \in Streams, Fed(t)' PROVE Sent(t)'
    <3>1. Fed(t) /\ Feed' = Feed /\ t # s
      BY <2>1, <2>3 DEF Fed, HasReceiver, Feed, TypeOK
    <3>2. queue'[t] = queue[t]
      BY <2>1, <3>1 DEF TypeOK
    <3> QED BY <2>1, <3>1, <3>2, SentKept DEF StreamInv, SentInOrder
  <2> QED BY <2>2, <2>3 DEF StreamInv, SentInOrder
<1>6. ASSUME Depart(s) PROVE StreamInv'
  BY <1>6, StreamsUntouched DEF Depart, threads, backend
<1> QED BY <1>1, <1>2, <1>3, <1>4, <1>5, <1>6 DEF StreamStep

LEMMA NextStreams ==
  ASSUME TypeOK, TypeOK', StreamInv, [Next]_vars
  PROVE  StreamInv'
<1>1. ASSUME NEW c \in Calls, CallStep(c) PROVE StreamInv'
  <2>1. CASE BackendPublishes(c)
    BY <2>1, BackendPublishesStreams
  <2>2. CASE AnswerProxied(c) \/ GiveUp(c)
    BY <2>2, StreamsUntouched DEF AnswerProxied, GiveUp, threads, backend
  <2> QED BY <1>1, <2>1, <2>2 DEF CallStep
<1>2. ASSUME NEW c \in Calls, NEW session \in Sessions, RefusePost(c, session)
      PROVE  StreamInv'
  BY <1>2, StreamsUntouched DEF RefusePost, threads, backend
<1>3. ASSUME NEW c \in Calls, NEW v \in Viewers, NEW topic \in Topics, NEW robot \in RobotIds,
             \/ PostMessage(c, v, robot, topic)
             \/ ExecutePublish(c, v, robot, topic)
             \/ PostProxied(c, v, robot, topic)
      PROVE  StreamInv'
  <2>1. CASE PostMessage(c, v, robot, topic) \/ ExecutePublish(c, v, robot, topic)
    BY <2>1, PublishStreams DEF PostMessage, ExecutePublish
  <2>2. CASE PostProxied(c, v, robot, topic)
    BY <2>2, StreamsUntouched DEF PostProxied, threads, backend
  <2> QED BY <1>3, <2>1, <2>2
<1>4. ASSUME NEW s \in Streams, NEW topic \in Topics,
             \/ \E session \in Sessions :
                  RefuseStream(s, session, topic) \/ ProxyStream(s, session, topic)
             \/ \E v \in Viewers : Subscribe(s, v, topic)
      PROVE  StreamInv'
  BY <1>4, OpenStreams
<1>5. CASE UNCHANGED vars
  BY <1>5, StreamsUntouched DEF vars
<1> QED BY <1>1, <1>2, <1>3, <1>4, <1>5, StepStreams, RestartStreams DEF Next

(* A client that stays on the line of a fed stream is shown every message of *)
(* his tenant's topic since it was attached, once and in order, with a       *)
(* backend or without; and when it has caught up, the newest messages the    *)
(* app's routes list are those it showed last.                               *)
THEOREM StreamsAlwaysFaithful == Spec => []StreamFaithful
<1>1. ASSUME TypeOK, StreamInv PROVE StreamFaithful
  <2> SUFFICES ASSUME NEW s \in Streams, place[s] = "open", backed => s \in attached
               PROVE  /\ written[s] \o queue[s] =
                           ForStream(s, SubSeq(Feed, since[s] + 1, Len(Feed)))
                      /\ queue[s] = <<>> /\ written[s] # <<>> =>
                           LET all == AppMessages(asked[s].tenant, asked[s].topic) IN
                           /\ LatestMessage(all) = {Last(written[s])}
                           /\ IsPrefix(RecentMessages(written[s]), RecentMessages(all))
    BY DEF StreamFaithful
  <2>1. Sent(s)
    BY <1>1 DEF StreamInv, SentInOrder, Fed, HasReceiver
  <2>2. written[s] \o queue[s] = ForStream(s, SubSeq(Feed, since[s] + 1, Len(Feed)))
    BY <2>1 DEF Sent, SentOf, ForStream, FeedTenant
  <2>3. ASSUME queue[s] = <<>>, written[s] # <<>>
        PROVE  /\ LatestMessage(AppMessages(asked[s].tenant, asked[s].topic)) =
                    {Last(written[s])}
               /\ IsPrefix(RecentMessages(written[s]),
                           RecentMessages(AppMessages(asked[s].tenant, asked[s].topic)))
    <3>1. PICK log, n, w, tenant, topic :
            /\ log = Feed /\ n = since[s] /\ w = written[s]
            /\ tenant = FeedTenant(s) /\ topic = asked[s].topic
      OBVIOUS
    <3>2. log \in Seq(LogEntry) /\ w \in Seq(LogEntry) /\ w # <<>>
      BY <1>1, <2>3, <3>1 DEF TypeOK, Feed
    <3>3. w = written[s] \o queue[s]
      <4>1. w \o <<>> = w
        BY <3>2
      <4> QED BY <2>3, <3>1, <4>1
    <3>4. SentOf(log, n, tenant, topic, w)
      BY <2>1, <3>1, <3>3 DEF Sent
    <3>5. PICK p : p = OfTopic(SubSeq(log, 1, n), tenant, topic)
      OBVIOUS
    <3>6. p \in Seq(LogEntry)
      <4>1. PICK first : first = SubSeq(log, 1, n)
        OBVIOUS
      <4>2. n \in 0..Len(log)
        BY <3>4 DEF SentOf
      <4>3. first \in Seq(LogEntry)
        BY <3>2, <4>1, <4>2, SubSeqsOfLog
      <4> QED BY <3>5, <4>1, <4>3, TopicType
    <3>7. PICK all : all = AppMessages(asked[s].tenant, asked[s].topic)
      OBVIOUS
    <3>8. all = OfTopic(log, tenant, topic)
      BY <3>1, <3>7 DEF AppMessages, Feed, FeedTenant
    <3>9. all = p \o w
      BY <3>4, <3>5, <3>8 DEF SentOf
    <3>10. LatestMessage(all) = {Last(w)} /\ IsPrefix(RecentMessages(w), RecentMessages(all))
      BY <3>2, <3>6, <3>9, NewestShownLast
    <3> QED BY <3>1, <3>7, <3>10
  <2> QED BY <2>2, <2>3
<1>2. Init => TypeOK /\ StreamInv
  BY InitStreams, InitType
<1>3. TypeOK /\ StreamInv /\ [Next]_vars => (TypeOK /\ StreamInv)'
  BY NextStreams, NextType
<1> QED BY <1>1, <1>2, <1>3, PTL DEF Spec
=============================================================================
