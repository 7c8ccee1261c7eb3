--------------------------- MODULE DeviceBlogProofs ---------------------------
(***************************************************************************)
(* Proofs about the two application modules that keep lists in memory, the *)
(* IoT module (DeviceCommands) and the blog (BlogPosts), for every set of  *)
(* streams, viewers, devices, authors and titles, every configuration and  *)
(* every limit: streams that show all of their commands and nothing else,  *)
(* posts that are what their authors were told, ids that are not given     *)
(* twice, and lists that are ordered.                                      *)
(***************************************************************************)
EXTENDS DeviceCommands, BlogPosts, SequenceTheorems, WellFoundedInduction, TLAPS

\* A stream with a receiver is in the list, and a subscriber in the list is
\* what its stream asked for.
SubscribersOpen ==
  /\ \A sub \in subscribers :
       /\ place[sub.stream] \in {"headers", "open", "ended"}
       /\ [device |-> sub.device, tenant |-> sub.tenant, issuer |-> sub.issuer]
            = Wanted(sub.stream)
  /\ \A s \in Streams : HasReceiver(s) => \E sub \in subscribers : sub.stream = s

\* A stream that was opened was opened by a viewer for a device he sees; one
\* that was not has been sent nothing.
StreamsOpened ==
  \A s \in Streams :
    /\ place[s] \in {"checked", "headers", "open"} =>
         /\ viewer[s] \in Viewers
         /\ \E d \in VisibleDevices(viewer[s]) : Devices[d] = device[s]
    /\ place[s] \in {"idle", "checked"} => written[s] = <<>> /\ queue[s] = <<>>

\* What a stream with the first n commands of the log behind it was sent.
SentOf(list, n, query, sent) ==
  n \in 0..Len(list) /\ sent = Selected(SubSeq(list, n + 1, Len(list)), query)

Sent(s) == SentOf(commands, since[s], Wanted(s), written[s] \o queue[s])

SentInOrder == \A s \in Streams : HasReceiver(s) /\ s \notin departed => Sent(s)

\* All that reached or may reach a client, even after he left, is for him.
Meant(s, c) ==
  /\ c \in Range(commands) /\ Satisfies(c, Wanted(s))
  /\ viewer[s] \in Viewers
  /\ \E d \in VisibleDevices(viewer[s]) : Devices[d] = device[s]

AllMeant ==
  \A s \in Streams :
    \A c \in Range(written[s]) \cup Range(queue[s]) : Meant(s, c)

IInv == TypeOK /\ SubscribersOpen /\ StreamsOpened /\ SentInOrder /\ AllMeant

----------------------------------------------------------------------------
(* Selected, which goes through a list record by record.  Kept gives what   *)
(* is kept of every beginning of the list.                                  *)
KeptStep(list, query, K, n) ==
  IF n = 0 THEN <<>>
  ELSE IF Satisfies(list[n], query) THEN Append(K[n - 1], list[n]) ELSE K[n - 1]
Kept(list, query, K, last) == K = [n \in 0..last |-> KeptStep(list, query, K, n)]

LEMMA SelectedDef ==
  ASSUME NEW list, NEW query
  PROVE  Selected(list, query) = (CHOOSE K : Kept(list, query, K, Len(list)))[Len(list)]
BY DEF Selected, Kept, KeptStep

\* Every nonempty set of numbers has a least member.
LEMMA NatMinimum ==
  ASSUME NEW S \in SUBSET Nat, S # {}
  PROVE  \E n \in S : \A m \in S : n <= m
<1> DEFINE R == OpToRel(<, Nat)
<1>1. IsWellFoundedOn(R, Nat)
  BY NatLessThanWellFounded
<1>2. PICK n \in S : \A m \in S : ~(<<m, n>> \in R)
  <2> HIDE DEF R
  <2> QED BY <1>1, WFMin
<1>3. \A m \in S : ~(m < n)
  BY <1>2 DEF OpToRel
<1> QED BY <1>3

\* A set of numbers that has 0 and the successor of each of its members has
\* every number up to any last one.
LEMMA UpTo ==
  ASSUME NEW last \in Nat, NEW S, 0 \in S,
         \A n \in 1..last : n - 1 \in S => n \in S
  PROVE  0..last \subseteq S
<1> DEFINE Bad == (0..last) \ S
<1> SUFFICES ASSUME Bad # {} PROVE FALSE
  OBVIOUS
<1>1. Bad \in SUBSET Nat
  OBVIOUS
<1>2. PICK n \in Bad : \A m \in Bad : n <= m
  <2> HIDE DEF Bad
  <2> QED BY <1>1, NatMinimum
<1>3. n \in 1..last /\ n - 1 \in 0..last /\ ~(n <= n - 1)
  BY <1>2
<1>4. n - 1 \in S
  BY <1>2, <1>3
<1> QED BY <1>2, <1>3, <1>4

\* A beginning of any length has what is kept of it.
LEMMA KeptExists ==
  ASSUME NEW list, NEW query, NEW last \in Nat
  PROVE  \E K : Kept(list, query, K, last)
<1> DEFINE S == {n \in Nat : \E K : Kept(list, query, K, n)}
<1>1. 0 \in S
  <2>1. Kept(list, query, [n \in 0..0 |-> <<>>], 0)
    BY DEF Kept, KeptStep
  <2> QED BY <2>1
<1>2. ASSUME NEW n \in 1..last, n - 1 \in S
      PROVE  n \in S
  <2>1. PICK K : Kept(list, query, K, n - 1)
    BY <1>2
  <2> DEFINE G == [i \in 0..n |-> KeptStep(list, query, K, i)]
  <2>2. \A i \in 0..(n - 1) : G[i] = K[i]
    BY <2>1 DEF Kept
  <2>3. ASSUME NEW i \in 0..n
        PROVE  KeptStep(list, query, G, i) = KeptStep(list, query, K, i)
    <3>1. i # 0 => i - 1 \in 0..(n - 1)
      OBVIOUS
    <3> HIDE DEF G
    <3> QED BY <2>2, <3>1 DEF KeptStep
  <2>4. Kept(list, query, G, n)
    BY <2>3 DEF Kept
  <2> QED BY <2>4
<1>3. 0..last \subseteq S
  <2> HIDE DEF S
  <2> QED BY <1>1, <1>2, UpTo
<1> QED BY <1>3

LEMMA KeptAt ==
  ASSUME NEW list, NEW query, NEW last \in Nat,
         NEW K, Kept(list, query, K, last), NEW n \in 0..last
  PROVE  K[n] = KeptStep(list, query, K, n)
<1> PICK G : G = K
  OBVIOUS
<1>1. K = [i \in 0..last |-> KeptStep(list, query, G, i)]
  BY DEF Kept
<1> QED BY <1>1

\* Lists that begin alike are gone through alike.
LEMMA KeptAgree ==
  ASSUME NEW list, NEW longer, NEW query, NEW last \in Nat, NEW more \in Nat,
         last <= more, \A n \in 1..last : longer[n] = list[n],
         NEW K, Kept(list, query, K, last),
         NEW G, Kept(longer, query, G, more)
  PROVE  \A n \in 0..last : G[n] = K[n]
<1> DEFINE S == {n \in 0..last : G[n] = K[n]}
<1>1. \A n \in 0..last : /\ K[n] = KeptStep(list, query, K, n)
                         /\ G[n] = KeptStep(longer, query, G, n)
  <2>1. 0..last \subseteq 0..more
    OBVIOUS
  <2> QED BY <2>1, KeptAt
<1>2. 0 \in S
  BY <1>1 DEF KeptStep
<1>3. ASSUME NEW n \in 1..last, n - 1 \in S
      PROVE  n \in S
  <2>1. longer[n] = list[n] /\ G[n - 1] = K[n - 1] /\ n # 0 /\ n \in 0..last
    BY <1>3
  <2>2. KeptStep(longer, query, G, n) = KeptStep(list, query, K, n)
    BY <2>1 DEF KeptStep
  <2> QED BY <1>1, <2>1, <2>2
<1>4. 0..last \subseteq S
  <2> HIDE DEF S
  <2> QED BY <1>2, <1>3, UpTo
<1> QED BY <1>4

LEMMA SelectedKept ==
  ASSUME NEW list, Len(list) \in Nat, NEW query
  PROVE  \E K : /\ Kept(list, query, K, Len(list))
                /\ Selected(list, query) = K[Len(list)]
<1>1. \E K : Kept(list, query, K, Len(list))
  BY KeptExists
<1> QED BY <1>1, SelectedDef

\* Where the selected records stand in the list: in the same order, and none
\* that satisfies the query is missing.
Places(list, query, sel, last, at) ==
  /\ at \in [1..Len(sel) -> 1..last]
  /\ \A i \in 1..Len(sel) : sel[i] = list[at[i]] /\ Satisfies(list[at[i]], query)
  /\ \A i, j \in 1..Len(sel) : i < j => at[i] < at[j]
  /\ \A k \in 1..last : Satisfies(list[k], query) => \E i \in 1..Len(sel) : at[i] = k

LEMMA KeptPlaces ==
  ASSUME NEW S, NEW list \in Seq(S), NEW query, NEW last \in Nat, last <= Len(list),
         NEW K, Kept(list, query, K, last)
  PROVE  \A n \in 0..last : K[n] \in Seq(S) /\ \E at : Places(list, query, K[n], n, at)
<1> DEFINE T == {n \in 0..last :
                   K[n] \in Seq(S) /\ \E at : Places(list, query, K[n], n, at)}
<1>0. \A n \in 0..last : K[n] = KeptStep(list, query, K, n)
  BY KeptAt
<1>1. 0 \in T
  <2>1. K[0] = <<>>
    BY <1>0 DEF KeptStep
  <2>2. PICK none : none = <<>> /\ none \in Seq(S) /\ Len(none) = 0
    <3>1. <<>> \in Seq(S) /\ Len(<<>>) = 0
      OBVIOUS
    <3> QED BY <3>1
  <2>3. Places(list, query, none, 0, [i \in 1..0 |-> 0])
    BY <2>2 DEF Places
  <2>4. K[0] \in Seq(S) /\ \E at : Places(list, query, K[0], 0, at)
    BY <2>1, <2>2, <2>3
  <2> QED BY <2>4
<1>2. ASSUME NEW n \in 1..last, n - 1 \in T
      PROVE  n \in T
  <2>0. n \in 0..last /\ n # 0 /\ n - 1 \in 0..last /\ n \in 1..Len(list) /\ list[n] \in S
    OBVIOUS
  <2>1. PICK old, at : /\ old = K[n - 1] /\ old \in Seq(S)
                       /\ Places(list, query, old, n - 1, at)
    BY <1>2
  <2>2. CASE ~Satisfies(list[n], query)
    <3>1. K[n] = old
      BY <1>0, <2>0, <2>1, <2>2 DEF KeptStep
    <3>2. Places(list, query, old, n, at)
      <4>1. at \in [1..Len(old) -> 1..n]
        <5>1. 1..(n - 1) \subseteq 1..n
          OBVIOUS
        <5> QED BY <2>1, <5>1 DEF Places
      <4>2. \A k \in 1..n : Satisfies(list[k], query) => k \in 1..(n - 1)
        BY <2>2
      <4> QED BY <2>1, <4>1, <4>2 DEF Places
    <3> QED BY <2>0, <2>1, <3>1, <3>2
  <2>3. CASE Satisfies(list[n], query)
    <3>1. PICK new : new = Append(old, list[n])
      OBVIOUS
    <3>2. K[n] = new
      BY <1>0, <2>0, <2>1, <2>3, <3>1 DEF KeptStep
    <3>3. PICK k \in Nat : k = Len(old)
      BY <2>1
    <3>4. /\ new \in Seq(S) /\ Len(new) = k + 1 /\ new[k + 1] = list[n]
          /\ \A i \in 1..k : new[i] = old[i]
      BY <2>0, <2>1, <3>1, <3>3, AppendProperties
    <3> DEFINE at2 == [i \in 1..(k + 1) |-> IF i = k + 1 THEN n ELSE at[i]]
    <3>5. /\ at \in [1..k -> 1..(n - 1)]
          /\ \A i \in 1..k : old[i] = list[at[i]] /\ Satisfies(list[at[i]], query)
          /\ \A i, j \in 1..k : i < j => at[i] < at[j]
          /\ \A m \in 1..(n - 1) : Satisfies(list[m], query) => \E i \in 1..k : at[i] = m
      BY <2>1, <3>3 DEF Places
    <3>6. /\ at2[k + 1] = n
          /\ \A i \in 1..k : at2[i] = at[i] /\ at2[i] \in 1..(n - 1)
          /\ \A i \in 1..(k + 1) : i # k + 1 => i \in 1..k
          /\ DOMAIN at2 = 1..(k + 1) /\ at2 \in [1..(k + 1) -> 1..n]
          /\ k + 1 \in 1..(k + 1)
      BY <3>5
    <3> HIDE DEF at2
    <3>7. \A i \in 1..(k + 1) : new[i] = list[at2[i]] /\ Satisfies(list[at2[i]], query)
      BY <2>3, <3>4, <3>5, <3>6
    <3>8. ASSUME NEW i \in 1..(k + 1), NEW j \in 1..(k + 1), i < j
          PROVE  at2[i] < at2[j]
      <4>1. i \in 1..k
        BY <3>8
      <4>2. CASE j = k + 1
        BY <3>6, <4>1, <4>2
      <4>3. CASE j # k + 1
        BY <3>5, <3>6, <3>8, <4>1, <4>3
      <4> QED BY <4>2, <4>3
    <3>9. ASSUME NEW m \in 1..n, Satisfies(list[m], query)
          PROVE  \E i \in 1..(k + 1) : at2[i] = m
      <4>1. CASE m = n
        BY <3>6, <4>1
      <4>2. CASE m # n
        <5>1. m \in 1..(n - 1)
          BY <4>2
        <5>2. PICK i \in 1..k : at[i] = m
          BY <3>5, <3>9, <5>1
        <5>3. i \in 1..(k + 1)
          OBVIOUS
        <5> QED BY <3>6, <5>2, <5>3
      <4> QED BY <4>1, <4>2
    <3>10. Places(list, query, new, n, at2)
      BY <3>4, <3>6, <3>7, <3>8, <3>9 DEF Places
    <3> QED BY <2>0, <3>2, <3>4, <3>10
  <2> QED BY <2>2, <2>3
<1>3. 0..last \subseteq T
  <2> HIDE DEF T
  <2> QED BY <1>1, <1>2, UpTo
<1> QED BY <1>3

LEMMA SelectedPlaces ==
  ASSUME NEW S, NEW list \in Seq(S), NEW query
  PROVE  /\ Selected(list, query) \in Seq(S)
         /\ \E at : Places(list, query, Selected(list, query), Len(list), at)
<1>1. Len(list) \in Nat
  OBVIOUS
<1>2. PICK K : Kept(list, query, K, Len(list)) /\ Selected(list, query) = K[Len(list)]
  BY <1>1, SelectedKept
<1>3. PICK n \in Nat : n = Len(list)
  BY <1>1
<1>4. n \in 0..n /\ n <= Len(list) /\ Kept(list, query, K, n)
  BY <1>2, <1>3
<1>5. \A m \in 0..n : K[m] \in Seq(S) /\ \E at : Places(list, query, K[m], m, at)
  BY <1>4, KeptPlaces
<1> QED BY <1>2, <1>3, <1>4, <1>5
----------------------------------------------------------------------------
(* Type correctness of DeviceCommands.                                      *)
LEMMA SeedTyped == ConfiguredCommands \in Seq(Command)
<1>1. Range(ConfiguredCommands) \subseteq Command
  BY DEF Command
<1> QED BY <1>1, DevicesAssumption

LEMMA InitType == Init => TypeOK
<1> SUFFICES ASSUME Init PROVE TypeOK
  OBVIOUS
<1>1. <<>> \in Seq(Command)
  OBVIOUS
<1>2. Len(ConfiguredCommands) \in Nat
  BY SeedTyped
<1> QED BY <1>1, <1>2, SeedTyped, DevicesAssumption DEF Init, TypeOK

LEMMA FoundType ==
  ASSUME NEW id, NEW places \in SUBSET DOMAIN Devices, NEW d \in Found(id, places)
  PROVE  /\ d \in Range(Devices) /\ d.id = id /\ d.id \in DeviceIds
         /\ \E i \in places : Devices[i] = d
BY DEF Found, Range, DeviceIds

\* A publication logs one command of its viewer for a device of his tenant.
LEMMA PublishRecordType ==
  ASSUME TypeOK, NEW v \in Viewers, NEW id \in DeviceIds, NEW topic,
         topic.tenant = v.tenant, PublishRecord(id, topic, v.uid),
         NEW c, c = [number |-> nextCommandId, device |-> id, tenant |-> topic.tenant,
                     issuer |-> v.uid]
  PROVE  /\ c \in Command /\ TypeOK'
         /\ commands' = Append(commands, c)
         /\ subscribers' = Retained(c)
         /\ queue' = [s \in Streams |->
              IF HasReceiver(s) /\ \E sub \in subscribers : sub.stream = s /\ Matches(sub, c)
              THEN Append(queue[s], c) ELSE queue[s]]
         /\ UNCHANGED <<place, viewer, device, written, since, departed>>
<1>1. c \in Command
  BY DEF Command, TypeOK
<1>2. /\ commands' = Append(commands, c)
      /\ subscribers' = Retained(c)
      /\ nextCommandId' = nextCommandId + 1
      /\ Len(commands) < MaxCommands
      /\ queue' = [s \in Streams |->
              IF HasReceiver(s) /\ \E sub \in subscribers : sub.stream = s /\ Matches(sub, c)
              THEN Append(queue[s], c) ELSE queue[s]]
      /\ UNCHANGED <<place, viewer, device, written, since, departed>>
  BY DEF PublishRecord
<1>3. commands' \in Seq(Command) /\ Len(commands') <= MaxCommands
  <2>1. Len(Append(commands, c)) = Len(commands) + 1 /\ Append(commands, c) \in Seq(Command)
        /\ Len(commands) \in Nat
    BY <1>1 DEF TypeOK
  <2> QED BY <1>2, <2>1, DevicesAssumption
<1>4. subscribers' \subseteq subscribers
  BY <1>2 DEF Retained
<1>5. queue' \in [Streams -> Seq(Command)]
  <2>1. \A s \in Streams : queue[s] \in Seq(Command) /\ Append(queue[s], c) \in Seq(Command)
    BY <1>1 DEF TypeOK
  <2> QED BY <1>2, <2>1
<1>6. nextCommandId' \in Nat
  BY <1>2 DEF TypeOK
<1> QED BY <1>1, <1>2, <1>3, <1>4, <1>5, <1>6 DEF TypeOK

\* Both routes publish for a device of the viewer's tenant.
Publishes(v, id) ==
  PostCommand(v, id) \/ \E topic \in Topics : ExecutePublish(v, id, topic)

LEMMA PublishesRecord ==
  ASSUME NEW v \in Viewers, NEW id \in DeviceIds, Publishes(v, id)
  PROVE  \E topic : topic.tenant = v.tenant /\ PublishRecord(id, topic, v.uid)
<1>1. CASE PostCommand(v, id)
  <2>1. PICK d \in Found(id, VisibleDevices(v)) :
          PublishRecord(id, [tenant |-> d.tenant, device |-> d.id], v.uid)
    BY <1>1 DEF PostCommand
  <2>2. PICK i \in VisibleDevices(v) : Devices[i] = d
    BY FoundType DEF VisibleDevices
  <2>3. d.tenant = v.tenant
    BY <2>2 DEF VisibleDevices, CanAccess
  <2> QED BY <2>1, <2>3
<1>2. CASE \E topic \in Topics : ExecutePublish(v, id, topic)
  <2>1. PICK topic \in Topics : ExecutePublish(v, id, topic)
    BY <1>2
  <2>2. PICK d \in Found(id, OwnedDevices(v)) :
          /\ topic = [tenant |-> d.tenant, device |-> d.id]
          /\ PublishRecord(id, topic, v.uid)
    BY <2>1 DEF ExecutePublish
  <2>3. PICK i \in OwnedDevices(v) : Devices[i] = d
    BY FoundType DEF OwnedDevices
  <2>4. d.tenant = v.tenant
    BY <2>3 DEF OwnedDevices, Owns
  <2> QED BY <2>2, <2>4
<1> QED BY <1>1, <1>2 DEF Publishes

LEMMA OpenStreamType ==
  ASSUME TypeOK, NEW s \in Streams, NEW v \in Viewers, NEW id \in DeviceIds
  PROVE  /\ CheckDevice(s, v, id) => TypeOK'
         /\ RefuseStream(s, v, id) => TypeOK'
<1>1. ASSUME CheckDevice(s, v, id) PROVE TypeOK'
  <2>1. PICK d \in Found(id, VisibleDevices(v)) : device' = [device EXCEPT ![s] = d]
    BY <1>1 DEF CheckDevice
  <2>2. d \in Range(Devices)
    BY FoundType DEF VisibleDevices
  <2> QED BY <1>1, <2>1, <2>2 DEF CheckDevice, TypeOK, log
<1>2. ASSUME RefuseStream(s, v, id) PROVE TypeOK'
  BY <1>2 DEF RefuseStream, TypeOK, log
<1> QED BY <1>1, <1>2

LEMMA StreamStepType ==
  ASSUME TypeOK, SubscribersOpen, StreamsOpened, NEW s \in Streams
  PROVE  StreamStep(s) \/ Depart(s) => TypeOK'
<1>1. ASSUME Subscribe(s) PROVE TypeOK'
  <2>1. viewer[s] \in Viewers /\ \E d \in VisibleDevices(viewer[s]) : Devices[d] = device[s]
    BY <1>1 DEF Subscribe, StreamsOpened
  <2>2. device[s].id \in DeviceIds /\ device[s].tenant = viewer[s].tenant
    BY <2>1 DEF VisibleDevices, CanAccess, DeviceIds
  <2>3. Len(commands) \in 0..MaxCommands
    BY DevicesAssumption DEF TypeOK
  <2>4. subscribers' \subseteq
          [stream : Streams, tenant : {w.tenant : w \in Viewers},
           issuer : {w.uid : w \in Viewers}, device : DeviceIds]
    BY <1>1, <2>1, <2>2 DEF Subscribe, TypeOK
  <2> QED BY <1>1, <2>3, <2>4 DEF Subscribe, TypeOK, log
<1>2. ASSUME WriteHeaders(s) PROVE TypeOK'
  BY <1>2 DEF WriteHeaders, TypeOK, log
<1>3. ASSUME WriteCommand(s) PROVE TypeOK'
  <2>1. \A q \in Seq(Command) : q # <<>> => Tail(q) \in Seq(Command) /\ Head(q) \in Command
    OBVIOUS
  <2>2. Tail(queue[s]) \in Seq(Command) /\ Append(written[s], Head(queue[s])) \in Seq(Command)
    BY <1>3, <2>1 DEF WriteCommand, TypeOK
  <2> QED BY <1>3, <2>2 DEF WriteCommand, TypeOK, log
<1>4. ASSUME EndStream(s) PROVE TypeOK'
  <2>1. <<>> \in Seq(Command)
    OBVIOUS
  <2> QED BY <1>4, <2>1 DEF EndStream, TypeOK, log
<1>5. ASSUME Depart(s) PROVE TypeOK'
  BY <1>5 DEF Depart, TypeOK, log, threads
<1> QED BY <1>1, <1>2, <1>3, <1>4, <1>5 DEF StreamStep
----------------------------------------------------------------------------
(* What a part of the log holds for a stream, and what one more command     *)
(* adds to it.                                                              *)
Plus(sent, c, query) == IF Satisfies(c, query) THEN Append(sent, c) ELSE sent

LEMMA SelectedEmpty ==
  ASSUME NEW query
  PROVE  Selected(<<>>, query) = <<>>
<1>1. PICK none : none = <<>> /\ none \in Seq(Command) /\ Len(none) = 0
  <2>1. <<>> \in Seq(Command) /\ Len(<<>>) = 0
    OBVIOUS
  <2> QED BY <2>1
<1>2. PICK K : Kept(none, query, K, 0) /\ Selected(none, query) = K[0]
  BY <1>1, SelectedKept
<1>3. K[0] = <<>>
  BY <1>2 DEF Kept, KeptStep
<1> QED BY <1>1, <1>2, <1>3

LEMMA SelectedOfLonger ==
  ASSUME NEW list \in Seq(Command), NEW c \in Command, NEW query
  PROVE  Selected(Append(list, c), query) = Plus(Selected(list, query), c, query)
<1> DEFINE longer == Append(list, c)
           k == Len(list)
<1>1. /\ k \in Nat /\ longer \in Seq(Command) /\ Len(longer) = k + 1 /\ longer[k + 1] = c
      /\ \A n \in 1..k : longer[n] = list[n]
  OBVIOUS
<1> HIDE DEF longer, k
<1>2. PICK K : Kept(list, query, K, k) /\ Selected(list, query) = K[k]
  BY <1>1, SelectedKept DEF k
<1>3. PICK G : Kept(longer, query, G, k + 1) /\ Selected(longer, query) = G[k + 1]
  BY <1>1, SelectedKept
<1>4. G[k] = K[k]
  <2>1. PICK k1 \in Nat : k1 = k + 1
    BY <1>1
  <2>2. k \in Nat /\ k <= k1 /\ k \in 0..k /\ \A n \in 1..k : longer[n] = list[n]
    BY <1>1, <2>1
  <2>3. Kept(list, query, K, k) /\ Kept(longer, query, G, k1)
    BY <1>2, <1>3, <2>1
  <2>4. \A n \in 0..k : G[n] = K[n]
    BY <2>2, <2>3, KeptAgree
  <2> QED BY <2>2, <2>4
<1>5. G[k + 1] = KeptStep(longer, query, G, k + 1)
  <2>1. k + 1 \in Nat /\ k + 1 \in 0..(k + 1)
    BY <1>1
  <2> QED BY <1>3, <2>1, KeptAt
<1>6. k + 1 # 0 /\ (k + 1) - 1 = k
  BY <1>1
<1> QED BY <1>1, <1>2, <1>3, <1>4, <1>5, <1>6 DEF KeptStep, longer, Plus

LEMMA RestOfLog ==
  \A list \in Seq(Command) : \A n \in 0..Len(list) :
    LET rest == SubSeq(list, n + 1, Len(list)) IN
    /\ rest \in Seq(Command) /\ Len(rest) = Len(list) - n
    /\ \A i \in 1..(Len(list) - n) : rest[i] = list[n + i]
<1> SUFFICES ASSUME NEW list \in Seq(Command), NEW n \in 0..Len(list),
                    NEW rest, rest = SubSeq(list, n + 1, Len(list))
             PROVE  /\ rest \in Seq(Command) /\ Len(rest) = Len(list) - n
                    /\ \A i \in 1..(Len(list) - n) : rest[i] = list[n + i]
  OBVIOUS
<1>1. PICK k \in Nat : k = Len(list)
  BY LenProperties
<1>2. \A i \in 1..k : list[i] \in Command
  BY <1>1, ElementOfSeq
<1>3. n + 1 \in Int /\ k \in Int /\ \A i \in (n + 1)..k : list[i] \in Command
  BY <1>1, <1>2
<1>4. /\ rest \in Seq(Command)
      /\ Len(rest) = IF n + 1 <= k THEN k - (n + 1) + 1 ELSE 0
      /\ \A i \in 1..(k - (n + 1) + 1) : rest[i] = list[(n + 1) + i - 1]
  BY <1>1, <1>3, SubSeqProperties
<1>5. n <= k /\ k - (n + 1) + 1 = k - n /\ \A i \in Nat : (n + 1) + i - 1 = n + i
  BY <1>1
<1> QED BY <1>1, <1>4, <1>5

LEMMA RestOfLonger ==
  ASSUME NEW list \in Seq(Command), NEW c \in Command, NEW n \in 0..Len(list),
         NEW longer, longer = Append(list, c)
  PROVE  /\ n \in 0..Len(longer)
         /\ SubSeq(longer, n + 1, Len(longer)) = Append(SubSeq(list, n + 1, Len(list)), c)
<1>0. PICK k : k = Len(list)
  OBVIOUS
<1>1. /\ k \in Nat /\ n \in 0..k
      /\ longer \in Seq(Command) /\ Len(longer) = k + 1
      /\ longer[k + 1] = c /\ \A i \in 1..k : longer[i] = list[i]
  BY <1>0, AppendProperties, LenProperties
<1>2. PICK rest : rest = SubSeq(list, n + 1, Len(list))
  OBVIOUS
<1>3. /\ rest \in Seq(Command) /\ Len(rest) = k - n
      /\ \A i \in 1..(k - n) : rest[i] = list[n + i]
  BY <1>0, <1>2, RestOfLog
<1>4. PICK x : x = SubSeq(longer, n + 1, Len(longer))
  OBVIOUS
<1>5. /\ x \in Seq(Command) /\ Len(x) = k + 1 - n
      /\ \A i \in 1..(k + 1 - n) : x[i] = longer[n + i]
  <2>1. PICK k1 \in Nat : k1 = Len(longer) /\ k1 = k + 1
    BY <1>1
  <2>2. k \in Nat /\ n \in 0..k
    BY <1>1
  <2>3. n \in 0..k1 /\ k1 - n = k + 1 - n
    BY <2>1, <2>2
  <2>4. longer \in Seq(Command) /\ n \in 0..Len(longer)
    BY <1>1, <2>1, <2>3
  <2>5. /\ x \in Seq(Command) /\ Len(x) = Len(longer) - n
        /\ \A i \in 1..(Len(longer) - n) : x[i] = longer[n + i]
    BY <1>4, <2>4, RestOfLog, Zenon
  <2> QED BY <2>1, <2>3, <2>5
<1>6. PICK y : y = Append(rest, c)
  OBVIOUS
<1>7. /\ y \in Seq(Command) /\ Len(y) = k - n + 1 /\ y[k - n + 1] = c
      /\ \A i \in 1..(k - n) : y[i] = rest[i]
  BY <1>3, <1>6, AppendProperties
<1>8. ASSUME NEW i \in 1..(k + 1 - n) PROVE x[i] = y[i]
  <2>1. CASE i = k + 1 - n
    <3>1. n + i = k + 1 /\ k - n + 1 = i
      BY <1>1, <2>1
    <3> QED BY <1>1, <1>5, <1>7, <3>1
  <2>2. CASE i # k + 1 - n
    <3>1. i \in 1..(k - n) /\ n + i \in 1..k
      BY <1>1, <2>2
    <3> QED BY <1>1, <1>3, <1>5, <1>7, <3>1
  <2> QED BY <2>1, <2>2
<1>9. x = y
  <2>1. Len(x) = Len(y)
    BY <1>1, <1>5, <1>7
  <2> QED BY <1>5, <1>7, <1>8, <2>1, SeqEqual
<1>10. n \in 0..Len(longer)
  BY <1>1
<1> QED BY <1>0, <1>1, <1>2, <1>4, <1>6, <1>9, <1>10

LEMMA AppendConcat ==
  \A s, t \in Seq(Command), c \in Command : Append(s \o t, c) = s \o Append(t, c)
<1> SUFFICES ASSUME NEW s \in Seq(Command), NEW t \in Seq(Command), NEW c \in Command
             PROVE  Append(s \o t, c) = s \o Append(t, c)
  OBVIOUS
<1>1. PICK st : st = s \o t
  OBVIOUS
<1>2. st \in Seq(Command)
  BY <1>1, ConcatProperties
<1>3. Append(st, c) = st \o <<c>>
  BY <1>2, AppendIsConcat
<1>4. Append(t, c) = t \o <<c>>
  BY AppendIsConcat
<1>5. PICK one : one = <<c>>
  OBVIOUS
<1>6. one \in Seq(Command)
  BY <1>5
<1>7. (s \o t) \o one = s \o (t \o one)
  BY <1>6, ConcatAssociative
<1> QED BY <1>1, <1>3, <1>4, <1>5, <1>7

\* What a stream was sent when the log receives a command.
LEMMA SentMore ==
  ASSUME NEW list \in Seq(Command), NEW c \in Command, NEW n, NEW query, NEW sent,
         SentOf(list, n, query, sent), NEW longer, longer = Append(list, c)
  PROVE  SentOf(longer, n, query, Plus(sent, c, query))
<1>1. n \in 0..Len(list)
  BY DEF SentOf
<1>2. PICK rest : rest = SubSeq(list, n + 1, Len(list))
  OBVIOUS
<1>3. rest \in Seq(Command)
  BY <1>1, <1>2, RestOfLog
<1>4. PICK more : more = SubSeq(longer, n + 1, Len(longer))
  OBVIOUS
<1>5. more = Append(rest, c) /\ n \in 0..Len(longer)
  BY <1>1, <1>2, <1>4, RestOfLonger
<1>6. sent = Selected(rest, query)
  BY <1>2 DEF SentOf
<1>7. Selected(more, query) = Plus(sent, c, query)
  BY <1>3, <1>5, <1>6, SelectedOfLonger
<1> QED BY <1>4, <1>5, <1>7 DEF SentOf

\* A stream that has just subscribed was sent nothing.
LEMMA SentNothing ==
  ASSUME NEW list \in Seq(Command), NEW query
  PROVE  SentOf(list, Len(list), query, <<>>)
<1>1. SubSeq(list, Len(list) + 1, Len(list)) = <<>> /\ Len(list) \in 0..Len(list)
  OBVIOUS
<1> QED BY <1>1, SelectedEmpty DEF SentOf

\* Writing a command moves it, and changes nothing of what was sent.
LEMMA WriteMoves ==
  ASSUME NEW w \in Seq(Command), NEW q \in Seq(Command), q # <<>>
  PROVE  /\ Append(w, Head(q)) \o Tail(q) = w \o q
         /\ Range(Append(w, Head(q))) \cup Range(Tail(q)) \subseteq Range(w) \cup Range(q)
         /\ Range(Tail(q)) \subseteq Range(q)
<1>1. Append(w, Head(q)) \o Tail(q) = w \o q
  OBVIOUS
<1>2. Head(q) = q[1] /\ 1 \in DOMAIN q
  OBVIOUS
<1>3. Range(Append(w, Head(q))) \subseteq Range(w) \cup Range(q)
  <2>1. \A i \in DOMAIN Append(w, Head(q)) :
          \/ i \in DOMAIN w /\ Append(w, Head(q))[i] = w[i]
          \/ Append(w, Head(q))[i] = Head(q)
    OBVIOUS
  <2> QED BY <1>2, <2>1 DEF Range
<1>4. Range(Tail(q)) \subseteq Range(q)
  <2>1. \A i \in DOMAIN Tail(q) : i + 1 \in DOMAIN q /\ Tail(q)[i] = q[i + 1]
    OBVIOUS
  <2> QED BY <2>1 DEF Range
<1> QED BY <1>1, <1>3, <1>4

LEMMA RangeOfLonger ==
  \A list \in Seq(Command), c \in Command :
    Range(Append(list, c)) = Range(list) \cup {c}
<1> SUFFICES ASSUME NEW list \in Seq(Command), NEW c \in Command
             PROVE  Range(Append(list, c)) = Range(list) \cup {c}
  OBVIOUS
<1>1. PICK longer : longer = Append(list, c)
  OBVIOUS
<1>2. PICK k \in Nat : k = Len(list)
  BY LenProperties
<1>3. /\ DOMAIN list = 1..k /\ DOMAIN longer = 1..(k + 1) /\ longer[k + 1] = c
      /\ \A i \in 1..k : longer[i] = list[i]
  BY <1>1, <1>2, AppendProperties, LenProperties
<1>4. 1..(k + 1) = 1..k \cup {k + 1}
  OBVIOUS
<1> QED BY <1>1, <1>3, <1>4 DEF Range
----------------------------------------------------------------------------
(* The invariant of the streams, step by step.                              *)
StreamInv == SubscribersOpen /\ StreamsOpened /\ SentInOrder /\ AllMeant

LEMMA InitStreams == Init => StreamInv
BY DEF Init, StreamInv, SubscribersOpen, StreamsOpened, SentInOrder, AllMeant, HasReceiver,
       Range

\* A subscriber matches a command that has the fields it is listed with.
LEMMA MatchesWanted ==
  ASSUME NEW c, NEW device_, NEW tenant, NEW issuer,
         NEW sub, sub.device = device_, sub.tenant = tenant, sub.issuer = issuer
  PROVE  Matches(sub, c) <=>
           Satisfies(c, [device |-> device_, tenant |-> tenant, issuer |-> issuer])
<1>1. DOMAIN [device |-> device_, tenant |-> tenant, issuer |-> issuer] =
        {"device", "tenant", "issuer"}
  OBVIOUS
<1> QED BY <1>1 DEF Matches, Satisfies

LEMMA ReceivesWanted ==
  ASSUME SubscribersOpen, NEW s \in Streams, HasReceiver(s), NEW c
  PROVE  (\E sub \in subscribers : sub.stream = s /\ Matches(sub, c))
           <=> Satisfies(c, Wanted(s))
<1>1. ASSUME NEW sub \in subscribers, sub.stream = s
      PROVE  Matches(sub, c) <=> Satisfies(c, Wanted(s))
  <2>1. [device |-> sub.device, tenant |-> sub.tenant, issuer |-> sub.issuer] = Wanted(s)
    BY <1>1 DEF SubscribersOpen
  <2>2. Matches(sub, c) <=>
          Satisfies(c, [device |-> sub.device, tenant |-> sub.tenant, issuer |-> sub.issuer])
    BY MatchesWanted
  <2> QED BY <2>1, <2>2
<1>2. \E sub \in subscribers : sub.stream = s
  BY DEF SubscribersOpen
<1> QED BY <1>1, <1>2

LEMMA PublishStreams ==
  ASSUME TypeOK, StreamInv, NEW v \in Viewers, NEW id \in DeviceIds, Publishes(v, id)
  PROVE  TypeOK' /\ StreamInv'
<1>1. PICK topic : topic.tenant = v.tenant /\ PublishRecord(id, topic, v.uid)
  BY PublishesRecord
<1>2. PICK c : c = [number |-> nextCommandId, device |-> id, tenant |-> topic.tenant,
                    issuer |-> v.uid]
  OBVIOUS
<1>3. /\ c \in Command /\ TypeOK'
      /\ commands' = Append(commands, c)
      /\ subscribers' = Retained(c)
      /\ queue' = [s \in Streams |->
           IF HasReceiver(s) /\ \E sub \in subscribers : sub.stream = s /\ Matches(sub, c)
           THEN Append(queue[s], c) ELSE queue[s]]
      /\ UNCHANGED <<place, viewer, device, written, since, departed>>
  BY <1>1, <1>2, PublishRecordType
<1>4. \A s \in Streams : /\ HasReceiver(s)' = HasReceiver(s) /\ Wanted(s)' = Wanted(s)
  BY <1>3 DEF HasReceiver, Wanted
<1>5. \A s \in Streams :
        queue'[s] = IF HasReceiver(s) THEN Plus(queue[s], c, Wanted(s)) ELSE queue[s]
  BY <1>3, ReceivesWanted DEF Plus, StreamInv
<1>6. SubscribersOpen'
  <2>1. subscribers' = {sub \in subscribers : Matches(sub, c) => HasReceiver(sub.stream)}
    BY <1>3 DEF Retained
  <2>2. \A sub \in subscribers :
          /\ place[sub.stream] \in {"headers", "open", "ended"} /\ sub.stream \in Streams
          /\ [device |-> sub.device, tenant |-> sub.tenant, issuer |-> sub.issuer]
               = Wanted(sub.stream)
    BY DEF StreamInv, SubscribersOpen, TypeOK
  <2>3. \A s \in Streams : HasReceiver(s) => \E sub \in subscribers' : sub.stream = s
    BY <2>1 DEF StreamInv, SubscribersOpen
  <2> QED BY <1>3, <1>4, <2>1, <2>2, <2>3 DEF SubscribersOpen
<1>7. StreamsOpened'
  <2>1. ASSUME NEW s \in Streams, place[s] \in {"idle", "checked"}
        PROVE  written[s] = <<>> /\ queue'[s] = <<>>
    BY <1>5, <2>1 DEF HasReceiver, StreamInv, StreamsOpened
  <2>2. VisibleDevices(v)' = VisibleDevices(v)
    OBVIOUS
  <2> QED BY <1>3, <2>1 DEF StreamInv, StreamsOpened, VisibleDevices
<1>8. SentInOrder'
  <2> SUFFICES ASSUME NEW s \in Streams, HasReceiver(s), s \notin departed
               PROVE  Sent(s)'
    BY <1>3, <1>4 DEF SentInOrder
  <2>1. PICK list, n, query, w, q :
          list = commands /\ n = since[s] /\ query = Wanted(s) /\ w = written[s] /\ q = queue[s]
    OBVIOUS
  <2>2. list \in Seq(Command) /\ w \in Seq(Command) /\ q \in Seq(Command)
    BY <2>1 DEF TypeOK
  <2>3. PICK sent, longer : sent = w \o q /\ longer = commands'
    OBVIOUS
  <2>4. SentOf(list, n, query, sent) /\ longer = Append(list, c)
    BY <1>3, <2>1, <2>3 DEF StreamInv, SentInOrder, Sent
  <2>5. SentOf(longer, n, query, Plus(sent, c, query))
    BY <1>3, <2>2, <2>4, SentMore
  <2>6. Plus(sent, c, query) = w \o Plus(q, c, query)
    <3>1. Append(sent, c) = w \o Append(q, c)
      BY <1>3, <2>2, <2>3, AppendConcat
    <3> QED BY <2>3, <3>1 DEF Plus
  <2>7. queue'[s] = Plus(q, c, query)
    BY <1>5, <2>1
  <2> QED BY <1>3, <1>4, <2>1, <2>3, <2>5, <2>6, <2>7 DEF Sent
<1>9. AllMeant'
  <2>1. Range(commands') = Range(commands) \cup {c}
    BY <1>3, RangeOfLonger DEF TypeOK
  <2> SUFFICES ASSUME NEW s \in Streams, NEW d \in Range(written[s]) \cup Range(queue'[s])
               PROVE  Meant(s, d)'
    BY <1>3 DEF AllMeant
  <2>2. CASE d \in Range(written[s]) \cup Range(queue[s])
    <3>1. Meant(s, d)
      BY <2>2 DEF StreamInv, AllMeant
    <3> QED BY <1>3, <1>4, <2>1, <3>1 DEF Meant, VisibleDevices
  <2>3. CASE d \notin Range(written[s]) \cup Range(queue[s])
    <3>1. queue'[s] = Append(queue[s], c) /\ HasReceiver(s) /\ Satisfies(c, Wanted(s))
      BY <1>5, <2>3 DEF Plus
    <3>2. d = c
      BY <1>3, <2>3, <3>1, RangeOfLonger DEF TypeOK
    <3>3. viewer[s] \in Viewers /\ \E i \in VisibleDevices(viewer[s]) : Devices[i] = device[s]
      BY <3>1 DEF HasReceiver, StreamInv, StreamsOpened
    <3> QED BY <1>3, <1>4, <2>1, <3>1, <3>2, <3>3 DEF Meant, VisibleDevices
  <2> QED BY <2>2, <2>3
<1> QED BY <1>3, <1>6, <1>7, <1>8, <1>9 DEF StreamInv

\* A stream that a step leaves alone stays as it should be.
LEMMA SentSame ==
  ASSUME NEW s \in Streams, Sent(s), commands' = commands,
         since'[s] = since[s], viewer'[s] = viewer[s], device'[s] = device[s],
         written'[s] \o queue'[s] = written[s] \o queue[s]
  PROVE  Sent(s)'
BY DEF Sent, Wanted

LEMMA MeantSame ==
  ASSUME NEW s \in Streams, commands' = commands,
         viewer'[s] = viewer[s], device'[s] = device[s]
  PROVE  \A c : Meant(s, c) => Meant(s, c)'
BY DEF Meant, Wanted, VisibleDevices

LEMMA OpenStreams ==
  ASSUME TypeOK, StreamInv, NEW s \in Streams, NEW v \in Viewers, NEW id \in DeviceIds
  PROVE  /\ CheckDevice(s, v, id) => StreamInv'
         /\ RefuseStream(s, v, id) => StreamInv'
<1>1. ASSUME CheckDevice(s, v, id) PROVE StreamInv'
  <2>1. PICK d \in Found(id, VisibleDevices(v)) : device' = [device EXCEPT ![s] = d]
    BY <1>1 DEF CheckDevice
  <2>2. /\ viewer' = [viewer EXCEPT ![s] = v] /\ place' = [place EXCEPT ![s] = "checked"]
        /\ place[s] = "idle"
        /\ UNCHANGED <<commands, subscribers, queue, written, since, departed>>
    BY <1>1 DEF CheckDevice, log
  <2>3. written[s] = <<>> /\ queue[s] = <<>>
    BY <2>2 DEF StreamInv, StreamsOpened
  <2>4. \A t \in Streams : t # s =>
          /\ viewer'[t] = viewer[t] /\ device'[t] = device[t] /\ place'[t] = place[t]
    BY <2>1, <2>2 DEF TypeOK
  <2>5. viewer'[s] = v /\ device'[s] = d /\ place'[s] = "checked"
    BY <2>1, <2>2 DEF TypeOK
  <2>6. SubscribersOpen'
    <3>1. \A sub \in subscribers : sub.stream \in Streams /\ sub.stream # s
      BY <2>2 DEF StreamInv, SubscribersOpen, TypeOK
    <3> QED BY <2>2, <2>4, <2>5, <3>1 DEF StreamInv, SubscribersOpen, Wanted, HasReceiver
  <2>7. StreamsOpened'
    <3>1. \E i \in VisibleDevices(v) : Devices[i] = d
      BY FoundType DEF VisibleDevices
    <3> QED BY <2>2, <2>3, <2>4, <2>5, <3>1 DEF StreamInv, StreamsOpened, VisibleDevices
  <2>8. SentInOrder'
    <3> SUFFICES ASSUME NEW t \in Streams, HasReceiver(t)', t \notin departed'
                 PROVE  Sent(t)'
      BY DEF SentInOrder
    <3>1. t # s /\ HasReceiver(t)
      BY <2>4, <2>5 DEF HasReceiver
    <3>2. Sent(t)
      BY <2>2, <3>1 DEF StreamInv, SentInOrder
    <3> QED BY <2>2, <2>4, <3>1, <3>2, SentSame
  <2>9. AllMeant'
    <3> SUFFICES ASSUME NEW t \in Streams, NEW c \in Range(written[t]) \cup Range(queue[t])
                 PROVE  Meant(t, c)'
      BY <2>2 DEF AllMeant
    <3>1. t # s
      BY <2>3 DEF Range
    <3>2. Meant(t, c)
      BY DEF StreamInv, AllMeant
    <3> QED BY <2>2, <2>4, <3>1, <3>2, MeantSame
  <2> QED BY <2>6, <2>7, <2>8, <2>9 DEF StreamInv
<1>2. ASSUME RefuseStream(s, v, id) PROVE StreamInv'
  <2>1. /\ place' = [place EXCEPT ![s] = "ended"] /\ place[s] = "idle"
        /\ UNCHANGED <<commands, subscribers, viewer, device, queue, written, since, departed>>
    BY <1>2 DEF RefuseStream, log
  <2>2. place'[s] = "ended" /\ \A t \in Streams : t # s => place'[t] = place[t]
    BY <2>1 DEF TypeOK
  <2>3. SubscribersOpen' /\ StreamsOpened'
    BY <2>1, <2>2 DEF StreamInv, SubscribersOpen, StreamsOpened, HasReceiver, TypeOK, Wanted,
                      VisibleDevices
  <2>4. SentInOrder'
    <3> SUFFICES ASSUME NEW t \in Streams, HasReceiver(t)', t \notin departed'
                 PROVE  Sent(t)'
      BY DEF SentInOrder
    <3>1. HasReceiver(t)
      BY <2>2 DEF HasReceiver
    <3>2. Sent(t)
      BY <2>1, <3>1 DEF StreamInv, SentInOrder
    <3> QED BY <2>1, <3>2, SentSame
  <2>5. AllMeant'
    BY <2>1, MeantSame DEF StreamInv, AllMeant
  <2> QED BY <2>3, <2>4, <2>5 DEF StreamInv
<1> QED BY <1>1, <1>2

LEMMA StepStreams ==
  ASSUME TypeOK, TypeOK', StreamInv, NEW s \in Streams
  PROVE  StreamStep(s) \/ Depart(s) => StreamInv'
<1>1. ASSUME Subscribe(s) PROVE StreamInv'
  <2>1. PICK sub : sub = [stream |-> s, tenant |-> device[s].tenant,
                          issuer |-> viewer[s].uid, device |-> device[s].id]
    OBVIOUS
  <2>2. /\ subscribers' = subscribers \cup {sub}
        /\ since' = [since EXCEPT ![s] = Len(commands)]
        /\ place' = [place EXCEPT ![s] = "headers"] /\ place[s] = "checked"
        /\ UNCHANGED <<commands, viewer, device, queue, written, departed>>
    BY <1>1, <2>1 DEF Subscribe, log
  <2>3. /\ place'[s] = "headers" /\ since'[s] = Len(commands)
        /\ \A t \in Streams : t # s => place'[t] = place[t] /\ since'[t] = since[t]
    BY <2>2 DEF TypeOK
  <2>4. SubscribersOpen'
    <3>1. /\ sub.stream = s
          /\ [device |-> sub.device, tenant |-> sub.tenant, issuer |-> sub.issuer]
               = Wanted(s)
      BY <2>1 DEF Wanted
    <3>2. \A t \in Streams : Wanted(t)' = Wanted(t)
      BY <2>2 DEF Wanted
    <3>3. \A r \in subscribers : r.stream \in Streams
      BY DEF TypeOK
    <3>4. ASSUME NEW r \in subscribers'
          PROVE  /\ place'[r.stream] \in {"headers", "open", "ended"}
                 /\ [device |-> r.device, tenant |-> r.tenant, issuer |-> r.issuer]
                      = Wanted(r.stream)'
      <4>1. CASE r = sub
        BY <2>3, <3>1, <3>2, <4>1
      <4>2. CASE r \in subscribers
        BY <2>3, <3>2, <3>3, <4>2 DEF StreamInv, SubscribersOpen
      <4> QED BY <2>2, <4>1, <4>2
    <3>5. ASSUME NEW t \in Streams, HasReceiver(t)'
          PROVE  \E r \in subscribers' : r.stream = t
      <4>1. CASE t = s
        BY <2>2, <3>1, <4>1
      <4>2. CASE t # s
        BY <2>2, <2>3, <3>5, <4>2 DEF StreamInv, SubscribersOpen, HasReceiver
      <4> QED BY <4>1, <4>2
    <3> QED BY <3>4, <3>5 DEF SubscribersOpen
  <2>5. StreamsOpened'
    BY <2>2, <2>3 DEF StreamInv, StreamsOpened, VisibleDevices
  <2>6. SentInOrder'
    <3> SUFFICES ASSUME NEW t \in Streams, HasReceiver(t)', t \notin departed'
                 PROVE  Sent(t)'
      BY DEF SentInOrder
    <3>1. CASE t = s
      <4>1. written'[s] = <<>> /\ queue'[s] = <<>>
        BY <2>2 DEF StreamInv, StreamsOpened
      <4>2. PICK list, n, query, sent :
              /\ list = commands' /\ n = since'[s] /\ query = Wanted(s)'
              /\ sent = written'[s] \o queue'[s]
        OBVIOUS
      <4>3. list \in Seq(Command) /\ n = Len(list) /\ sent = <<>>
        BY <2>2, <2>3, <4>1, <4>2 DEF TypeOK
      <4>4. SentOf(list, n, query, sent)
        BY <4>3, SentNothing
      <4> QED BY <3>1, <4>2, <4>4 DEF Sent
    <3>2. CASE t # s
      <4>1. HasReceiver(t)
        BY <2>3, <3>2 DEF HasReceiver
      <4>2. Sent(t)
        BY <2>2, <4>1 DEF StreamInv, SentInOrder
      <4> QED BY <2>2, <2>3, <3>2, <4>2, SentSame
    <3> QED BY <3>1, <3>2
  <2>7. AllMeant'
    BY <2>2, MeantSame DEF StreamInv, AllMeant
  <2> QED BY <2>4, <2>5, <2>6, <2>7 DEF StreamInv
<1>2. ASSUME WriteHeaders(s) PROVE StreamInv'
  <2>1. /\ place' = [place EXCEPT ![s] = "open"] /\ place[s] = "headers"
        /\ UNCHANGED <<commands, subscribers, viewer, device, queue, written, since, departed>>
    BY <1>2 DEF WriteHeaders, log
  <2>2. place'[s] = "open" /\ \A t \in Streams : t # s => place'[t] = place[t]
    BY <2>1 DEF TypeOK
  <2>3. SubscribersOpen' /\ StreamsOpened'
    BY <2>1, <2>2 DEF StreamInv, SubscribersOpen, StreamsOpened, HasReceiver, TypeOK, Wanted,
                      VisibleDevices
  <2>4. SentInOrder'
    <3> SUFFICES ASSUME NEW t \in Streams, HasReceiver(t)', t \notin departed'
                 PROVE  Sent(t)'
      BY DEF SentInOrder
    <3>1. HasReceiver(t)
      BY <2>1, <2>2 DEF HasReceiver
    <3>2. Sent(t)
      BY <2>1, <3>1 DEF StreamInv, SentInOrder
    <3> QED BY <2>1, <3>2, SentSame
  <2>5. AllMeant'
    BY <2>1, MeantSame DEF StreamInv, AllMeant
  <2> QED BY <2>3, <2>4, <2>5 DEF StreamInv
<1>3. ASSUME WriteCommand(s) PROVE StreamInv'
  <2>1. PICK w, q : w = written[s] /\ q = queue[s]
    OBVIOUS
  <2>2. w \in Seq(Command) /\ q \in Seq(Command) /\ q # <<>> /\ place[s] = "open"
    BY <1>3, <2>1 DEF WriteCommand, TypeOK
  <2>3. /\ queue' = [queue EXCEPT ![s] = Tail(@)]
        /\ UNCHANGED <<commands, subscribers, place, viewer, device, since, departed>>
    BY <1>3 DEF WriteCommand, log
  <2>4. written' = IF s \in departed THEN written
                   ELSE [written EXCEPT ![s] = Append(@, Head(queue[s]))]
    BY <1>3 DEF WriteCommand
  <2>5. /\ queue'[s] = Tail(q) /\ \A t \in Streams : t # s => queue'[t] = queue[t]
        /\ written'[s] = IF s \in departed THEN w ELSE Append(w, Head(q))
        /\ \A t \in Streams : t # s => written'[t] = written[t]
    BY <2>1, <2>3, <2>4 DEF TypeOK
  <2>6. SubscribersOpen' /\ StreamsOpened'
    <3>1. SubscribersOpen'
      BY <2>3 DEF StreamInv, SubscribersOpen, HasReceiver, Wanted
    <3>2. StreamsOpened'
      BY <2>2, <2>3, <2>5 DEF StreamInv, StreamsOpened, VisibleDevices
    <3> QED BY <3>1, <3>2
  <2>7. SentInOrder'
    <3> SUFFICES ASSUME NEW t \in Streams, HasReceiver(t)', t \notin departed'
                 PROVE  Sent(t)'
      BY DEF SentInOrder
    <3>1. Sent(t)
      BY <2>3 DEF StreamInv, SentInOrder, HasReceiver
    <3>2. written'[t] \o queue'[t] = written[t] \o queue[t]
      <4>1. CASE t = s
        <5>1. Append(w, Head(q)) \o Tail(q) = w \o q
          BY <2>2, WriteMoves
        <5> QED BY <2>1, <2>3, <2>5, <4>1, <5>1
      <4>2. CASE t # s
        BY <2>5, <4>2
      <4> QED BY <4>1, <4>2
    <3> QED BY <2>3, <3>1, <3>2, SentSame
  <2>8. AllMeant'
    <3> SUFFICES ASSUME NEW t \in Streams, NEW c \in Range(written'[t]) \cup Range(queue'[t])
                 PROVE  Meant(t, c)'
      BY DEF AllMeant
    <3>1. c \in Range(written[t]) \cup Range(queue[t])
      <4>1. CASE t = s
        <5>1. /\ Range(Append(w, Head(q))) \cup Range(Tail(q)) \subseteq Range(w) \cup Range(q)
              /\ Range(Tail(q)) \subseteq Range(q)
          BY <2>2, WriteMoves
        <5> QED BY <2>1, <2>5, <4>1, <5>1
      <4>2. CASE t # s
        BY <2>5, <4>2
      <4> QED BY <4>1, <4>2
    <3>2. Meant(t, c)
      BY <3>1 DEF StreamInv, AllMeant
    <3> QED BY <2>3, <3>2, MeantSame
  <2> QED BY <2>6, <2>7, <2>8 DEF StreamInv
<1>4. ASSUME EndStream(s) PROVE StreamInv'
  <2>1. /\ place' = [place EXCEPT ![s] = "ended"] /\ place[s] \in {"headers", "open"}
        /\ queue' = [queue EXCEPT ![s] = <<>>]
        /\ UNCHANGED <<commands, subscribers, viewer, device, written, since, departed>>
    BY <1>4 DEF EndStream, log
  <2>2. /\ place'[s] = "ended" /\ \A t \in Streams : t # s => place'[t] = place[t]
        /\ queue'[s] = <<>> /\ \A t \in Streams : t # s => queue'[t] = queue[t]
    BY <2>1 DEF TypeOK
  <2>3. SubscribersOpen' /\ StreamsOpened'
    <3>1. SubscribersOpen'
      BY <2>1, <2>2 DEF StreamInv, SubscribersOpen, HasReceiver, TypeOK, Wanted
    <3>2. StreamsOpened'
      BY <2>1, <2>2 DEF StreamInv, StreamsOpened, VisibleDevices
    <3> QED BY <3>1, <3>2
  <2>4. SentInOrder'
    <3> SUFFICES ASSUME NEW t \in Streams, HasReceiver(t)', t \notin departed'
                 PROVE  Sent(t)'
      BY DEF SentInOrder
    <3>1. t # s /\ HasReceiver(t)
      BY <2>2 DEF HasReceiver
    <3>2. Sent(t)
      BY <2>1, <3>1 DEF StreamInv, SentInOrder
    <3> QED BY <2>1, <2>2, <3>1, <3>2, SentSame
  <2>5. AllMeant'
    <3> SUFFICES ASSUME NEW t \in Streams, NEW c \in Range(written'[t]) \cup Range(queue'[t])
                 PROVE  Meant(t, c)'
      BY DEF AllMeant
    <3>1. c \in Range(written[t]) \cup Range(queue[t])
      <4>1. Range(<<>>) = {}
        BY DEF Range
      <4> QED BY <2>1, <2>2, <4>1
    <3>2. Meant(t, c)
      BY <3>1 DEF StreamInv, AllMeant
    <3> QED BY <2>1, <3>2, MeantSame
  <2> QED BY <2>3, <2>4, <2>5 DEF StreamInv
<1>5. ASSUME Depart(s) PROVE StreamInv'
  <2>1. /\ departed \subseteq departed'
        /\ UNCHANGED <<commands, subscribers, place, viewer, device, queue, written, since>>
    BY <1>5 DEF Depart, log, threads
  <2>2. SubscribersOpen' /\ StreamsOpened'
    BY <2>1 DEF StreamInv, SubscribersOpen, StreamsOpened, HasReceiver, Wanted, VisibleDevices
  <2>3. SentInOrder'
    <3> SUFFICES ASSUME NEW t \in Streams, HasReceiver(t)', t \notin departed'
                 PROVE  Sent(t)'
      BY DEF SentInOrder
    <3>1. Sent(t)
      BY <2>1 DEF StreamInv, SentInOrder, HasReceiver
    <3> QED BY <2>1, <3>1, SentSame
  <2>4. AllMeant'
    BY <2>1, MeantSame DEF StreamInv, AllMeant
  <2> QED BY <2>2, <2>3, <2>4 DEF StreamInv
<1> QED BY <1>1, <1>2, <1>3, <1>4, <1>5 DEF StreamStep

LEMMA IInvSplit == IInv <=> TypeOK /\ StreamInv
BY DEF IInv, StreamInv

LEMMA NextIInv == IInv /\ [Next]_vars => IInv'
<1> SUFFICES ASSUME TypeOK, StreamInv, [Next]_vars PROVE TypeOK' /\ StreamInv'
  BY DEF IInv, StreamInv
<1>1. ASSUME NEW v \in Viewers, NEW id \in DeviceIds, Publishes(v, id)
      PROVE  TypeOK' /\ StreamInv'
  BY <1>1, PublishStreams
<1>2. ASSUME NEW v \in Viewers, NEW id \in DeviceIds, NEW s \in Streams,
             CheckDevice(s, v, id) \/ RefuseStream(s, v, id)
      PROVE  TypeOK' /\ StreamInv'
  BY <1>2, OpenStreamType, OpenStreams
<1>3. ASSUME NEW s \in Streams, StreamStep(s) \/ Depart(s)
      PROVE  TypeOK' /\ StreamInv'
  <2>1. TypeOK'
    BY <1>3, StreamStepType DEF StreamInv
  <2> QED BY <1>3, <2>1, StepStreams
<1>4. CASE UNCHANGED vars
  <2>1. TypeOK'
    BY <1>4 DEF TypeOK, vars
  <2>2. UNCHANGED <<commands, subscribers, place, viewer, device, queue, written, since, departed>>
    BY <1>4 DEF vars
  <2>3. SubscribersOpen' /\ StreamsOpened'
    BY <2>2 DEF StreamInv, SubscribersOpen, StreamsOpened, HasReceiver, Wanted, VisibleDevices
  <2>4. SentInOrder' /\ AllMeant'
    BY <2>2, SentSame, MeantSame DEF StreamInv, SentInOrder, AllMeant, HasReceiver
  <2> QED BY <2>1, <2>3, <2>4 DEF StreamInv
<1>5. CASE Next
  <2>1. \/ \E v \in Viewers, id \in DeviceIds :
             \/ Publishes(v, id)
             \/ \E s \in Streams : CheckDevice(s, v, id) \/ RefuseStream(s, v, id)
        \/ \E s \in Streams : StreamStep(s) \/ Depart(s)
    BY <1>5 DEF Next, Publishes
  <2> QED BY <1>1, <1>2, <1>3, <2>1
<1> QED BY <1>4, <1>5

LEMMA AlwaysIInv == Spec => []IInv
<1>1. Init => IInv
  BY InitType, InitStreams, IInvSplit
<1> QED BY <1>1, NextIInv, PTL DEF Spec

(* DeviceCommands is type correct: logs and channels hold commands that its *)
(* viewers or its configuration issued (publish_command_record).            *)
THEOREM CommandsTyped == Spec => []TypeOK
<1>1. IInv => TypeOK
  BY DEF IInv
<1> QED BY <1>1, AlwaysIInv, PTL

(* A client that stays on the line sees every command he issued for his     *)
(* device since he subscribed, once and in order (publish_command_record,   *)
(* open_command_stream, stream_iot_subscription).                           *)
THEOREM StreamsAlwaysComplete == Spec => []StreamComplete
<1>1. IInv => StreamComplete
  BY DEF IInv, SentInOrder, Sent, SentOf, StreamComplete
<1> QED BY <1>1, AlwaysIInv, PTL

\* A list shows every command with its fields, or as many as it can.
LEMMA RecentHas ==
  ASSUME TypeOK, NEW v \in Viewers, NEW c \in Range(commands),
         c.issuer = v.uid, c.tenant = v.tenant
  PROVE  \/ c \in Range(RecentCommands(v))
         \/ Len(RecentCommands(v)) = RecentLimit
<1>1. PICK query : query = [issuer |-> v.uid, tenant |-> v.tenant]
  OBVIOUS
<1>2. Satisfies(c, query)
  <2>1. DOMAIN query = {"issuer", "tenant"} /\ query.issuer = v.uid /\ query.tenant = v.tenant
    BY <1>1
  <2> QED BY <2>1 DEF Satisfies
<1>3. PICK own : own = Selected(commands, query)
  OBVIOUS
<1>4. PICK at : own \in Seq(Command) /\ Places(commands, query, own, Len(commands), at)
  BY <1>3, SelectedPlaces DEF TypeOK
<1>5. PICK i \in 1..Len(own) : own[i] = c
  <2>1. PICK k \in 1..Len(commands) : commands[k] = c
    BY DEF Range, TypeOK
  <2> QED BY <1>2, <1>4, <2>1 DEF Places
<1>6. PICK n \in Nat : n = Len(own)
  BY <1>4
<1>7. PICK rev : rev = Reverse(own)
  OBVIOUS
<1>8. rev \in Seq(Command) /\ Len(rev) = n /\ \A j \in 1..n : rev[j] = own[(n - j) + 1]
  <2>1. \A j \in 1..n : own[(n - j) + 1] \in Command
    BY <1>4, <1>6
  <2>2. rev = [j \in 1..n |-> own[(n - j) + 1]]
    BY <1>6, <1>7 DEF Reverse
  <2> QED BY <1>6, <2>1, <2>2
<1>9. RecentCommands(v) = SubSeq(rev, 1, IF n < RecentLimit THEN n ELSE RecentLimit)
  <2>1. RecentCommands(v) = Page(rev, 0, RecentLimit)
    BY <1>1, <1>3, <1>7 DEF RecentCommands
  <2>2. 0 + 1 = 1 /\ 0 + RecentLimit = RecentLimit
    BY DevicesAssumption
  <2> QED BY <1>8, <2>1, <2>2 DEF Page
<1>10. RecentLimit \in Nat
  BY DevicesAssumption
<1>11. CASE n < RecentLimit
  <2>1. RecentCommands(v) = rev
    BY <1>8, <1>9, <1>11, SubSeqFull
  <2>2. (n - i) + 1 \in 1..n /\ (n - ((n - i) + 1)) + 1 = i
    BY <1>5, <1>6
  <2>3. rev[(n - i) + 1] = c
    BY <1>5, <1>8, <2>2
  <2> QED BY <1>8, <2>1, <2>2, <2>3 DEF Range
<1>12. CASE ~(n < RecentLimit)
  <2>1. RecentCommands(v) = SubSeq(rev, 1, RecentLimit) /\ RecentLimit <= Len(rev)
    BY <1>8, <1>9, <1>10, <1>12
  <2>2. Len(SubSeq(rev, 1, RecentLimit)) = RecentLimit
    BY <1>8, <1>10, <2>1
  <2> QED BY <2>1, <2>2
<1> QED BY <1>11, <1>12

(* A stream shows its viewer only what is his, and nothing that his list    *)
(* would keep from him (can_access_device, handle).                         *)
THEOREM StreamsAlwaysApart == Spec => []StreamsApart
<1>1. IInv => StreamsApart
  <2> SUFFICES ASSUME IInv, NEW s \in Streams, NEW i \in DOMAIN written[s],
                      NEW c, c = written[s][i]
               PROVE  /\ c.issuer = viewer[s].uid /\ c.tenant = viewer[s].tenant
                      /\ \E d \in VisibleDevices(viewer[s]) : Devices[d].id = c.device
                      /\ \/ c \in Range(RecentCommands(viewer[s]))
                         \/ Len(RecentCommands(viewer[s])) = RecentLimit
    BY DEF StreamsApart
  <2>1. c \in Range(written[s])
    BY DEF Range
  <2>2. Meant(s, c)
    BY <2>1 DEF IInv, AllMeant
  <2>3. PICK d \in VisibleDevices(viewer[s]) : Devices[d] = device[s]
    BY <2>2 DEF Meant
  <2>4. c.device = device[s].id /\ c.tenant = device[s].tenant /\ c.issuer = viewer[s].uid
    <3>1. PICK query : query = Wanted(s)
      OBVIOUS
    <3>2. /\ DOMAIN query = {"device", "tenant", "issuer"}
          /\ query.device = device[s].id /\ query.tenant = device[s].tenant
          /\ query.issuer = viewer[s].uid
      BY <3>1 DEF Wanted
    <3> QED BY <2>2, <3>1, <3>2 DEF Meant, Satisfies
  <2>5. device[s].tenant = viewer[s].tenant
    BY <2>3 DEF VisibleDevices, CanAccess
  <2>6. \/ c \in Range(RecentCommands(viewer[s]))
        \/ Len(RecentCommands(viewer[s])) = RecentLimit
    BY <2>2, <2>4, <2>5, RecentHas DEF IInv, Meant
  <2> QED BY <2>3, <2>4, <2>5, <2>6
<1> QED BY <1>1, AlwaysIInv, PTL

(* A subscriber without a receiver is dropped by the next command that      *)
(* matches it (publish_command_record).                                     *)
THEOREM EndedAlwaysDropped == Spec => EndedAreDropped
<1>1. ASSUME IInv, [Next]_vars, NEW sub \in subscribers',
             Len(commands') > Len(commands), place[sub.stream] = "ended"
      PROVE  ~Satisfies(Last(commands'), Wanted(sub.stream))
  <2>1. commands' # commands
    <3>1. Len(commands) \in Nat
      BY DEF IInv, TypeOK
    <3> QED BY <1>1, <3>1
  <2>2. PICK v \in Viewers, id \in DeviceIds : Publishes(v, id)
    BY <1>1, <2>1 DEF Next, vars, Publishes, CheckDevice, RefuseStream, StreamStep, Depart,
                      Subscribe, WriteHeaders, WriteCommand, EndStream, log
  <2>3. PICK topic : topic.tenant = v.tenant /\ PublishRecord(id, topic, v.uid)
    BY <2>2, PublishesRecord
  <2>4. PICK c : c = [number |-> nextCommandId, device |-> id, tenant |-> topic.tenant,
                      issuer |-> v.uid]
    OBVIOUS
  <2>5. c \in Command /\ commands' = Append(commands, c) /\ subscribers' = Retained(c)
    BY <1>1, <2>3, <2>4, PublishRecordType DEF IInv
  <2>6. Last(commands') = c
    <3>1. \A list \in Seq(Command) : Append(list, c)[Len(Append(list, c))] = c
      BY <2>5
    <3> QED BY <1>1, <2>5, <3>1 DEF Last, IInv, TypeOK
  <2>7. sub \in subscribers /\ (Matches(sub, c) => HasReceiver(sub.stream))
    BY <1>1, <2>5 DEF Retained
  <2>8. ~Matches(sub, c)
    BY <1>1, <2>7 DEF HasReceiver
  <2>9. [device |-> sub.device, tenant |-> sub.tenant, issuer |-> sub.issuer]
          = Wanted(sub.stream)
    BY <1>1, <2>7 DEF IInv, SubscribersOpen
  <2>10. Matches(sub, c) <=>
           Satisfies(c, [device |-> sub.device, tenant |-> sub.tenant, issuer |-> sub.issuer])
    BY MatchesWanted
  <2> QED BY <2>6, <2>8, <2>9, <2>10
<1>2. IInv /\ [Next]_vars =>
        [\A sub \in subscribers' :
           Len(commands') > Len(commands) /\ place[sub.stream] = "ended"
             => ~Satisfies(Last(commands'), Wanted(sub.stream))]_vars
  BY <1>1
<1> QED BY <1>2, AlwaysIInv, PTL DEF Spec, EndedAreDropped
----------------------------------------------------------------------------
(* The blog.  What a list of posts holds.                                   *)

\* A post with the fields of a patch is still a post, under its own id and
\* label.
FieldNames == {"id", "tenantId", "authorUid", "title", "published", "createdAt"}

LEMMA PostFields ==
  ASSUME NEW p
  PROVE  p \in Post <=>
           /\ p = [f \in FieldNames |-> p[f]]
           /\ p["id"] \in Int
           /\ p["tenantId"] \in Tenants \cup {q.tenantId : q \in Configuration}
           /\ p["authorUid"] \in Uids \cup {q.authorUid : q \in Configuration}
           /\ p["title"] \in Titles \cup {q.title : q \in Configuration}
           /\ p["published"] \in BOOLEAN
           /\ p["createdAt"] \in Nat
BY DEF Post, FieldNames

LEMMA PatchedPost ==
  ASSUME NEW p \in Post, NEW patch \in Patches
  PROVE  /\ Patched(p, patch) \in Post
         /\ Patched(p, patch).id = p.id /\ Patched(p, patch).createdAt = p.createdAt
         /\ Patched(p, patch) =
              [f \in DOMAIN p |-> IF f \in DOMAIN patch THEN patch[f] ELSE p[f]]
<1>1. /\ p = [f \in FieldNames |-> p[f]] /\ DOMAIN p = FieldNames
      /\ p["id"] \in Int
      /\ p["tenantId"] \in Tenants \cup {q.tenantId : q \in Configuration}
      /\ p["authorUid"] \in Uids \cup {q.authorUid : q \in Configuration}
      /\ p["title"] \in Titles \cup {q.title : q \in Configuration}
      /\ p["published"] \in BOOLEAN
      /\ p["createdAt"] \in Nat
  BY PostFields
<1>2. /\ DOMAIN patch \subseteq {"title", "published"}
      /\ "title" \in DOMAIN patch => patch["title"] \in Titles
      /\ "published" \in DOMAIN patch => patch["published"] \in BOOLEAN
  BY DEF Patches
<1>3. PICK new : new = Patched(p, patch)
  OBVIOUS
<1>4. new = [f \in FieldNames |-> IF f \in DOMAIN patch THEN patch[f] ELSE p[f]]
  <2>1. DOMAIN p \cup DOMAIN patch = FieldNames
    BY <1>1, <1>2 DEF FieldNames
  <2> QED BY <1>3, <2>1 DEF Patched, With
<1>5. /\ new = [f \in FieldNames |-> new[f]]
      /\ new["id"] = p["id"] /\ new["createdAt"] = p["createdAt"]
      /\ new["tenantId"] = p["tenantId"] /\ new["authorUid"] = p["authorUid"]
      /\ new["title"] \in {p["title"]} \cup Titles
      /\ new["published"] \in BOOLEAN
  BY <1>1, <1>2, <1>4 DEF FieldNames
<1>6. new \in Post
  BY <1>1, <1>5, PostFields
<1> QED BY <1>1, <1>3, <1>4, <1>5, <1>6

LEMMA NewPost ==
  ASSUME NEW document \in Documents, NEW id \in Int, NEW label \in Nat
  PROVE  /\ With([id |-> id, createdAt |-> label], document) \in Post
         /\ With([id |-> id, createdAt |-> label], document).id = id
         /\ With([id |-> id, createdAt |-> label], document).createdAt = label
<1>1. PICK rest : rest = [id |-> id, createdAt |-> label]
  OBVIOUS
<1>2. DOMAIN rest = {"id", "createdAt"} /\ rest["id"] = id /\ rest["createdAt"] = label
  BY <1>1
<1>3. /\ DOMAIN document = {"tenantId", "authorUid", "title", "published"}
      /\ document["tenantId"] \in Tenants /\ document["authorUid"] \in Uids
      /\ document["title"] \in Titles /\ document["published"] \in BOOLEAN
  BY DEF Documents
<1>4. PICK new : new = With(rest, document)
  OBVIOUS
<1>5. new = [f \in FieldNames |-> IF f \in DOMAIN document THEN document[f] ELSE rest[f]]
  <2>1. DOMAIN rest \cup DOMAIN document = FieldNames
    BY <1>2, <1>3 DEF FieldNames
  <2> QED BY <1>4, <2>1 DEF With
<1>6. /\ new = [f \in FieldNames |-> new[f]]
      /\ new["id"] = id /\ new["createdAt"] = label
      /\ new["tenantId"] = document["tenantId"] /\ new["authorUid"] = document["authorUid"]
      /\ new["title"] = document["title"] /\ new["published"] = document["published"]
  BY <1>2, <1>3, <1>5 DEF FieldNames
<1>7. new \in Post
  BY <1>3, <1>6, PostFields
<1> QED BY <1>1, <1>4, <1>6, <1>7

\* A list with one more post at its front, with one patched, with one removed.
LEMMA PutFirst ==
  \A list \in Seq(Post), p \in Post :
    /\ <<p>> \o list \in Seq(Post) /\ Len(<<p>> \o list) = Len(list) + 1
    /\ (<<p>> \o list)[1] = p
    /\ \A i \in 2..(Len(list) + 1) : (<<p>> \o list)[i] = list[i - 1]
<1> SUFFICES ASSUME NEW list \in Seq(Post), NEW p \in Post,
                    NEW one, one = <<p>>
             PROVE  /\ one \o list \in Seq(Post) /\ Len(one \o list) = Len(list) + 1
                    /\ (one \o list)[1] = p
                    /\ \A i \in 2..(Len(list) + 1) : (one \o list)[i] = list[i - 1]
  OBVIOUS
<1>1. one \in Seq(Post) /\ Len(one) = 1 /\ one[1] = p
  OBVIOUS
<1>2. PICK k \in Nat : k = Len(list)
  BY LenProperties
<1>3. /\ one \o list \in Seq(Post) /\ Len(one \o list) = 1 + k
      /\ \A i \in 1..(1 + k) : (one \o list)[i] = IF i <= 1 THEN one[i] ELSE list[i - 1]
  BY <1>1, <1>2, ConcatProperties
<1>4. 1 \in 1..(1 + k) /\ \A i \in 2..(k + 1) : i \in 1..(1 + k) /\ ~(i <= 1)
  OBVIOUS
<1> QED BY <1>1, <1>2, <1>3, <1>4

LEMMA PatchOne ==
  \A list \in Seq(Post), p \in Post : \A k \in 1..Len(list) :
    /\ [list EXCEPT ![k] = p] \in Seq(Post)
    /\ Len([list EXCEPT ![k] = p]) = Len(list)
    /\ \A i \in 1..Len(list) : [list EXCEPT ![k] = p][i] = IF i = k THEN p ELSE list[i]
OBVIOUS

LEMMA TakeOut ==
  \A list \in Seq(Post) : \A k \in 1..Len(list) :
    /\ RemoveAt(list, k) \in Seq(Post) /\ Len(RemoveAt(list, k)) = Len(list) - 1
    /\ \A i \in 1..(Len(list) - 1) :
         RemoveAt(list, k)[i] = IF i < k THEN list[i] ELSE list[i + 1]
<1> SUFFICES ASSUME NEW list \in Seq(Post), NEW k \in 1..Len(list)
             PROVE  /\ RemoveAt(list, k) \in Seq(Post)
                    /\ Len(RemoveAt(list, k)) = Len(list) - 1
                    /\ \A i \in 1..(Len(list) - 1) :
                         RemoveAt(list, k)[i] = IF i < k THEN list[i] ELSE list[i + 1]
  OBVIOUS
<1>1. PICK n \in Nat : n = Len(list)
  BY LenProperties
<1>2. \A i \in 1..n : list[i] \in Post
  BY <1>1, ElementOfSeq
<1>3. PICK a, b : a = SubSeq(list, 1, k - 1) /\ b = SubSeq(list, k + 1, n)
  OBVIOUS
<1>4. a \in Seq(Post) /\ Len(a) = k - 1 /\ \A i \in 1..(k - 1) : a[i] = list[i]
  <2>1. 1 \in Int /\ k - 1 \in Int /\ \A i \in 1..(k - 1) : list[i] \in Post
    BY <1>1, <1>2
  <2>2. /\ a \in Seq(Post) /\ Len(a) = IF 1 <= k - 1 THEN (k - 1) - 1 + 1 ELSE 0
        /\ \A i \in 1..((k - 1) - 1 + 1) : a[i] = list[1 + i - 1]
    BY <1>3, <2>1, SubSeqProperties
  <2> QED BY <1>1, <2>2
<1>5. b \in Seq(Post) /\ Len(b) = n - k /\ \A i \in 1..(n - k) : b[i] = list[k + i]
  <2>1. k + 1 \in Int /\ n \in Int /\ \A i \in (k + 1)..n : list[i] \in Post
    BY <1>1, <1>2
  <2>2. /\ b \in Seq(Post) /\ Len(b) = IF k + 1 <= n THEN n - (k + 1) + 1 ELSE 0
        /\ \A i \in 1..(n - (k + 1) + 1) : b[i] = list[(k + 1) + i - 1]
    BY <1>3, <2>1, SubSeqProperties
  <2>3. /\ n - (k + 1) + 1 = n - k /\ (k + 1 <= n <=> ~(n - k = 0))
        /\ \A i \in 1..(n - k) : (k + 1) + i - 1 = k + i
    BY <1>1
  <2> QED BY <1>1, <2>2, <2>3
<1>6. PICK ab : ab = a \o b
  OBVIOUS
<1>7. /\ ab \in Seq(Post) /\ Len(ab) = Len(a) + Len(b)
      /\ \A i \in 1..(Len(a) + Len(b)) :
           ab[i] = IF i <= Len(a) THEN a[i] ELSE b[i - Len(a)]
  BY <1>4, <1>5, <1>6, ConcatProperties
<1>8. ASSUME NEW i \in 1..(n - 1)
      PROVE  ab[i] = IF i < k THEN list[i] ELSE list[i + 1]
  <2>1. i \in 1..(Len(a) + Len(b))
    BY <1>1, <1>4, <1>5
  <2>2. CASE i < k
    <3>1. i <= Len(a) /\ i \in 1..(k - 1)
      BY <1>1, <1>4, <2>2
    <3> QED BY <1>4, <1>7, <2>1, <2>2, <3>1
  <2>3. CASE ~(i < k)
    <3>1. ~(i <= Len(a)) /\ i - (k - 1) \in 1..(n - k) /\ k + (i - (k - 1)) = i + 1
      BY <1>1, <1>4, <2>3
    <3> QED BY <1>4, <1>5, <1>7, <2>1, <2>3, <3>1
  <2> QED BY <2>2, <2>3
<1>9. RemoveAt(list, k) = ab
  BY <1>1, <1>3, <1>6 DEF RemoveAt
<1>10. Len(ab) = n - 1
  BY <1>1, <1>4, <1>5, <1>7
<1> QED BY <1>1, <1>7, <1>8, <1>9, <1>10
----------------------------------------------------------------------------
(* The invariant of the blog.                                               *)
\* A post stands behind those that were inserted after it.
Behind(p, q) ==
  /\ Unclashed(p.id) => p.id # q.id
  /\ p.id \notin ConfiguredIds /\ q.id \notin ConfiguredIds => p.id < q.id

GivenIds ==
  /\ nextPostId > Len(ConfiguredPosts)
  /\ DOMAIN accepted = ConfiguredIds \cup (Len(ConfiguredPosts) + 1)..(nextPostId - 1)

AsTold(told, p) == p.id \in DOMAIN told /\ (Unclashed(p.id) => p = told[p.id])

PostsKept == \A i \in DOMAIN posts : AsTold(accepted, posts[i])
PostsInOrder == \A i, j \in DOMAIN posts : i < j => Behind(posts[j], posts[i])

BlogInv == BlogTypeOK /\ GivenIds /\ PostsKept /\ PostsInOrder

\* A configured id that clashes with none is below those of run time and names
\* one configured post.
LEMMA UnclashedConfigured ==
  /\ \A id \in ConfiguredIds : id \in Int /\ (Unclashed(id) => id <= Len(ConfiguredPosts))
  /\ \A p, q \in Configuration : p.id = q.id /\ Unclashed(p.id) => p = q
<1>1. /\ \A id \in ConfiguredIds : \E i \in DOMAIN ConfiguredPosts : ConfiguredPosts[i].id = id
      /\ \A p \in Configuration : \E i \in DOMAIN ConfiguredPosts : ConfiguredPosts[i] = p
  BY DEF ConfiguredIds, Configuration, Range
<1>2. \A i \in DOMAIN ConfiguredPosts : ConfiguredPosts[i].id \in Int
  <2>1. \A i \in DOMAIN ConfiguredPosts : ConfiguredPosts[i] \in Post
    BY BlogAssumption
  <2>2. \A p \in Post : p.id \in Int
    BY DEF Post
  <2> QED BY <2>1, <2>2
<1> QED BY <1>1, <1>2 DEF Unclashed

LEMMA BlogInitInv == BlogInit => BlogInv
<1> SUFFICES ASSUME BlogInit PROVE BlogInv
  OBVIOUS
<1>1. PICK k \in Nat : k = Len(ConfiguredPosts) /\ DOMAIN ConfiguredPosts = 1..k
  BY BlogAssumption, LenProperties
<1>2. \A i \in 1..k : /\ ConfiguredPosts[i] \in Post /\ ConfiguredPosts[i] \in Configuration
                      /\ ConfiguredPosts[i].id \in ConfiguredIds
  BY <1>1, BlogAssumption DEF Configuration, ConfiguredIds, Range
<1>3. /\ posts = ConfiguredPosts /\ nextPostId = k + 1 /\ answer = 200
      /\ DOMAIN accepted = ConfiguredIds
      /\ \A id \in ConfiguredIds : accepted[id] \in Configuration /\ accepted[id].id = id
  <2>1. \A id \in ConfiguredIds : \E p \in Configuration : p.id = id
    BY DEF ConfiguredIds
  <2>2. accepted = [id \in ConfiguredIds |-> CHOOSE p \in Configuration : p.id = id]
    BY DEF BlogInit
  <2>3. ASSUME NEW id \in ConfiguredIds
        PROVE  accepted[id] \in Configuration /\ accepted[id].id = id
    <3>1. PICK q : q = CHOOSE p \in Configuration : p.id = id
      OBVIOUS
    <3>2. q \in Configuration /\ q.id = id
      BY <2>1, <3>1
    <3>3. accepted[id] = q
      BY <2>2, <3>1
    <3> QED BY <3>2, <3>3
  <2>4. DOMAIN accepted = ConfiguredIds
    BY <2>2
  <2> QED BY <1>1, <2>3, <2>4 DEF BlogInit
<1>4. \A p \in Configuration : p \in Post
  BY <1>1, BlogAssumption DEF Configuration, Range
<1>5. BlogTypeOK
  <2>1. \A id \in DOMAIN accepted : accepted[id] \in Post \cup {Deleted}
    BY <1>3, <1>4
  <2> QED BY <1>1, <1>3, <2>1, BlogAssumption DEF BlogTypeOK
<1>6. GivenIds
  BY <1>1, <1>3 DEF GivenIds
<1>7. PostsKept
  BY <1>1, <1>2, <1>3, UnclashedConfigured DEF PostsKept, AsTold
<1>8. PostsInOrder
  <2>1. \A i, j \in 1..k : i < j /\ Unclashed(ConfiguredPosts[j].id) =>
          ConfiguredPosts[j].id # ConfiguredPosts[i].id
    BY <1>1 DEF Unclashed
  <2> QED BY <1>1, <1>2, <1>3, <2>1 DEF PostsInOrder, Behind
<1> QED BY <1>5, <1>6, <1>7, <1>8 DEF BlogInv

LEMMA ReadInv ==
  ASSUME BlogInv, answer' \in {200, 400, 401, 403, 404, 500},
         UNCHANGED <<posts, nextPostId, accepted>>
  PROVE  BlogInv'
BY DEF BlogInv, BlogTypeOK, GivenIds, PostsKept, PostsInOrder, AsTold, Behind

\* What the steps that write the list do to it.
Inserts(p) ==
  /\ p \in Post /\ p.id = nextPostId
  /\ posts' = <<p>> \o posts
  /\ nextPostId' = nextPostId + 1
  /\ answer' = 200
  /\ accepted' = [i \in DOMAIN accepted \cup {p.id} |-> IF i = p.id THEN p ELSE accepted[i]]

Updates(k, p) ==
  /\ k \in DOMAIN posts /\ p \in Post
  /\ p.id = posts[k].id
  /\ posts' = [posts EXCEPT ![k] = p]
  /\ DOMAIN accepted' = DOMAIN accepted
  /\ \A i \in DOMAIN accepted : i # p.id => accepted'[i] = accepted[i]
  /\ accepted'[p.id] \in Post \cup {Deleted}
  /\ accepted[p.id] = posts[k] => accepted'[p.id] = p
  /\ answer' = 200
  /\ UNCHANGED nextPostId

Deletes(k) ==
  /\ k \in DOMAIN posts
  /\ posts' = RemoveAt(posts, k)
  /\ accepted' = [accepted EXCEPT ![posts[k].id] = Deleted]
  /\ answer' = 200
  /\ UNCHANGED nextPostId

Reads == answer' \in {200, 400, 401, 403, 404, 500} /\ UNCHANGED <<posts, nextPostId, accepted>>

LEMMA InsertPostInserts ==
  ASSUME BlogInv, NEW document \in Documents, InsertPost(document)
  PROVE  \E p : Inserts(p)
<1>1. PICK label \in 0..MaxLabel :
        LET post == With([id |-> NextId, createdAt |-> label], document) IN
        /\ posts' = <<post>> \o posts
        /\ nextPostId' = nextPostId + 1
        /\ answer' = 200
        /\ accepted' = [i \in DOMAIN accepted \cup {post.id} |->
                          IF i = post.id THEN post ELSE accepted[i]]
  BY DEF InsertPost
<1>2. PICK p : p = With([id |-> NextId, createdAt |-> label], document)
  OBVIOUS
<1>3. nextPostId \in Int /\ label \in Nat
  BY BlogAssumption DEF BlogInv, BlogTypeOK
<1>4. p \in Post /\ p.id = nextPostId /\ p.createdAt = label
  BY <1>2, <1>3, NewPost DEF NextId
<1>5. Inserts(p)
  BY <1>1, <1>2, <1>3, <1>4 DEF Inserts
<1> QED BY <1>5

LEMMA FirstIndexHas ==
  ASSUME NEW id, NEW k \in FirstIndex([id |-> id])
  PROVE  k \in DOMAIN posts /\ posts[k].id = id
<1>1. DOMAIN [id |-> id] = {"id"}
  OBVIOUS
<1> QED BY <1>1 DEF FirstIndex, Satisfies

LEMMA UpdatePostUpdates ==
  ASSUME BlogInv, NEW id, NEW author, NEW patch \in Patches, UpdatePost(id, author, patch)
  PROVE  Reads \/ \E k, p : Updates(k, p)
<1>1. CASE Refuse(404) \/ Refuse(403)
  BY <1>1 DEF Refuse, Reads
<1>2. CASE \E k \in FirstIndex([id |-> id]) :
             /\ posts' = [posts EXCEPT ![k] = Patched(posts[k], patch)]
             /\ answer' = 200
             /\ accepted' = [accepted EXCEPT ![id] =
                  [f \in DOMAIN @ |-> IF f \in DOMAIN patch THEN patch[f] ELSE @[f]]]
             /\ UNCHANGED nextPostId
  <2>1. PICK k \in FirstIndex([id |-> id]) :
          /\ posts' = [posts EXCEPT ![k] = Patched(posts[k], patch)]
          /\ answer' = 200
          /\ accepted' = [accepted EXCEPT ![id] =
               [f \in DOMAIN accepted[id] |->
                  IF f \in DOMAIN patch THEN patch[f] ELSE accepted[id][f]]]
          /\ UNCHANGED nextPostId
    BY <1>2
  <2>2. k \in DOMAIN posts /\ posts[k].id = id
    BY FirstIndexHas
  <2>3. posts[k] \in Post /\ id \in DOMAIN accepted /\ accepted[id] \in Post \cup {Deleted}
    BY <2>2 DEF BlogInv, BlogTypeOK, PostsKept, AsTold
  <2>4. PICK p : p = Patched(posts[k], patch)
    OBVIOUS
  <2>5. /\ p \in Post /\ p.id = id
        /\ p = [f \in DOMAIN posts[k] |->
                  IF f \in DOMAIN patch THEN patch[f] ELSE posts[k][f]]
    BY <2>2, <2>3, <2>4, PatchedPost
  <2>6. PICK told : told = [f \in DOMAIN accepted[id] |->
                              IF f \in DOMAIN patch THEN patch[f] ELSE accepted[id][f]]
    OBVIOUS
  <2>7. told \in Post \cup {Deleted}
    <3>1. CASE accepted[id] \in Post
      BY <2>6, <3>1, PatchedPost
    <3>2. CASE accepted[id] = Deleted
      <4>1. DOMAIN accepted[id] = {"deleted"} /\ "deleted" \notin DOMAIN patch
        BY <3>2 DEF Deleted, Patches
      <4>2. told = [f \in {"deleted"} |-> accepted[id][f]]
        BY <2>6, <4>1
      <4>3. told = Deleted
        BY <3>2, <4>2 DEF Deleted
      <4> QED BY <4>3
    <3> QED BY <2>3, <3>1, <3>2
  <2>8. accepted[id] = posts[k] => told = p
    BY <2>5, <2>6
  <2>9. accepted' = [accepted EXCEPT ![id] = told]
    BY <2>1, <2>6
  <2>10. /\ DOMAIN accepted' = DOMAIN accepted /\ accepted'[id] = told
         /\ \A i \in DOMAIN accepted : i # id => accepted'[i] = accepted[i]
    BY <2>3, <2>9
  <2>11. Updates(k, p)
    BY <2>1, <2>2, <2>4, <2>5, <2>7, <2>8, <2>10 DEF Updates
  <2> QED BY <2>11
<1> QED BY <1>1, <1>2 DEF UpdatePost

LEMMA DeletePostDeletes ==
  ASSUME NEW id, NEW author, DeletePost(id, author)
  PROVE  Reads \/ \E k : Deletes(k)
<1>1. CASE Refuse(404) \/ Refuse(403)
  BY <1>1 DEF Refuse, Reads
<1>2. CASE \E k \in FirstIndex([id |-> id]) :
             /\ posts' = RemoveAt(posts, k)
             /\ accepted' = [accepted EXCEPT ![id] = Deleted]
             /\ answer' = 200
             /\ UNCHANGED nextPostId
  <2>1. PICK k \in FirstIndex([id |-> id]) :
             /\ posts' = RemoveAt(posts, k)
             /\ accepted' = [accepted EXCEPT ![id] = Deleted]
             /\ answer' = 200
             /\ UNCHANGED nextPostId
    BY <1>2
  <2>2. k \in DOMAIN posts /\ posts[k].id = id
    BY FirstIndexHas
  <2>3. Deletes(k)
    BY <2>1, <2>2 DEF Deletes
  <2> QED BY <2>3
<1> QED BY <1>1, <1>2 DEF DeletePost

\* Every call reads the list, or writes it in one of the three ways.
LEMMA BlogSteps ==
  ASSUME BlogInv, BlogNext
  PROVE  Reads \/ (\E p : Inserts(p)) \/ (\E k, p : Updates(k, p)) \/ (\E k : Deletes(k))
<1>1. \/ \E d \in Documents : InsertPost(d)
      \/ \E id, u : \E patch \in Patches : UpdatePost(id, u, patch)
      \/ \E id, u : DeletePost(id, u)
      \/ Reads
  <2>1. CASE AppCall
    <3>2. \A c, t : PublishedPosts(c, t) => Reads
      BY DEF PublishedPosts, Listing, FindPosts, Show, Refuse, Reads
    <3>3. \A c, t, s : PostBySlug(c, t, s) => Reads
      BY DEF PostBySlug, Listing, FindOnePost, Show, Refuse, Reads
    <3>4. \A u : PostsForAuthor(u) => Reads
      BY DEF PostsForAuthor, FindPosts, Show, Reads
    <3>5. ASSUME NEW u \in Uids, NEW s \in Titles, NEW p \in BOOLEAN,
                 CreatePostForAuthor(u, s, p)
          PROVE  \E d \in Documents : InsertPost(d)
      <4>1. [tenantId |-> TenantOf[u], authorUid |-> u, title |-> s, published |-> p]
              \in Documents
        BY DEF Documents, Tenants
      <4> QED BY <3>5, <4>1 DEF CreatePostForAuthor
    <3>6. RefuseRoute => Reads
      BY DEF RefuseRoute, Refuse, Reads
    <3> QED BY <2>1, <3>2, <3>3, <3>4, <3>5, <3>6
            DEF AppCall, UpdatePostForAuthor, DeletePostForAuthor
  <2>2. CASE ExecuteCall
    <3>1. \A q, n, k : ExecuteFind(q, n, k) => Reads
      BY DEF ExecuteFind, FindPosts, Show, Reads
    <3>2. \A q : ExecuteFindOne(q) => Reads
      BY DEF ExecuteFindOne, FindOnePost, Show, Refuse, Reads
    <3>3. RefuseExecute => Reads
      BY DEF RefuseExecute, Refuse, Reads
    <3> QED BY <2>2, <3>1, <3>2, <3>3
            DEF ExecuteCall, ExecuteInsertOne, ExecuteDeleteOne, ExecuteUpdateOne
  <2> QED BY <2>1, <2>2 DEF BlogNext
<1> QED BY <1>1, InsertPostInserts, UpdatePostUpdates, DeletePostDeletes

LEMMA InsertsInv ==
  ASSUME BlogInv, NEW p, Inserts(p)
  PROVE  /\ BlogInv'
         /\ \A q \in Range(posts') :
              q.id \in DOMAIN accepted /\ Unclashed(q.id) =>
                q.id \in {r.id : r \in Stored}
<1>1. PICK n \in Nat : n = Len(posts)
  BY LenProperties DEF BlogInv, BlogTypeOK
<1>2. /\ posts' \in Seq(Post) /\ DOMAIN posts' = 1..(n + 1) /\ posts'[1] = p
      /\ \A i \in 2..(n + 1) : posts'[i] = posts[i - 1] /\ i - 1 \in DOMAIN posts
  <2>1. posts \in Seq(Post) /\ p \in Post /\ DOMAIN posts = 1..n
    BY <1>1, LenProperties DEF BlogInv, BlogTypeOK, Inserts
  <2>2. posts' = <<p>> \o posts
    BY DEF Inserts
  <2> QED BY <1>1, <2>1, <2>2, PutFirst, LenProperties
<1>3. PICK k \in Nat : k = Len(ConfiguredPosts) /\ DOMAIN ConfiguredPosts = 1..k
  BY BlogAssumption, LenProperties
<1>4. /\ nextPostId \in Nat /\ nextPostId > k
      /\ DOMAIN accepted = ConfiguredIds \cup (k + 1)..(nextPostId - 1)
      /\ p.id = nextPostId /\ nextPostId' = nextPostId + 1 /\ p \in Post
  BY <1>3 DEF BlogInv, BlogTypeOK, GivenIds, Inserts
\* An id that is told is below the new one, or it clashes.
<1>12. /\ \A id \in DOMAIN accepted : id \in Int /\ (Unclashed(id) => id < p.id)
       /\ \A id \in DOMAIN accepted : id \notin ConfiguredIds => id < p.id
  BY <1>3, <1>4, UnclashedConfigured
<1>5. /\ DOMAIN accepted' = DOMAIN accepted \cup {p.id} /\ accepted'[p.id] = p
      /\ \A i \in DOMAIN accepted : i # p.id => accepted'[i] = accepted[i]
  BY DEF Inserts
<1>6. GivenIds'
  <2>1. DOMAIN accepted' = ConfiguredIds \cup (k + 1)..(nextPostId' - 1)
    BY <1>4, <1>5
  <2> QED BY <1>3, <1>4, <2>1 DEF GivenIds
<1>7. BlogTypeOK'
  <2>1. answer' = 200
    BY DEF Inserts
  <2>2. \A i \in DOMAIN accepted' : accepted'[i] \in Post \cup {Deleted}
    <3>1. \A i \in DOMAIN accepted' : i = p.id \/ (i # p.id /\ i \in DOMAIN accepted)
      BY <1>5
    <3> QED BY <1>4, <1>5, <3>1 DEF BlogInv, BlogTypeOK
  <2> QED BY <1>2, <1>4, <2>1, <2>2 DEF BlogTypeOK
<1>8. ASSUME NEW i \in DOMAIN posts' PROVE AsTold(accepted', posts'[i])
  <2>1. CASE i = 1
    BY <1>2, <1>5, <2>1 DEF AsTold
  <2>2. CASE i # 1
    <3>1. PICK q : q = posts'[i]
      OBVIOUS
    <3>2. AsTold(accepted, q)
      BY <1>2, <2>2, <3>1 DEF BlogInv, PostsKept
    <3>3. q.id \in DOMAIN accepted' /\ (Unclashed(q.id) => q = accepted'[q.id])
      BY <1>4, <1>5, <1>12, <3>2 DEF AsTold
    <3> QED BY <3>1, <3>3 DEF AsTold
  <2> QED BY <2>1, <2>2
<1>9. PostsKept'
  BY <1>8 DEF PostsKept
<1>10. PostsInOrder'
  <2> SUFFICES ASSUME NEW i \in DOMAIN posts', NEW j \in DOMAIN posts', i < j
               PROVE  Behind(posts'[j], posts'[i])
    BY DEF PostsInOrder, Behind
  <2>1. j - 1 \in DOMAIN posts /\ posts'[j] = posts[j - 1]
    BY <1>2
  <2>2. CASE i = 1
    <3>1. PICK q : q = posts'[j]
      OBVIOUS
    <3>2. q.id \in DOMAIN accepted
      BY <2>1, <3>1 DEF BlogInv, PostsKept, AsTold
    <3>3. Behind(q, p)
      BY <1>4, <1>12, <3>2 DEF Behind
    <3> QED BY <1>2, <2>2, <3>1, <3>3
  <2>3. CASE i # 1
    <3>1. i - 1 \in DOMAIN posts /\ posts'[i] = posts[i - 1] /\ i - 1 < j - 1
      BY <1>2, <2>3
    <3> QED BY <2>1, <3>1 DEF BlogInv, PostsInOrder
  <2> QED BY <2>2, <2>3
<1>11. ASSUME NEW q \in Range(posts'), q.id \in DOMAIN accepted, Unclashed(q.id)
       PROVE  q.id \in {r.id : r \in Stored}
  <2>1. PICK i \in DOMAIN posts' : posts'[i] = q
    BY DEF Range
  <2>2. q.id < p.id /\ q.id \in Int /\ p.id \in Int
    BY <1>4, <1>11, <1>12
  <2>3. i # 1
    BY <1>2, <2>1, <2>2
  <2> QED BY <1>2, <2>1, <2>3 DEF Stored, Range
<1> QED BY <1>6, <1>7, <1>9, <1>10, <1>11 DEF BlogInv

\* No other post has an id that does not clash.
LEMMA OwnIds ==
  ASSUME BlogInv
  PROVE  \A i, j \in DOMAIN posts :
           i # j /\ Unclashed(posts[i].id) => posts[i].id # posts[j].id
<1>1. DOMAIN posts \subseteq Nat
  BY LenProperties DEF BlogInv, BlogTypeOK
<1>2. \A i, j \in DOMAIN posts : i # j => i < j \/ j < i
  BY <1>1
<1> QED BY <1>2 DEF BlogInv, PostsInOrder, Behind

LEMMA UpdatesInv ==
  ASSUME BlogInv, NEW k, NEW p, Updates(k, p)
  PROVE  /\ BlogInv'
         /\ \A q \in Range(posts') :
              q.id \in DOMAIN accepted /\ Unclashed(q.id) =>
                q.id \in {r.id : r \in Stored}
<1>1. PICK n \in Nat : n = Len(posts) /\ DOMAIN posts = 1..n
  BY LenProperties DEF BlogInv, BlogTypeOK
<1>2. /\ k \in 1..n /\ p \in Post /\ p.id = posts[k].id /\ posts \in Seq(Post)
      /\ posts' = [posts EXCEPT ![k] = p] /\ answer' = 200 /\ nextPostId' = nextPostId
  BY <1>1 DEF Updates, BlogInv, BlogTypeOK
<1>3. /\ posts' \in Seq(Post) /\ DOMAIN posts' = 1..n
      /\ \A i \in 1..n : posts'[i] = IF i = k THEN p ELSE posts[i]
  BY <1>1, <1>2, PatchOne, LenProperties
<1>4. \A i \in 1..n : posts'[i].id = posts[i].id
  BY <1>2, <1>3
<1>5. /\ DOMAIN accepted' = DOMAIN accepted /\ p.id \in DOMAIN accepted
      /\ accepted'[p.id] \in Post \cup {Deleted} /\ (Unclashed(p.id) => accepted'[p.id] = p)
      /\ \A i \in DOMAIN accepted : i # p.id => accepted'[i] = accepted[i]
  <2>1. p.id \in DOMAIN accepted /\ (Unclashed(p.id) => accepted[p.id] = posts[k])
    BY <1>1, <1>2 DEF BlogInv, PostsKept, AsTold
  <2> QED BY <2>1 DEF Updates
<1>6. GivenIds'
  BY <1>2, <1>5 DEF BlogInv, GivenIds
<1>7. BlogTypeOK'
  <2>1. \A i \in DOMAIN accepted' : accepted'[i] \in Post \cup {Deleted}
    BY <1>5 DEF BlogInv, BlogTypeOK
  <2> QED BY <1>2, <1>3, <2>1 DEF BlogInv, BlogTypeOK
<1>8. ASSUME NEW i \in 1..n PROVE AsTold(accepted', posts'[i])
  <2>1. CASE i = k
    BY <1>3, <1>5, <2>1 DEF AsTold
  <2>2. CASE i # k
    <3>1. AsTold(accepted, posts[i])
      BY <1>1 DEF BlogInv, PostsKept
    <3>2. Unclashed(posts[i].id) => posts[i].id # p.id
      BY <1>1, <1>2, <2>2, OwnIds
    <3> QED BY <1>3, <1>5, <2>2, <3>1, <3>2 DEF AsTold
  <2> QED BY <2>1, <2>2
<1>9. PostsKept'
  BY <1>3, <1>8 DEF PostsKept
<1>10. PostsInOrder'
  BY <1>1, <1>3, <1>4 DEF BlogInv, PostsInOrder, Behind
<1>11. \A q \in Range(posts') : q.id \in {r.id : r \in Stored}
  BY <1>1, <1>3, <1>4 DEF Range, Stored
<1> QED BY <1>6, <1>7, <1>9, <1>10, <1>11 DEF BlogInv

LEMMA DeletesInv ==
  ASSUME BlogInv, NEW k, Deletes(k)
  PROVE  /\ BlogInv'
         /\ \A q \in Range(posts') :
              q.id \in DOMAIN accepted /\ Unclashed(q.id) =>
                q.id \in {r.id : r \in Stored}
<1>1. PICK n \in Nat : n = Len(posts) /\ DOMAIN posts = 1..n
  BY LenProperties DEF BlogInv, BlogTypeOK
<1>2. /\ k \in 1..n /\ posts \in Seq(Post)
      /\ posts' = RemoveAt(posts, k) /\ accepted' = [accepted EXCEPT ![posts[k].id] = Deleted]
      /\ answer' = 200 /\ nextPostId' = nextPostId
  BY <1>1 DEF Deletes, BlogInv, BlogTypeOK
\* Where the post at a place was before.
<1> DEFINE was(i) == IF i < k THEN i ELSE i + 1
<1>3. /\ posts' \in Seq(Post) /\ DOMAIN posts' = 1..(n - 1)
      /\ \A i \in 1..(n - 1) : posts'[i] = IF i < k THEN posts[i] ELSE posts[i + 1]
  <2>1. Len(posts') = n - 1 /\ posts' \in Seq(Post)
    BY <1>1, <1>2, TakeOut
  <2>2. n - 1 \in Nat
    BY <1>2
  <2> QED BY <1>1, <1>2, <2>1, <2>2, TakeOut, LenProperties
<1>4. \A i \in 1..(n - 1) : was(i) \in 1..n /\ was(i) # k /\ posts'[i] = posts[was(i)]
  BY <1>2, <1>3
<1>5. \A i, j \in 1..(n - 1) : i < j => was(i) < was(j)
  BY <1>2
<1> HIDE DEF was
<1>6. /\ DOMAIN accepted' = DOMAIN accepted
      /\ \A i \in DOMAIN accepted : i # posts[k].id => accepted'[i] = accepted[i]
      /\ \A i \in DOMAIN accepted : accepted'[i] \in {accepted[i], Deleted}
  BY <1>2
<1>7. GivenIds'
  BY <1>2, <1>6 DEF BlogInv, GivenIds
<1>8. BlogTypeOK'
  <2>1. \A i \in DOMAIN accepted' : accepted'[i] \in Post \cup {Deleted}
    BY <1>6 DEF BlogInv, BlogTypeOK
  <2> QED BY <1>2, <1>3, <2>1 DEF BlogInv, BlogTypeOK
<1>9. ASSUME NEW i \in 1..n, i # k
      PROVE  AsTold(accepted', posts[i])
  <2>1. AsTold(accepted, posts[i])
    BY <1>1 DEF BlogInv, PostsKept
  <2>2. Unclashed(posts[i].id) => posts[i].id # posts[k].id
    BY <1>1, <1>2, <1>9, OwnIds
  <2> QED BY <1>6, <2>1, <2>2 DEF AsTold
<1>10. PostsKept'
  BY <1>3, <1>4, <1>9 DEF PostsKept
<1>11. PostsInOrder'
  <2> SUFFICES ASSUME NEW i \in 1..(n - 1), NEW j \in 1..(n - 1), i < j
               PROVE  Behind(posts'[j], posts'[i])
    BY <1>3 DEF PostsInOrder, Behind
  <2>1. Behind(posts[was(j)], posts[was(i)])
    BY <1>1, <1>4, <1>5 DEF BlogInv, PostsInOrder
  <2> QED BY <1>4, <2>1
<1>12. ASSUME NEW q \in Range(posts') PROVE q.id \in {r.id : r \in Stored}
  BY <1>1, <1>3, <1>4 DEF Range, Stored
<1> QED BY <1>7, <1>8, <1>10, <1>11, <1>12 DEF BlogInv

LEMMA BlogNextInv ==
  ASSUME BlogInv, [BlogNext]_blogVars
  PROVE  /\ BlogInv'
         /\ \A q \in Range(posts') :
              q.id \in DOMAIN accepted /\ Unclashed(q.id) =>
                q.id \in {r.id : r \in Stored}
<1>1. CASE Reads
  BY <1>1, ReadInv DEF Reads, Stored
<1>2. CASE UNCHANGED blogVars
  <2>1. answer' \in {200, 400, 401, 403, 404, 500}
    BY <1>2 DEF blogVars, BlogInv, BlogTypeOK
  <2> QED BY <1>2, <2>1, ReadInv DEF blogVars, Stored
<1>3. CASE BlogNext
  BY <1>1, <1>3, BlogSteps, InsertsInv, UpdatesInv, DeletesInv
<1> QED BY <1>2, <1>3

LEMMA AlwaysBlogInv == BlogSpec => []BlogInv
<1>1. BlogInv /\ [BlogNext]_blogVars => BlogInv'
  BY BlogNextInv
<1> QED BY <1>1, BlogInitInv, PTL DEF BlogSpec

(* BlogPosts is type correct: what is stored is a post, and what a caller   *)
(* was told is a post or that it is deleted (insert_post, update_post).     *)
THEOREM BlogTyped == BlogSpec => []BlogTypeOK
<1>1. BlogInv => BlogTypeOK
  BY DEF BlogInv
<1> QED BY <1>1, AlwaysBlogInv, PTL

(* A stored post is what its callers were told, and its id names no other   *)
(* post, whatever the configured ids are, unless two configured posts have  *)
(* that id or one has it that is above their number (from_config,           *)
(* insert_post, update_post, delete_post).                                  *)
THEOREM AcceptedAlwaysKept == BlogSpec => []AcceptedKept
<1>1. BlogInv => AcceptedKept
  BY OwnIds DEF AcceptedKept, BlogInv, PostsKept, AsTold
<1> QED BY <1>1, AlwaysBlogInv, PTL

(* An id that was given away, and does not clash with a configured one, is  *)
(* not given again (insert_post, next_post_id).                             *)
THEOREM IdsNeverReused == BlogSpec => IdsNotReused
<1>1. BlogInv /\ [BlogNext]_blogVars =>
        [\A p \in Range(posts') :
           p.id \in DOMAIN accepted /\ Unclashed(p.id) =>
             p.id \in {q.id : q \in Stored}]_blogVars
  BY BlogNextInv
<1> QED BY <1>1, AlwaysBlogInv, PTL DEF BlogSpec, IdsNotReused
----------------------------------------------------------------------------
(* The sort.  Its order exists: the last record is put in its place among   *)
(* the others.                                                              *)
Sorted(s, n, o) ==
  /\ o \in [1..n -> 1..n]
  /\ \A k \in 1..n : \E i \in 1..n : o[i] = k
  /\ \A i, j \in 1..n : i < j => Before(s, o[i], o[j])

\* The labels of a list are numbers.
Dated(s, n) == \A i \in 1..n : s[i].createdAt \in Nat

LEMMA BeforeOrders ==
  ASSUME NEW s, NEW n \in Nat, Dated(s, n)
  PROVE  /\ \A i, j \in 1..n : i # j => Before(s, i, j) \/ Before(s, j, i)
         /\ \A i, j, k \in 1..n : Before(s, i, j) /\ Before(s, j, k) => Before(s, i, k)
BY DEF Before, Dated

LEMMA InsertSorted ==
  ASSUME NEW s, NEW n \in Nat \ {0}, Dated(s, n), NEW o, Sorted(s, n - 1, o)
  PROVE  \E new : Sorted(s, n, new)
<1> DEFINE S == {m \in 1..n : m = n \/ Before(s, n, o[m])}
<1>1. PICK m \in S : \A x \in S : m <= x
  <2>1. S \in SUBSET Nat /\ n \in S
    OBVIOUS
  <2> HIDE DEF S
  <2> QED BY <2>1, NatMinimum
<1>2. /\ o \in [1..(n - 1) -> 1..(n - 1)]
      /\ \A k \in 1..(n - 1) : \E i \in 1..(n - 1) : o[i] = k
      /\ \A i, j \in 1..(n - 1) : i < j => Before(s, o[i], o[j])
  BY DEF Sorted
<1>3. m \in 1..n /\ (m = n \/ Before(s, n, o[m]))
  BY <1>1
<1>4. \A i \in 1..(n - 1) : o[i] \in 1..(n - 1) /\ o[i] \in 1..n /\ o[i] # n
  <2>1. \A k \in 1..(n - 1) : k \in 1..n /\ k # n
    OBVIOUS
  <2>2. \A i \in 1..(n - 1) : o[i] \in 1..(n - 1)
    BY <1>2
  <2> QED BY <2>1, <2>2
<1>5. ASSUME NEW i \in 1..(n - 1), i < m
      PROVE  Before(s, o[i], n)
  <2>1. i \in 1..n /\ i \notin S
    BY <1>1, <1>5
  <2>2. ~Before(s, n, o[i])
    BY <2>1
  <2>3. n \in 1..n
    OBVIOUS
  <2> HIDE DEF S
  <2> QED BY <1>4, <2>2, <2>3, BeforeOrders
<1>6. ASSUME NEW i \in 1..(n - 1), ~(i < m)
      PROVE  Before(s, n, o[i])
  <2>1. m \in 1..(n - 1) /\ Before(s, n, o[m])
    BY <1>3, <1>6
  <2>2. CASE i = m
    BY <2>1, <2>2
  <2>3. CASE i # m
    <3>1. m < i
      BY <1>3, <1>6, <2>3
    <3>2. Before(s, o[m], o[i])
      BY <1>2, <2>1, <3>1
    <3>3. n \in 1..n /\ o[m] \in 1..n /\ o[i] \in 1..n
      BY <1>4, <2>1
    <3> QED BY <2>1, <3>2, <3>3, BeforeOrders
  <2> QED BY <2>2, <2>3
<1> HIDE DEF S
<1> DEFINE new == [i \in 1..n |-> IF i < m THEN o[i] ELSE IF i = m THEN n ELSE o[i - 1]]
<1>7. /\ \A i \in 1..n : i < m => new[i] = o[i] /\ i \in 1..(n - 1)
      /\ new[m] = n
      /\ \A i \in 1..n : m < i => new[i] = o[i - 1] /\ i - 1 \in 1..(n - 1) /\ ~(i - 1 < m)
      /\ DOMAIN new = 1..n
  BY <1>3
<1>8. new \in [1..n -> 1..n]
  BY <1>3, <1>4
<1> HIDE DEF new
<1>9. ASSUME NEW k \in 1..n PROVE \E i \in 1..n : new[i] = k
  <2>1. CASE k = n
    BY <1>3, <1>7, <2>1
  <2>2. CASE k # n
    <3>1. PICK i \in 1..(n - 1) : o[i] = k
      BY <1>2, <2>2
    <3>2. CASE i < m
      <4>1. i \in 1..n
        OBVIOUS
      <4> QED BY <1>7, <3>1, <3>2, <4>1
    <3>3. CASE ~(i < m)
      <4>1. i + 1 \in 1..n /\ m < i + 1 /\ (i + 1) - 1 = i
        BY <1>3, <3>3
      <4> QED BY <1>7, <3>1, <4>1
    <3> QED BY <3>2, <3>3
  <2> QED BY <2>1, <2>2
<1>10. ASSUME NEW i \in 1..n, NEW j \in 1..n, i < j
       PROVE  Before(s, new[i], new[j])
  <2>1. CASE i < m /\ j < m
    BY <1>2, <1>7, <1>10, <2>1
  <2>2. CASE i < m /\ j = m
    BY <1>5, <1>7, <2>2
  <2>3. CASE i < m /\ m < j
    <3>1. i \in 1..(n - 1) /\ j - 1 \in 1..(n - 1) /\ i < j - 1
      BY <1>3, <1>7, <2>3
    <3> QED BY <1>2, <1>7, <2>3, <3>1
  <2>4. CASE i = m
    <3>1. m < j /\ j - 1 \in 1..(n - 1) /\ ~(j - 1 < m) /\ new[j] = o[j - 1]
      BY <1>7, <1>10, <2>4
    <3> QED BY <1>6, <1>7, <2>4, <3>1
  <2>5. CASE m < i
    <3>1. m < j /\ i - 1 < j - 1
      BY <1>3, <1>10, <2>5
    <3> QED BY <1>2, <1>7, <2>5, <3>1
  <2> QED BY <1>3, <1>10, <2>1, <2>2, <2>3, <2>4, <2>5
<1>11. Sorted(s, n, new)
  BY <1>8, <1>9, <1>10 DEF Sorted
<1> QED BY <1>11

LEMMA SortedExists ==
  ASSUME NEW s, NEW n \in Nat, Dated(s, n)
  PROVE  \E o : Sorted(s, n, o)
<1> DEFINE S == {k \in 0..n : \E o : Sorted(s, k, o)}
<1>1. 0 \in S
  <2>1. Sorted(s, 0, [i \in 1..0 |-> 0])
    BY DEF Sorted
  <2> QED BY <2>1
<1>2. ASSUME NEW k \in 1..n, k - 1 \in S
      PROVE  k \in S
  <2>1. PICK o : Sorted(s, k - 1, o)
    BY <1>2
  <2>2. Dated(s, k) /\ k \in Nat \ {0} /\ k \in 0..n
    BY DEF Dated
  <2>3. \E new : Sorted(s, k, new)
    BY <2>1, <2>2, InsertSorted
  <2> QED BY <2>2, <2>3
<1>3. 0..n \subseteq S
  <2> HIDE DEF S
  <2> QED BY <1>1, <1>2, UpTo
<1>4. n \in S
  <2>1. n \in 0..n
    OBVIOUS
  <2> QED BY <1>3, <2>1
<1> QED BY <1>4

\* The sorted list has the records of the list, in the order of the sort.
LEMMA NewestFirstSorts ==
  ASSUME NEW list \in Seq(Post)
  PROVE  /\ NewestFirst(list) \in Seq(Post) /\ Len(NewestFirst(list)) = Len(list)
         /\ \E o : /\ Sorted(list, Len(list), o)
                   /\ \A i \in 1..Len(list) : NewestFirst(list)[i] = list[o[i]]
<1>1. PICK n \in Nat : n = Len(list) /\ DOMAIN list = 1..n
  BY LenProperties
<1>2. Dated(list, n) /\ \A i \in 1..n : list[i] \in Post
  <2>1. \A i \in 1..n : list[i] \in Post
    BY <1>1, ElementOfSeq
  <2>2. \A p \in Post : p.createdAt \in Nat
    BY DEF Post
  <2> QED BY <2>1, <2>2 DEF Dated
<1>3. ASSUME NEW o \in [1..n -> 1..n]
      PROVE  Sorts(o, list) <=> Sorted(list, n, o)
  <2>1. Range(o) = 1..n <=> \A k \in 1..n : \E i \in 1..n : o[i] = k
    BY DEF Range
  <2> QED BY <1>1, <2>1 DEF Sorts, Sorted
<1>4. \E o \in [1..n -> 1..n] : Sorts(o, list)
  <2>1. PICK o : Sorted(list, n, o)
    BY <1>2, SortedExists
  <2>2. o \in [1..n -> 1..n]
    BY <2>1 DEF Sorted
  <2> QED BY <1>3, <2>1, <2>2
<1>5. PICK o : o = CHOOSE p \in [1..n -> 1..n] : Sorts(p, list)
  OBVIOUS
<1>6. o \in [1..n -> 1..n] /\ Sorts(o, list)
  BY <1>4, <1>5
<1>7. NewestFirst(list) = [i \in 1..n |-> list[o[i]]]
  BY <1>1, <1>5 DEF NewestFirst
<1>8. \A i \in 1..n : list[o[i]] \in Post
  BY <1>2, <1>6
<1>9. NewestFirst(list) \in Seq(Post) /\ Len(NewestFirst(list)) = n
  BY <1>7, <1>8
<1>10. Sorted(list, n, o) /\ \A i \in 1..n : NewestFirst(list)[i] = list[o[i]]
  BY <1>3, <1>6, <1>7
<1> QED BY <1>1, <1>9, <1>10

\* Made before, where both were made at run time.
MadeBefore(p, q) == p \in Made /\ q \in Made => p.id < q.id

\* The latest first, and all of the posts that satisfy the query.
NewestOf(list, query) ==
  /\ list \in Seq(Post)
  /\ \A i, j \in 1..Len(list) : i < j => MadeBefore(list[j], list[i])
  /\ \A p \in Stored : Satisfies(p, query) => \E i \in 1..Len(list) : list[i] = p

LEMMA SelectedNewest ==
  ASSUME BlogInv, ClockForward, NEW query
  PROVE  NewestOf(NewestFirst(Selected(posts, query)), query)
<1>1. PICK n \in Nat : n = Len(posts) /\ DOMAIN posts = 1..n /\ posts \in Seq(Post)
  BY LenProperties DEF BlogInv, BlogTypeOK
<1>2. PICK sel, at : /\ sel = Selected(posts, query) /\ sel \in Seq(Post)
                     /\ Places(posts, query, sel, n, at)
  BY <1>1, SelectedPlaces
<1>3. PICK k \in Nat : k = Len(sel)
  BY <1>2, LenProperties
<1>4. /\ at \in [1..k -> 1..n]
      /\ \A i \in 1..k : sel[i] = posts[at[i]]
      /\ \A i, j \in 1..k : i < j => at[i] < at[j]
      /\ \A m \in 1..n : Satisfies(posts[m], query) => \E i \in 1..k : at[i] = m
  BY <1>2, <1>3 DEF Places
<1>5. PICK list : list = NewestFirst(sel)
  OBVIOUS
<1>6. PICK o : /\ list \in Seq(Post) /\ Len(list) = k /\ Sorted(sel, k, o)
               /\ \A i \in 1..k : list[i] = sel[o[i]]
  BY <1>2, <1>3, <1>5, NewestFirstSorts
<1>7. /\ o \in [1..k -> 1..k]
      /\ \A m \in 1..k : \E i \in 1..k : o[i] = m
      /\ \A i, j \in 1..k : i < j => Before(sel, o[i], o[j])
  BY <1>6 DEF Sorted
<1>8. ASSUME NEW i \in 1..k, NEW j \in 1..k, i < j
      PROVE  MadeBefore(list[j], list[i])
  <2>1. PICK a \in 1..k, b \in 1..k : a = o[i] /\ b = o[j]
    BY <1>7
  <2>2. PICK p, q : p = list[j] /\ q = list[i]
    OBVIOUS
  <2>3. p = sel[b] /\ q = sel[a] /\ Before(sel, a, b)
    BY <1>6, <1>7, <1>8, <2>1, <2>2
  <2>4. p = posts[at[b]] /\ q = posts[at[a]] /\ at[a] \in 1..n /\ at[b] \in 1..n
    BY <1>4, <2>3
  <2>5. \/ q.createdAt > p.createdAt
        \/ q.createdAt = p.createdAt /\ a < b
    BY <2>3 DEF Before
  <2>6. /\ p.id \in Int /\ q.id \in Int /\ p.createdAt \in Nat /\ q.createdAt \in Nat
        /\ a \in 1..k /\ b \in 1..k /\ a # b
    <3>1. p \in Post /\ q \in Post
      BY <1>1, <2>4
    <3>2. \A r \in Post : r.id \in Int /\ r.createdAt \in Nat
      BY DEF Post
    <3>3. a # b
      BY <2>3, <3>1, <3>2 DEF Before
    <3> QED BY <3>1, <3>2, <3>3
  <2> SUFFICES ASSUME p \in Made, q \in Made PROVE p.id < q.id
    BY <2>2 DEF MadeBefore
  <2>7. p.id \notin ConfiguredIds /\ q.id \notin ConfiguredIds
    BY DEF Made
  <2>8. CASE a < b
    <3>1. at[a] < at[b]
      BY <1>4, <2>6, <2>8
    <3>2. Behind(p, q)
      BY <1>1, <2>4, <3>1 DEF BlogInv, PostsInOrder
    <3> QED BY <2>7, <3>2 DEF Behind
  <2>9. CASE b < a
    <3>1. at[b] < at[a]
      BY <1>4, <2>6, <2>9
    <3>2. Behind(q, p)
      BY <1>1, <2>4, <3>1 DEF BlogInv, PostsInOrder
    <3>3. q.id < p.id
      BY <2>7, <3>2 DEF Behind
    <3>4. q.createdAt <= p.createdAt
      BY <3>3 DEF ClockForward
    <3> QED BY <2>5, <2>6, <2>9, <3>4
  <2> QED BY <2>6, <2>8, <2>9
<1>9. ASSUME NEW p \in Stored, Satisfies(p, query)
      PROVE  \E i \in 1..k : list[i] = p
  <2>1. PICK m \in 1..n : posts[m] = p
    BY <1>1 DEF Stored, Range
  <2>2. PICK a \in 1..k : at[a] = m
    BY <1>4, <1>9, <2>1
  <2>3. PICK i \in 1..k : o[i] = a
    BY <1>7
  <2>4. list[i] = p
    BY <1>4, <1>6, <2>1, <2>2, <2>3
  <2> QED BY <2>4
<1>10. NewestOf(list, query)
  BY <1>6, <1>8, <1>9 DEF NewestOf
<1> QED BY <1>2, <1>5, <1>10

\* The first of a list, as many as its limit.
FirstOf(list, limit, page) ==
  /\ DOMAIN page = 1..Len(page)
  /\ Len(page) \in 0..Len(list) /\ Len(page) \in {Len(list), limit}
  /\ \A i \in 1..Len(page) : page[i] = list[i]

LEMMA FirstPage ==
  ASSUME NEW list \in Seq(Post), NEW limit \in Nat
  PROVE  FirstOf(list, limit, Page(list, 0, limit))
<1>1. PICK n \in Nat : n = Len(list)
  BY LenProperties
<1>2. PICK k : k = IF n < limit THEN n ELSE limit
  OBVIOUS
<1>3. k \in 0..n /\ k \in {n, limit} /\ k \in Nat
  BY <1>2
<1>4. PICK page : page = Page(list, 0, limit)
  OBVIOUS
<1>5. page = SubSeq(list, 1, k)
  <2>1. 0 + 1 = 1 /\ 0 + limit = limit
    OBVIOUS
  <2> QED BY <1>1, <1>2, <1>4, <2>1 DEF Page
<1>6. /\ page \in Seq(Post) /\ Len(page) = IF 1 <= k THEN k - 1 + 1 ELSE 0
      /\ \A i \in 1..(k - 1 + 1) : page[i] = list[1 + i - 1]
  <2>1. 1 \in Int /\ k \in Int /\ \A i \in 1..k : list[i] \in Post
    BY <1>1, <1>3, ElementOfSeq
  <2> QED BY <1>5, <2>1, SubSeqProperties
<1>7. Len(page) = k /\ \A i \in 1..k : page[i] = list[i]
  BY <1>3, <1>6
<1>8. DOMAIN page = 1..Len(page)
  BY <1>6, LenProperties
<1> QED BY <1>1, <1>3, <1>4, <1>7, <1>8 DEF FirstOf

\* A page that shows the latest of the posts that satisfy a query.
PageLatest(page, query, limit) ==
  /\ \A i, j \in DOMAIN page : i < j => MadeBefore(page[j], page[i])
  /\ \A p \in Made \ Range(page) : Satisfies(p, query) =>
       /\ Len(page) = limit
       /\ \A q \in Range(page) : MadeBefore(p, q)

LEMMA FirstPageLatest ==
  ASSUME NEW query, NEW list, NewestOf(list, query), NEW limit, NEW page,
         FirstOf(list, limit, page)
  PROVE  PageLatest(page, query, limit)
<1>1. PICK n \in Nat : n = Len(list)
  BY LenProperties DEF NewestOf
<1>2. PICK k \in 0..n : k = Len(page)
  BY <1>1 DEF FirstOf
<1>3. /\ DOMAIN page = 1..k /\ k \in {n, limit}
      /\ \A i \in 1..k : page[i] = list[i] /\ i \in 1..n
  <2>1. \A i \in 1..k : i \in 1..n
    OBVIOUS
  <2>2. /\ DOMAIN page = 1..Len(page) /\ Len(page) \in {Len(list), limit}
        /\ \A i \in 1..Len(page) : page[i] = list[i]
    BY DEF FirstOf
  <2> QED BY <1>1, <1>2, <2>1, <2>2
<1>4. /\ \A i, j \in 1..n : i < j => MadeBefore(list[j], list[i])
      /\ \A p \in Stored : Satisfies(p, query) => \E i \in 1..n : list[i] = p
  BY <1>1 DEF NewestOf
<1>5. ASSUME NEW i \in DOMAIN page, NEW j \in DOMAIN page, i < j
      PROVE  MadeBefore(page[j], page[i])
  BY <1>3, <1>4, <1>5
<1>6. ASSUME NEW p \in Made, Satisfies(p, query), p \notin Range(page)
      PROVE  Len(page) = limit /\ \A q \in Range(page) : MadeBefore(p, q)
  <2>1. PICK i \in 1..n : list[i] = p
    BY <1>4, <1>6 DEF Made
  <2>2. i \notin 1..k
    BY <1>3, <1>6, <2>1 DEF Range
  <2>3. k < i /\ k # n
    BY <2>2
  <2>4. ASSUME NEW q \in Range(page) PROVE MadeBefore(p, q)
    <3>1. PICK j \in 1..k : list[j] = q
      BY <1>3 DEF Range
    <3>2. j \in 1..n /\ j < i
      BY <1>3, <2>3
    <3> QED BY <1>4, <2>1, <3>1, <3>2
  <2> QED BY <1>2, <1>3, <2>3, <2>4
<1> QED BY <1>5, <1>6 DEF PageLatest

(* While the clock has not been set back between two posts, a reader's list *)
(* and an author's own show the latest posts of run time, the latest first, *)
(* also those of one second (filtered_posts, insert_post).                  *)
THEOREM FeedAlwaysNewestFirst == BlogSpec => []FeedNewestFirst
<1>1. BlogInv => FeedNewestFirst
  <2> SUFFICES ASSUME BlogInv, ClockForward
               PROVE  /\ \A t \in Tenants :
                           ShowsLatest([tenantId |-> t, published |-> TRUE], FeedLimit)
                      /\ \A u \in Uids :
                           ShowsLatest([tenantId |-> TenantOf[u], authorUid |-> u], AuthorLimit)
    BY DEF FeedNewestFirst
  <2>1. ASSUME NEW query, NEW limit \in Nat
        PROVE  ShowsLatest(query, limit)
    <3>1. PICK list : list = NewestFirst(Selected(posts, query))
      OBVIOUS
    <3>2. NewestOf(list, query)
      BY <3>1, SelectedNewest
    <3>3. PICK page : page = Page(list, 0, limit)
      OBVIOUS
    <3>4. FirstOf(list, limit, page)
      BY <3>2, <3>3, FirstPage DEF NewestOf
    <3>5. PageLatest(page, query, limit)
      BY <3>2, <3>4, FirstPageLatest
    <3>6. page = FilteredPosts(query, 0, limit)
      BY <3>1, <3>3 DEF FilteredPosts
    <3>7. \A q \in Range(page) \cap Made, p \in Made : MadeBefore(p, q) => p.id < q.id
      BY DEF MadeBefore
    <3>8. \A i, j \in DOMAIN page : {page[i], page[j]} \subseteq Made /\
            MadeBefore(page[j], page[i]) => page[j].id < page[i].id
      BY DEF MadeBefore
    <3> HIDE DEF MadeBefore
    <3>9. /\ \A i, j \in DOMAIN page :
               i < j /\ {page[i], page[j]} \subseteq Made => page[j].id < page[i].id
          /\ \A p \in Made \ Range(page) : Satisfies(p, query) =>
               /\ Len(page) = limit
               /\ \A q \in Range(page) \cap Made : p.id < q.id
      BY <3>5, <3>7, <3>8 DEF PageLatest
    <3> QED BY <3>6, <3>9 DEF ShowsLatest
  <2> QED BY <2>1, BlogAssumption
<1> QED BY <1>1, AlwaysBlogInv, PTL
=============================================================================
