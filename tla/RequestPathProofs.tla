-------------------------- MODULE RequestPathProofs --------------------------
(***************************************************************************)
(* Proofs about a request's way through RequestPipeline and ModuleRuntime, *)
(* for every set of configurations, callers, requests and replicas and     *)
(* whatever the hashes are.  The gateway serves it only under a policy     *)
(* that allows it, with the caller's own identity, on a shard its cluster  *)
(* has.  The replicas have it in one place at a time, so it is executed at *)
(* most once, by one of the cluster it was routed to, and answered at most *)
(* once, whichever of them die.                                            *)
(***************************************************************************)
EXTENDS RequestPipeline, ModuleRuntime, TLAPS

(* The gateway's part.                                                      *)
\* A process runs with an accepted configuration, and none that is down has
\* served the latest request.
ProcessSound ==
  /\ process \in {"down", "running"}
  /\ process = "running" => file \in DOMAIN Files /\ Starts(Running)
  /\ process = "down" => answer.status # 200

PipelineInv == ProcessSound /\ ServedUnderPolicy
----------------------------------------------------------------------------
(* What the accepted manifests give a request.                              *)

\* The gateway that serves a request is one of its app, and the policy one of
\* its own that matches.
LEMMA GatewayServes ==
  ASSUME NEW caller, NEW r, NEW g \in FirstGateway(caller, r)
  PROVE  g \in Members(Gateways) /\ Serves(g, caller)
BY DEF FirstGateway, Members

LEMMA PolicyAllows ==
  ASSUME NEW policies, NEW r, NEW p \in Authorized(policies, r)
  PROVE  p \in Members(policies) /\ PolicyMatches(p, r)
BY DEF Authorized, Members

\* Of an accepted topology one cluster at most lists a policy.
LEMMA OneClusterLists ==
  ASSUME NEW clusters, ValidTopology(clusters), NEW policy,
         NEW c \in Members(clusters), policy \in Members(c.policies),
         NEW d \in Members(clusters), policy \in Members(d.policies)
  PROVE  c = d
<1>1. PICK i \in DOMAIN clusters : c = clusters[i]
  BY DEF Members
<1>2. PICK j \in DOMAIN clusters : d = clusters[j]
  BY DEF Members
<1>3. PICK k \in DOMAIN clusters[i].policies : policy = clusters[i].policies[k]
  BY <1>1 DEF Members
<1>4. PICK l \in DOMAIN clusters[j].policies : policy = clusters[j].policies[l]
  BY <1>2 DEF Members
<1>5. <<i, k>> \in Listings(clusters) /\ <<j, l>> \in Listings(clusters)
  BY DEF Listings
<1>6. \A a, b \in Listings(clusters) :
        clusters[a[1]].policies[a[2]] = clusters[b[1]].policies[b[2]] => a = b
  BY DEF ValidTopology, PoliciesAssignedOnce
<1>7. <<i, k>> = <<j, l>>
  BY <1>3, <1>4, <1>5, <1>6
<1> QED BY <1>1, <1>2, <1>7

\* A hashed cluster of an accepted topology has shards.
LEMMA HashedHasShards ==
  ASSUME process = "running", ProcessSound, NEW g \in Members(Gateways),
         NEW c \in Members(g.clusters), c.strategy = "hash"
  PROVE  c.virtualShards \in Nat \ {0}
<1>1. ValidTopology(g.clusters)
  BY DEF ProcessSound, Starts, ValidGateway, Gateways
<1>2. c.virtualShards > 0
  BY <1>1 DEF ValidTopology, ValidRouting
<1>3. c.virtualShards \in Nat
  BY PipelineAssumption DEF ProcessSound, Gateways, Running
<1> QED BY <1>2, <1>3
----------------------------------------------------------------------------
(* The prepared body.                                                       *)

\* A leaf that was resolved holds a value, and one that was bound to the
\* caller the caller's.
LEMMA LeafResolved ==
  ASSUME NEW leaf, leaf.kind \in {"lit", "list", "arg", "ctx", "template"},
         NEW auth, \A c \in DOMAIN auth : auth[c] = Missing \/ auth[c].kind \in {"lit", "list"},
         NEW params, NEW given, given = Resolved(leaf, auth, params), given # Failed
  PROVE  /\ given.kind \notin {"ctx", "template", "missing"}
         /\ leaf.kind = "ctx" => given = auth[leaf.value]
<1>1. CASE leaf.kind = "template"
  <2>1. given \in {Failed, [kind |-> "text",
                            parts |-> [i \in DOMAIN Values(leaf) |->
                              Rendered(Bound(Values(leaf)[i], auth), params)]]}
    BY <1>1 DEF Resolved, FilledTemplate
  <2>2. given.kind = "text"
    BY <2>1
  <2> QED BY <1>1, <2>2
<1>2. CASE leaf.kind = "ctx"
  <2>1. given = CallerValue(leaf.value, auth)
    BY <1>2 DEF Resolved, Bound
  <2>2. leaf.value \in DOMAIN auth /\ auth[leaf.value] # Missing /\ given = auth[leaf.value]
    BY <2>1 DEF CallerValue
  <2> QED BY <2>2
<1>3. CASE leaf.kind \in {"lit", "list", "arg"}
  <2>1. given = leaf
    BY <1>3 DEF Resolved, Bound
  <2> QED BY <1>3, <2>1
<1> QED BY <1>1, <1>2, <1>3

LEMMA BodyPrepared ==
  ASSUME NEW r \in Requests, NEW auth,
         \A c \in DOMAIN auth : auth[c] = Missing \/ auth[c].kind \in {"lit", "list"},
         NEW body, body = PreparedBody(r, auth), Prepares(body)
  PROVE  \A f \in DOMAIN body \ Copied : \A path \in DOMAIN body[f] :
           /\ body[f][path].kind \notin {"ctx", "template", "missing"}
           /\ r.body[f][path].kind = "ctx" => body[f][path] = auth[r.body[f][path].value]
<1> SUFFICES ASSUME NEW f \in DOMAIN body \ Copied, NEW path \in DOMAIN body[f]
             PROVE  /\ body[f][path].kind \notin {"ctx", "template", "missing"}
                    /\ r.body[f][path].kind = "ctx" =>
                         body[f][path] = auth[r.body[f][path].value]
  OBVIOUS
<1>1. /\ f \in DOMAIN r.body \ Copied /\ path \in DOMAIN r.body[f]
      /\ body[f][path] = Resolved(r.body[f][path], auth, r.params)
  BY DEF PreparedBody
<1>2. r.body[f][path].kind \in {"lit", "list", "arg", "ctx", "template"}
  BY <1>1, RequestAssumption
<1>3. body[f][path] # Failed
  BY DEF Prepares
<1> QED BY <1>1, <1>2, <1>3, LeafResolved

\* The identity a request is prepared for says plain values of the caller.
LEMMA IdentityPlain ==
  ASSUME process = "running", ProcessSound, NEW g \in Members(Gateways),
         NEW caller \in Callers \cup {Nobody}, NEW auth, auth = Identity(g, caller)
  PROVE  \A c \in DOMAIN auth : auth[c] = Missing \/ auth[c].kind \in {"lit", "list"}
<1>1. CASE caller = Nobody
  BY <1>1, IdentityAssumption DEF Identity, ProcessSound, Gateways, Running
<1>2. CASE caller # Nobody
  BY <1>2, IdentityAssumption DEF Identity
<1> QED BY <1>1, <1>2
----------------------------------------------------------------------------
(* The steps.                                                               *)
LEMMA InitPipeline == PipelineInit => PipelineInv
BY DEF PipelineInit, PipelineInv, ProcessSound, ServedUnderPolicy, NoAnswer

\* A refusal changes nothing but the answer.
LEMMA RefuseKeeps ==
  ASSUME PipelineInv, process = "running", NEW code \in {400, 401, 403, 500}, Refuse(code)
  PROVE  PipelineInv'
<1>1. answer'.status # 200 /\ UNCHANGED <<process, file>>
  BY DEF Refuse
<1>2. ProcessSound'
  BY <1>1 DEF PipelineInv, ProcessSound, Running
<1>3. ServedUnderPolicy'
  BY <1>1 DEF ServedUnderPolicy
<1> QED BY <1>2, <1>3 DEF PipelineInv

\* The shard of a hashed cluster is one it has; no other cluster has one.
LEMMA ShardIn ==
  ASSUME NEW c, NEW shard \in Shards(c),
         c.strategy = "hash" => c.virtualShards \in Nat \ {0}
  PROVE  shard \subseteq 0 .. c.virtualShards - 1 /\ (c.strategy = "hash" <=> shard # {})
<1>1. CASE c.strategy = "hash"
  <2>1. PICK h \in Nat, n \in Nat \ {0} : n = c.virtualShards /\ shard = {h % n}
    BY <1>1, PipelineAssumption DEF Shards
  <2>2. h % n \in 0 .. n - 1
    BY <2>1
  <2> QED BY <1>1, <2>1, <2>2
<1>2. CASE c.strategy # "hash"
  BY <1>2 DEF Shards
<1> QED BY <1>1, <1>2

LEMMA DispatchKeeps ==
  ASSUME PipelineInv, process = "running",
         NEW caller \in Callers \cup {Nobody}, NEW r \in Requests,
         NEW g \in FirstGateway(caller, r), NEW p \in Authorized(g.policies, r),
         NEW inspect \in BOOLEAN, Dispatch(caller, r, g, p, inspect)
  PROVE  PipelineInv'
<1>1. PICK auth, body : auth = Identity(g, caller) /\ body = PreparedBody(r, auth)
  OBVIOUS
<1>2. g \in Members(Gateways) /\ Serves(g, caller)
  BY GatewayServes
<1>3. p \in Members(g.policies) /\ PolicyMatches(p, r)
  BY PolicyAllows
<1>4. CASE Refuse(400) \/ Refuse(500)
  BY <1>4, RefuseKeeps
<1>5. ASSUME Prepares(body),
             NEW c \in ClusterOf(g, p), Routable(c, r, RouteKey(c, r, body, auth)),
             NEW shard \in Shards(c),
             answer' = IF inspect \/ c.family \in Running.modules
                         THEN [status |-> 200, caller |-> caller, request |-> r,
                               body |-> body, policy |-> p.name, cluster |-> c.name,
                               shard |-> shard]
                         ELSE [status |-> 500],
             UNCHANGED <<process, file>>
      PROVE  PipelineInv'
  <2>1. c \in Members(g.clusters) /\ p.name \in Members(c.policies)
    BY DEF ClusterOf
  <2>2. ProcessSound'
    BY <1>5 DEF PipelineInv, ProcessSound, Running
  <2>3. shard \subseteq 0 .. c.virtualShards - 1 /\ (c.strategy = "hash" <=> shard # {})
    BY <1>2, <2>1, HashedHasShards, ShardIn DEF PipelineInv
  <2>4. ServedUnderPolicy'
    <3>1. CASE answer' = [status |-> 500]
      BY <3>1 DEF ServedUnderPolicy
    <3>2. CASE answer' = [status |-> 200, caller |-> caller, request |-> r,
                          body |-> body, policy |-> p.name, cluster |-> c.name,
                          shard |-> shard]
      <4>1. /\ answer'.caller = caller /\ answer'.request = r /\ answer'.body = body
            /\ answer'.policy = p.name /\ answer'.cluster = c.name
            /\ answer'.shard = shard
        BY <3>2
      <4>2. Gateways' = Gateways
        BY <1>5 DEF Gateways, Running
      <4>3. PICK a : a = answer'
        OBVIOUS
      <4>4. OwnIdentity(a, g) = auth
        BY <1>1, <4>1, <4>3 DEF OwnIdentity, Identity
      <4>5. UnderPolicy(a, g)
        <5>1. caller # Nobody => g.name = caller.app
          BY <1>2 DEF Serves
        <5>2. p \in {q \in Members(g.policies) : q.name = p.name}
          BY <1>3
        <5>3. {d \in Members(g.clusters) : p.name \in Members(d.policies)} = {c}
          <6>1. ValidTopology(g.clusters)
            BY <1>2 DEF PipelineInv, ProcessSound, Starts, ValidGateway, Gateways
          <6> QED BY <2>1, <6>1, OneClusterLists
        <5>4. c.runtime = r.engine
          BY <1>5 DEF Routable
        <5> QED BY <1>3, <2>3, <4>1, <4>3, <5>1, <5>2, <5>3, <5>4 DEF UnderPolicy
      <4>6. BodyOwn(a, auth)
        <5>1. \A d \in DOMAIN auth : auth[d] = Missing \/ auth[d].kind \in {"lit", "list"}
          BY <1>1, <1>2, IdentityPlain DEF PipelineInv
        <5>2. \A f \in DOMAIN body \ Copied : \A path \in DOMAIN body[f] :
                /\ body[f][path].kind \notin {"ctx", "template", "missing"}
                /\ r.body[f][path].kind = "ctx" => body[f][path] = auth[r.body[f][path].value]
          BY <1>1, <1>5, <5>1, BodyPrepared
        <5> QED BY <4>1, <4>3, <5>2 DEF BodyOwn
      <4> QED BY <1>2, <4>2, <4>3, <4>4, <4>5, <4>6 DEF ServedUnderPolicy
    <3> QED BY <1>5, <3>1, <3>2
  <2> QED BY <2>2, <2>4 DEF PipelineInv
<1> QED BY <1>1, <1>4, <1>5 DEF Dispatch

LEMMA NextPipeline ==
  ASSUME PipelineInv, [PipelineNext]_pipelineVars
  PROVE  PipelineInv'
<1>1. ASSUME NEW launch \in Launches, Start(launch) PROVE PipelineInv'
  <2>1. /\ process' = "running" /\ file' \in DOMAIN Files /\ Starts(Files[file'])
        /\ UNCHANGED answer /\ process = "down"
    BY <1>1 DEF Start
  <2>2. ProcessSound'
    BY <2>1 DEF ProcessSound, Running
  <2>3. ServedUnderPolicy'
    BY <2>1 DEF PipelineInv, ProcessSound, ServedUnderPolicy
  <2> QED BY <2>2, <2>3 DEF PipelineInv
<1>2. ASSUME NEW launch \in Launches, RefuseStart(launch) \/ PanicAtStart(launch)
      PROVE  PipelineInv'
  <2>1. answer'.status # 200 /\ UNCHANGED <<process, file>>
    BY <1>2 DEF RefuseStart, PanicAtStart
  <2>2. ProcessSound'
    BY <2>1 DEF PipelineInv, ProcessSound, Running
  <2>3. ServedUnderPolicy'
    BY <2>1 DEF ServedUnderPolicy
  <2> QED BY <2>2, <2>3 DEF PipelineInv
<1>3. CASE Stop
  <2>1. process' = "down" /\ answer'.status # 200 /\ UNCHANGED file
    BY <1>3 DEF Stop, NoAnswer
  <2>2. ProcessSound'
    BY <2>1 DEF ProcessSound
  <2>3. ServedUnderPolicy'
    BY <2>1 DEF ServedUnderPolicy
  <2> QED BY <2>2, <2>3 DEF PipelineInv
<1>4. ASSUME NEW c \in Callers \cup {Nobody}, NEW r \in Requests, NEW inspect \in BOOLEAN,
             Serve(c, r, inspect)
      PROVE  PipelineInv'
  <2>1. process = "running"
    BY <1>4 DEF Serve
  <2>2. CASE Refuse(403) \/ Refuse(400)
    BY <2>1, <2>2, RefuseKeeps
  <2>3. ASSUME NEW g \in FirstGateway(c, r), NEW p \in Authorized(g.policies, r),
               Dispatch(c, r, g, p, inspect)
        PROVE  PipelineInv'
    BY <2>1, <2>3, DispatchKeeps
  <2> QED BY <1>4, <2>2, <2>3 DEF Serve
<1>5. CASE RefuseToken
  BY <1>5, RefuseKeeps DEF RefuseToken
<1>6. CASE UNCHANGED pipelineVars
  <2>1. UNCHANGED <<process, file, answer>>
    BY <1>6 DEF pipelineVars
  <2>2. ProcessSound'
    BY <2>1 DEF PipelineInv, ProcessSound, Running
  <2>3. ServedUnderPolicy'
    <3>1. answer' = answer /\ Gateways' = Gateways
      BY <2>1 DEF Gateways, Running
    <3>2. ServedUnderPolicy
      BY DEF PipelineInv
    <3> QED BY <3>1, <3>2 DEF ServedUnderPolicy
  <2> QED BY <2>2, <2>3 DEF PipelineInv
<1> QED BY <1>1, <1>2, <1>3, <1>4, <1>5, <1>6 DEF PipelineNext, Execute, Inspect

(* A request reaches a module only under a policy that allows it, of a       *)
(* gateway of the caller's app, on the one cluster that lists the policy and *)
(* a shard it has, and what its body binds to the caller is the caller's     *)
(* own, whatever was configured, stopped and started before.                 *)
THEOREM AlwaysServedUnderPolicy == PipelineSpec => []ServedUnderPolicy
<1>1. PipelineInit => PipelineInv
  BY InitPipeline
<1>2. PipelineInv /\ [PipelineNext]_pipelineVars => PipelineInv'
  BY NextPipeline
<1>3. PipelineInv => ServedUnderPolicy
  BY DEF PipelineInv
<1> QED BY <1>1, <1>2, <1>3, PTL DEF PipelineSpec
----------------------------------------------------------------------------
(* The replicas' part.                                                      *)
Typed ==
  /\ place \in [Replicas -> {"down", "batch", "asleep", "handling", "responding"}]
  /\ DOMAIN plan = Replicas
  /\ held \in [Replicas -> Messages \cup {Nothing}]
  /\ result \in [Replicas -> {"ok", "error", Nothing}]
  /\ inbox \in Seq(Messages) /\ sent \subseteq Messages /\ lost \subseteq sent
  /\ responses \in [Messages -> Seq({"ok", "error"})]
  /\ executed \in [Messages -> Nat]

\* A replica that runs has a plan one of the configurations gives.
PlanGiven(n) ==
  \E cfg \in Configs : \E c \in Planned(cfg) :
    plan[n].cluster = c.name /\ plan[n].runtime = c.runtime

\* Sent and not yet answered or lost
Pending(m) == m \in sent /\ responses[m] = <<>> /\ m \notin lost

InboxConsistent ==
  /\ \A i \in 1..Len(inbox) : Pending(inbox[i]) /\ executed[inbox[i]] = 0
  /\ \A i, j \in 1..Len(inbox) : inbox[i] = inbox[j] => i = j
  /\ \A n \in Replicas : \A i \in 1..Len(inbox) : held[n] # inbox[i]

ReplicaOK(n) ==
  /\ place[n] # "down" => PlanGiven(n)
  /\ held[n] # Nothing <=> place[n] \in {"handling", "responding"}
  /\ held[n] # Nothing => Pending(held[n])
  /\ place[n] = "handling" => executed[held[n]] = 0
  /\ place[n] = "responding" =>
       result[n] \in {"ok", "error"} /\ (result[n] = "ok" => executed[held[n]] = 1)

HeldApart ==
  \A n, o \in Replicas : held[n] = held[o] /\ held[n] # Nothing => n = o

Unsent == \A m \in Messages \ sent : executed[m] = 0 /\ responses[m] = <<>>

RoutedTo(m) ==
  \E cfg \in Configs : \E c \in Planned(cfg) :
    /\ Rpc[m].cluster = c.name /\ Rpc[m].runtime = c.runtime
    /\ Valid(Rpc[m].request) /\ Contract(Rpc[m])

\* ExecutedAsRouted, of one request
Once(m) ==
  /\ executed[m] <= 1 /\ Len(responses[m]) <= 1
  /\ executed[m] = 1 => RoutedTo(m)
  /\ responses[m] = <<"ok">> => executed[m] = 1
  /\ m \in lost => responses[m] = <<>>

IInv ==
  /\ Typed
  /\ InboxConsistent
  /\ \A n \in Replicas : ReplicaOK(n)
  /\ HeldApart
  /\ Unsent
  /\ \A m \in Messages : Once(m)
----------------------------------------------------------------------------
LEMMA InitIInv == Init => IInv
<1> SUFFICES ASSUME Init PROVE IInv
  OBVIOUS
<1> USE DEF Init
<1>1. Typed
  <2>1. inbox \in Seq(Messages)
    OBVIOUS
  <2>2. responses \in [Messages -> Seq({"ok", "error"})]
    OBVIOUS
  <2>3. held \in [Replicas -> Messages \cup {Nothing}]
        /\ result \in [Replicas -> {"ok", "error", Nothing}]
    OBVIOUS
  <2> QED BY <2>1, <2>2, <2>3 DEF Typed
<1>2. InboxConsistent
  BY DEF InboxConsistent
<1>3. \A n \in Replicas : ReplicaOK(n)
  BY DEF ReplicaOK
<1>4. HeldApart /\ Unsent
  BY DEF HeldApart, Unsent
<1>5. ASSUME NEW m \in Messages PROVE Once(m)
  <2>1. executed[m] = 0 /\ responses[m] = <<>> /\ Len(responses[m]) = 0
    OBVIOUS
  <2> QED BY <2>1 DEF Once
<1> QED BY <1>1, <1>2, <1>3, <1>4, <1>5 DEF IInv

\* What a replica's step leaves alone in the others
OthersKept(n) ==
  /\ \A o \in Replicas \ {n} :
       /\ place'[o] = place[o] /\ plan'[o] = plan[o]
       /\ held'[o] = held[o] /\ result'[o] = result[o]

\* A step that touches no request but the one in the replica's hand
LEMMA OthersOK ==
  ASSUME IInv, NEW n \in Replicas, OthersKept(n), sent' = sent,
         \A m \in Messages \ {held[n]} :
           /\ executed'[m] = executed[m] /\ responses'[m] = responses[m]
           /\ m \in lost' <=> m \in lost
  PROVE  \A o \in Replicas \ {n} : ReplicaOK(o)'
<1> SUFFICES ASSUME NEW o \in Replicas \ {n} PROVE ReplicaOK(o)'
  OBVIOUS
<1>1. ReplicaOK(o) /\ place'[o] = place[o] /\ plan'[o] = plan[o]
      /\ held'[o] = held[o] /\ result'[o] = result[o]
  BY DEF IInv, OthersKept
<1>2. PlanGiven(o) => PlanGiven(o)'
  BY <1>1 DEF PlanGiven
<1>3. CASE held[o] = Nothing
  BY <1>1, <1>2, <1>3 DEF ReplicaOK
<1>4. CASE held[o] # Nothing
  <2>1. PICK m \in Messages : m = held[o]
    BY <1>4 DEF IInv, Typed
  <2>2. m # held[n]
    BY <1>4, <2>1 DEF IInv, HeldApart
  <2>3. executed'[m] = executed[m] /\ responses'[m] = responses[m]
        /\ (m \in lost' <=> m \in lost)
    BY <2>2
  <2> QED BY <1>1, <1>2, <1>4, <2>1, <2>3 DEF ReplicaOK, Pending
<1> QED BY <1>3, <1>4

\* A step that moves no request
LEMMA IdleIInv ==
  ASSUME IInv, NEW n \in Replicas, OthersKept(n),
         place' \in [Replicas -> {"down", "batch", "asleep", "handling", "responding"}],
         DOMAIN plan' = Replicas, ReplicaOK(n)',
         UNCHANGED <<held, result, inbox, sent, history, lost>>
  PROVE  IInv'
<1> USE DEF history
<1>1. \A o \in Replicas \ {n} : ReplicaOK(o)'
  BY OthersOK
<1>2. Typed'
  BY DEF IInv, Typed
<1>3. InboxConsistent' /\ HeldApart' /\ Unsent'
  BY DEF IInv, InboxConsistent, HeldApart, Unsent, Pending
<1>4. ASSUME NEW m \in Messages PROVE Once(m)'
  BY DEF IInv, Once, RoutedTo
<1> QED BY <1>1, <1>2, <1>3, <1>4 DEF IInv

LEMMA BootIInv ==
  ASSUME IInv, NEW n \in Replicas, Boot(n)
  PROVE  IInv'
<1>1. PICK cfg \in Configs : \E c \in Planned(cfg) :
        plan' = [plan EXCEPT ![n] = [cluster |-> c.name, runtime |-> c.runtime,
                                     maxBatch |-> cfg.maxBatch]]
  BY DEF Boot
<1>2. PICK c \in Planned(cfg) :
        plan' = [plan EXCEPT ![n] = [cluster |-> c.name, runtime |-> c.runtime,
                                     maxBatch |-> cfg.maxBatch]]
  BY <1>1
<1>3. /\ DOMAIN plan' = Replicas
      /\ plan'[n].cluster = c.name /\ plan'[n].runtime = c.runtime
      /\ \A o \in Replicas \ {n} : plan'[o] = plan[o]
  BY <1>2 DEF IInv, Typed
<1>4. /\ place' \in [Replicas -> {"down", "batch", "asleep", "handling", "responding"}]
      /\ place'[n] = "batch" /\ place[n] = "down"
      /\ \A o \in Replicas \ {n} : place'[o] = place[o]
  BY DEF Boot, IInv, Typed
<1>5. UNCHANGED <<held, result, inbox, sent, history, lost>>
  BY DEF Boot
<1>6. OthersKept(n)
  BY <1>3, <1>4, <1>5 DEF OthersKept
<1>7. PlanGiven(n)'
  BY <1>3 DEF PlanGiven
<1>8. ReplicaOK(n)'
  BY <1>4, <1>5, <1>7 DEF IInv, ReplicaOK
<1> QED BY <1>3, <1>4, <1>5, <1>6, <1>8, IdleIInv

LEMMA WaitIInv ==
  ASSUME IInv, NEW n \in Replicas, EndTick(n) \/ Wake(n)
  PROVE  IInv'
<1>1. PICK there \in {"batch", "asleep"} : place' = [place EXCEPT ![n] = there]
  BY DEF EndTick, Wake
<1>2. /\ place' \in [Replicas -> {"down", "batch", "asleep", "handling", "responding"}]
      /\ place'[n] = there
      /\ \A o \in Replicas \ {n} : place'[o] = place[o]
  BY <1>1 DEF IInv, Typed
<1>3. UNCHANGED <<held, result, inbox, sent, history, lost>> /\ plan' = plan
      /\ place[n] \in {"batch", "asleep"}
  BY DEF EndTick, Wake
<1>4. OthersKept(n) /\ DOMAIN plan' = Replicas
  BY <1>2, <1>3 DEF OthersKept, IInv, Typed
<1>5. ReplicaOK(n)'
  BY <1>2, <1>3 DEF IInv, ReplicaOK, PlanGiven
<1> QED BY <1>2, <1>3, <1>4, <1>5, IdleIInv

LEMMA SendIInv ==
  ASSUME IInv, NEW m \in Messages, Send(m)
  PROVE  IInv'
<1>1. /\ m \notin sent /\ sent' = sent \cup {m} /\ inbox' = Append(inbox, m)
      /\ place' = place /\ held' = held /\ result' = result /\ plan' = plan
      /\ responses' = responses /\ executed' = executed /\ lost' = lost
  BY DEF Send, loop, history
<1>2. inbox \in Seq(Messages) /\ lost \subseteq sent
  BY DEF IInv, Typed
<1>3. /\ Len(inbox) \in Nat /\ Len(inbox') = Len(inbox) + 1
      /\ inbox'[Len(inbox) + 1] = m
      /\ \A i \in 1..Len(inbox) : inbox'[i] = inbox[i]
      /\ inbox' \in Seq(Messages)
  BY <1>1, <1>2
<1>4. Typed'
  BY <1>1, <1>3 DEF IInv, Typed
<1>5. \A x \in Messages : Pending(x) => Pending(x)'
  BY <1>1 DEF Pending
<1>6. Pending(m)' /\ executed[m] = 0
  BY <1>1, <1>2 DEF Pending, IInv, Unsent
<1>7. \A n \in Replicas : held[n] # Nothing => held[n] \in Messages /\ held[n] # m
  BY <1>1 DEF IInv, ReplicaOK, Pending, Typed
<1>8. \A n \in Replicas : held[n] # m
  BY <1>7, RuntimeAssumption
<1>9. ASSUME NEW i \in 1..Len(inbox')
      PROVE  \/ i \in 1..Len(inbox) /\ inbox'[i] = inbox[i] /\ inbox[i] # m
             \/ i = Len(inbox) + 1 /\ inbox'[i] = m
  <2>1. i \in 1..Len(inbox) \/ i = Len(inbox) + 1
    BY <1>3
  <2>2. i \in 1..Len(inbox) => inbox[i] # m
    BY <1>1 DEF IInv, InboxConsistent, Pending
  <2> QED BY <1>3, <2>1, <2>2
<1>10. InboxConsistent'
  <2>1. \A i \in 1..Len(inbox) : inbox[i] \in Messages /\ Pending(inbox[i])
                                 /\ executed[inbox[i]] = 0
    BY <1>2 DEF IInv, InboxConsistent
  <2>2. ASSUME NEW i \in 1..Len(inbox') PROVE Pending(inbox[i])' /\ executed'[inbox'[i]] = 0
    BY <1>1, <1>3, <1>5, <1>6, <1>9, <2>1 DEF Pending
  <2>3. ASSUME NEW i \in 1..Len(inbox'), NEW j \in 1..Len(inbox'), inbox'[i] = inbox'[j]
        PROVE  i = j
    BY <1>9, <2>3 DEF IInv, InboxConsistent
  <2>4. ASSUME NEW n \in Replicas, NEW i \in 1..Len(inbox') PROVE held'[n] # inbox'[i]
    BY <1>1, <1>8, <1>9 DEF IInv, InboxConsistent
  <2> QED BY <2>2, <2>3, <2>4 DEF InboxConsistent
<1>11. ASSUME NEW n \in Replicas PROVE ReplicaOK(n)'
  <2>1. held[n] # Nothing => Pending(held[n]) /\ held[n] \in Messages
    BY DEF IInv, ReplicaOK, Typed
  <2>2. held[n] # Nothing => Pending(held[n])'
    BY <1>1, <2>1 DEF Pending
  <2> QED BY <1>1, <2>2 DEF IInv, ReplicaOK, PlanGiven
<1>12. HeldApart' /\ Unsent'
  BY <1>1 DEF IInv, HeldApart, Unsent
<1>13. ASSUME NEW x \in Messages PROVE Once(x)'
  BY <1>1 DEF IInv, Once, RoutedTo
<1> QED BY <1>4, <1>10, <1>11, <1>12, <1>13 DEF IInv

LEMMA FetchIInv ==
  ASSUME IInv, NEW n \in Replicas, Fetch(n)
  PROVE  IInv'
<1>1. /\ place[n] = "batch" /\ inbox # <<>>
      /\ held' = [held EXCEPT ![n] = Head(inbox)] /\ inbox' = Tail(inbox)
      /\ place' = [place EXCEPT ![n] = "handling"]
      /\ plan' = plan /\ result' = result /\ sent' = sent
      /\ responses' = responses /\ executed' = executed /\ lost' = lost
  BY DEF Fetch, history
<1>2. inbox \in Seq(Messages) /\ Len(inbox) \in Nat /\ Len(inbox) # 0
  BY <1>1 DEF IInv, Typed
<1>3. PICK m \in Messages : m = inbox[1]
  BY <1>2
<1>4. /\ inbox' \in Seq(Messages) /\ Len(inbox') = Len(inbox) - 1
      /\ \A i \in 1..Len(inbox') :
           inbox'[i] = inbox[i + 1] /\ i + 1 \in 1..Len(inbox) /\ i + 1 # 1
  BY <1>1, <1>2
<1>5. held' = [held EXCEPT ![n] = m]
  BY <1>1, <1>2, <1>3
<1>6. /\ place'[n] = "handling" /\ held'[n] = m
      /\ \A o \in Replicas \ {n} : place'[o] = place[o] /\ held'[o] = held[o]
  BY <1>1, <1>5 DEF IInv, Typed
<1>7. Pending(m) /\ executed[m] = 0 /\ \A o \in Replicas : held[o] # m
  <2>1. 1 \in 1..Len(inbox)
    BY <1>2
  <2> QED BY <1>3, <2>1 DEF IInv, InboxConsistent
<1>8. m # Nothing
  BY RuntimeAssumption
<1>9. Typed'
  BY <1>1, <1>4, <1>5 DEF IInv, Typed
<1>10. InboxConsistent'
  <2>1. ASSUME NEW i \in 1..Len(inbox')
        PROVE  /\ Pending(inbox[i])' /\ executed'[inbox'[i]] = 0 /\ inbox'[i] # m
               /\ \A o \in Replicas : held[o] # inbox'[i]
    <3>1. PICK k \in 1..Len(inbox) : k = i + 1 /\ inbox'[i] = inbox[k] /\ k # 1
      BY <1>4
    <3>2. Pending(inbox[k]) /\ executed[inbox[k]] = 0
          /\ \A o \in Replicas : held[o] # inbox[k]
      BY DEF IInv, InboxConsistent
    <3>3. inbox[k] # m
      <4>1. 1 \in 1..Len(inbox)
        BY <1>2
      <4> QED BY <1>3, <3>1, <4>1 DEF IInv, InboxConsistent
    <3> QED BY <1>1, <3>1, <3>2, <3>3 DEF Pending
  <2>2. ASSUME NEW i \in 1..Len(inbox'), NEW j \in 1..Len(inbox'), inbox'[i] = inbox'[j]
        PROVE  i = j
    <3>1. inbox[i + 1] = inbox[j + 1]
      BY <1>4, <2>2
    <3>2. i + 1 = j + 1
      BY <1>4, <3>1 DEF IInv, InboxConsistent
    <3> QED BY <3>2
  <2>3. ASSUME NEW o \in Replicas, NEW i \in 1..Len(inbox') PROVE held'[o] # inbox'[i]
    BY <1>6, <2>1
  <2> QED BY <2>1, <2>2, <2>3 DEF InboxConsistent
<1>11. ReplicaOK(n)'
  BY <1>1, <1>6, <1>7, <1>8 DEF IInv, ReplicaOK, Pending, PlanGiven
<1>12. \A o \in Replicas \ {n} : ReplicaOK(o)'
  BY <1>1, <1>6, OthersOK DEF OthersKept
<1>13. HeldApart'
  BY <1>6, <1>7 DEF IInv, HeldApart
<1>14. Unsent'
  BY <1>1 DEF IInv, Unsent
<1>15. ASSUME NEW x \in Messages PROVE Once(x)'
  BY <1>1 DEF IInv, Once, RoutedTo
<1> QED BY <1>9, <1>10, <1>11, <1>12, <1>13, <1>14, <1>15 DEF IInv

\* Whether it was executed or refused, the request stays in the hand.
LEMMA DecideIInv ==
  ASSUME IInv, NEW n \in Replicas, NEW r \in {"ok", "error"}, place[n] = "handling",
         Decide(n, r), NEW m \in Messages, m = held[n],
         \/ executed' = executed /\ r = "error"
         \/ executed' = [executed EXCEPT ![m] = @ + 1] /\ RoutedTo(m)
  PROVE  IInv'
<1>1. /\ result' = [result EXCEPT ![n] = r]
      /\ place' = [place EXCEPT ![n] = "responding"]
      /\ plan' = plan /\ held' = held /\ inbox' = inbox /\ sent' = sent
      /\ responses' = responses /\ lost' = lost
  BY DEF Decide
<1>2. executed[m] = 0 /\ Pending(m) /\ m # Nothing
  BY RuntimeAssumption DEF IInv, ReplicaOK
<1>3. executed \in [Messages -> Nat]
  BY DEF IInv, Typed
<1>4. /\ executed' \in [Messages -> Nat]
      /\ \A x \in Messages \ {m} : executed'[x] = executed[x]
      /\ \/ executed'[m] = 0 /\ r = "error"
         \/ executed'[m] = 1 /\ RoutedTo(m)
  <2>1. CASE executed' = executed /\ r = "error"
    BY <1>2, <1>3, <2>1
  <2>2. CASE executed' = [executed EXCEPT ![m] = @ + 1] /\ RoutedTo(m)
    BY <1>2, <1>3, <2>2
  <2> QED BY <2>1, <2>2
<1>5. Typed'
  BY <1>1, <1>4 DEF IInv, Typed
<1>6. InboxConsistent'
  <2>1. \A i \in 1..Len(inbox) : inbox[i] \in Messages /\ inbox[i] # m
    BY DEF IInv, Typed, InboxConsistent
  <2> QED BY <1>1, <1>4, <2>1 DEF IInv, InboxConsistent, Pending
<1>7. /\ place'[n] = "responding" /\ result'[n] = r
      /\ \A o \in Replicas \ {n} : place'[o] = place[o] /\ result'[o] = result[o]
  BY <1>1 DEF IInv, Typed
<1>8. ReplicaOK(n)'
  BY <1>1, <1>2, <1>4, <1>7 DEF IInv, ReplicaOK, Pending, PlanGiven
<1>9. \A o \in Replicas \ {n} : ReplicaOK(o)'
  BY <1>1, <1>4, <1>7, OthersOK DEF OthersKept
<1>10. HeldApart'
  BY <1>1 DEF IInv, HeldApart
<1>11. Unsent'
  BY <1>1, <1>2, <1>4 DEF IInv, Unsent, Pending
<1>12. ASSUME NEW x \in Messages PROVE Once(x)'
  <2>1. CASE x = m
    <3>1. responses[m] = <<>> /\ Len(responses[m]) = 0 /\ m \notin lost
      BY <1>2 DEF Pending
    <3>2. executed'[m] <= 1 /\ (executed'[m] = 1 => RoutedTo(m))
      BY <1>4
    <3> QED BY <1>1, <2>1, <3>1, <3>2 DEF Once, RoutedTo
  <2>2. CASE x # m
    BY <1>1, <1>4, <2>2 DEF IInv, Once, RoutedTo
  <2> QED BY <2>1, <2>2
<1> QED BY <1>5, <1>6, <1>8, <1>9, <1>10, <1>11, <1>12 DEF IInv

LEMMA HandlingHolds ==
  ASSUME IInv, NEW n \in Replicas, place[n] \in {"handling", "responding"}
  PROVE  held[n] \in Messages /\ PlanGiven(n)
BY DEF IInv, ReplicaOK, Typed

LEMMA RefuseRpcIInv ==
  ASSUME IInv, NEW n \in Replicas, RefuseRpc(n)
  PROVE  IInv'
<1>1. place[n] = "handling" /\ Decide(n, "error") /\ executed' = executed
  BY DEF RefuseRpc
<1>2. PICK m \in Messages : m = held[n]
  BY <1>1, HandlingHolds
<1> QED BY <1>1, <1>2, DecideIInv

LEMMA ExecuteRpcIInv ==
  ASSUME IInv, NEW n \in Replicas, ExecuteRpc(n)
  PROVE  IInv'
<1>1. place[n] = "handling" /\ Accepts(plan[n], Rpc[held[n]])
      /\ (Decide(n, "ok") \/ Decide(n, "error"))
  BY DEF ExecuteRpc
<1>2. PICK m \in Messages : m = held[n]
  BY <1>1, HandlingHolds
<1>3. executed' = [executed EXCEPT ![m] = @ + 1]
  BY <1>2 DEF ExecuteRpc
<1>4. RoutedTo(m)
  BY <1>1, <1>2, HandlingHolds DEF Accepts, RoutedTo, PlanGiven
<1>5. CASE Decide(n, "ok")
  BY <1>1, <1>2, <1>3, <1>4, <1>5, DecideIInv
<1>6. CASE Decide(n, "error")
  BY <1>1, <1>2, <1>3, <1>4, <1>6, DecideIInv
<1> QED BY <1>1, <1>5, <1>6

\* The request leaves the hand, answered or lost.
LEMMA LetGoIInv ==
  ASSUME IInv, NEW n \in Replicas, NEW there \in {"batch", "down"},
         held' = [held EXCEPT ![n] = Nothing],
         result' = [result EXCEPT ![n] = Nothing],
         place' = [place EXCEPT ![n] = there],
         there = "batch" => place[n] # "down",
         plan' = plan, inbox' = inbox, sent' = sent, executed' = executed,
         responses' \in [Messages -> Seq({"ok", "error"})], lost' \subseteq sent,
         \A m \in Messages \ {held[n]} :
           responses'[m] = responses[m] /\ (m \in lost' <=> m \in lost),
         \A m \in Messages : m = held[n] => m \in sent /\ Once(m)'
  PROVE  IInv'
<1>1. Typed'
  BY DEF IInv, Typed
<1>2. InboxConsistent'
  <2>1. \A i \in 1..Len(inbox) : inbox[i] \in Messages /\ inbox[i] # held[n]
    BY DEF IInv, Typed, InboxConsistent
  <2>2. \A i \in 1..Len(inbox) : Pending(inbox[i])'
    BY <2>1 DEF IInv, InboxConsistent, Pending
  <2>3. \A o \in Replicas : \A i \in 1..Len(inbox) : held'[o] # inbox[i]
    <3>1. \A i \in 1..Len(inbox) : inbox[i] # Nothing
      BY <2>1, RuntimeAssumption
    <3> QED BY <3>1 DEF IInv, Typed, InboxConsistent
  <2> QED BY <2>2, <2>3 DEF IInv, InboxConsistent, Pending
<1>3. /\ place'[n] = there /\ held'[n] = Nothing
      /\ \A o \in Replicas \ {n} :
           place'[o] = place[o] /\ held'[o] = held[o] /\ result'[o] = result[o]
  BY DEF IInv, Typed
<1>4. ReplicaOK(n)'
  BY <1>3 DEF IInv, ReplicaOK, PlanGiven
<1>5. \A o \in Replicas \ {n} : ReplicaOK(o)'
  BY <1>3, OthersOK DEF OthersKept
<1>6. HeldApart'
  BY <1>3 DEF IInv, HeldApart
<1>7. Unsent'
  BY DEF IInv, Unsent
<1>8. ASSUME NEW m \in Messages PROVE Once(m)'
  BY DEF IInv, Once, RoutedTo
<1> QED BY <1>1, <1>2, <1>4, <1>5, <1>6, <1>7, <1>8 DEF IInv

LEMMA RespondIInv ==
  ASSUME IInv, NEW n \in Replicas, Respond(n)
  PROVE  IInv'
<1>1. PICK m \in Messages : m = held[n]
  BY HandlingHolds DEF Respond
<1>2. PICK r \in {"ok", "error"} : r = result[n] /\ (r = "ok" => executed[m] = 1)
  BY <1>1 DEF IInv, ReplicaOK, Respond
<1>3. /\ responses' = [responses EXCEPT ![m] = Append(@, r)]
      /\ place[n] = "responding"
      /\ held' = [held EXCEPT ![n] = Nothing] /\ result' = [result EXCEPT ![n] = Nothing]
      /\ place' = [place EXCEPT ![n] = "batch"]
      /\ plan' = plan /\ inbox' = inbox /\ sent' = sent /\ executed' = executed
      /\ lost' = lost
  BY <1>1, <1>2 DEF Respond
<1>4. Pending(m) /\ Once(m)
  <2>1. m # Nothing
    BY RuntimeAssumption
  <2> QED BY <1>1, <2>1 DEF IInv, ReplicaOK
<1>5. responses \in [Messages -> Seq({"ok", "error"})] /\ lost \subseteq sent
  BY DEF IInv, Typed
<1>6. /\ responses' \in [Messages -> Seq({"ok", "error"})]
      /\ \A x \in Messages \ {m} : responses'[x] = responses[x]
      /\ responses'[m] = Append(responses[m], r)
  BY <1>3, <1>5
<1>7. responses'[m] = <<r>> /\ Len(responses'[m]) = 1
  BY <1>4, <1>6 DEF Pending
<1>8. responses'[m] = <<"ok">> => executed[m] = 1
  <2>1. <<r>>[1] = r /\ <<"ok">>[1] = "ok"
    OBVIOUS
  <2> QED BY <1>2, <1>7, <2>1
<1>9. Once(m)' /\ m \in sent
  BY <1>3, <1>4, <1>7, <1>8 DEF Once, Pending, RoutedTo
<1> QED BY <1>1, <1>3, <1>5, <1>6, <1>9, LetGoIInv

LEMMA CrashIInv ==
  ASSUME IInv, NEW n \in Replicas, Crash(n)
  PROVE  IInv'
<1>1. /\ held' = [held EXCEPT ![n] = Nothing] /\ result' = [result EXCEPT ![n] = Nothing]
      /\ place' = [place EXCEPT ![n] = "down"]
      /\ lost' = lost \cup ({held[n]} \ {Nothing})
      /\ plan' = plan /\ inbox' = inbox /\ sent' = sent /\ executed' = executed
      /\ responses' = responses
  BY DEF Crash, history
<1>2. responses \in [Messages -> Seq({"ok", "error"})] /\ lost \subseteq sent
  BY DEF IInv, Typed
<1>3. ASSUME NEW m \in Messages, m = held[n] PROVE m \in sent /\ Once(m)'
  <2>1. Pending(m) /\ Once(m)
    BY <1>3, RuntimeAssumption DEF IInv, ReplicaOK
  <2> QED BY <1>1, <2>1 DEF Once, Pending, RoutedTo
<1>4. lost' \subseteq sent
  BY <1>1, <1>2, <1>3 DEF IInv, Typed
<1>5. \A m \in Messages \ {held[n]} : m \in lost' <=> m \in lost
  BY <1>1
<1> QED BY <1>1, <1>2, <1>3, <1>4, <1>5, LetGoIInv
----------------------------------------------------------------------------
LEMMA NextIInv == IInv /\ [Next]_vars => IInv'
<1> SUFFICES ASSUME IInv, [Next]_vars PROVE IInv'
  OBVIOUS
<1>1. ASSUME NEW n \in Replicas,
             Boot(n) \/ RefuseBoot(n) \/ LoopStep(n) \/ Crash(n), ~UNCHANGED vars
      PROVE  IInv'
  BY <1>1, BootIInv, WaitIInv, FetchIInv, RefuseRpcIInv, ExecuteRpcIInv, RespondIInv,
     CrashIInv DEF LoopStep, RefuseBoot
<1>2. ASSUME NEW m \in Messages, Send(m) PROVE IInv'
  BY <1>2, SendIInv
<1>3. CASE UNCHANGED vars
  <2>1. UNCHANGED <<place, plan, held, result, inbox, sent, responses, executed, lost>>
    BY <1>3 DEF vars
  <2>2. Typed' /\ InboxConsistent'
    BY <2>1 DEF IInv, Typed, InboxConsistent, Pending
  <2>3. \A n \in Replicas : ReplicaOK(n)'
    BY <2>1 DEF IInv, ReplicaOK, PlanGiven, Pending
  <2>4. HeldApart' /\ Unsent'
    BY <2>1 DEF IInv, HeldApart, Unsent
  <2>5. \A m \in Messages : Once(m)'
    BY <2>1 DEF IInv, Once, RoutedTo
  <2> QED BY <2>2, <2>3, <2>4, <2>5 DEF IInv
<1> QED BY <1>1, <1>2, <1>3 DEF Next

\* Whoever executed a request was planned for its cluster and runtime.
CarriersFit ==
  /\ DOMAIN carriers = Messages
  /\ \A m \in Messages : \A p \in carriers[m] :
       p.cluster = Rpc[m].cluster /\ p.runtime = Rpc[m].runtime

LEMMA NextCarriersFit == CarriersFit /\ [Next]_vars => CarriersFit'
<1> SUFFICES ASSUME CarriersFit, [Next]_vars PROVE CarriersFit'
  OBVIOUS
<1>1. ASSUME NEW n \in Replicas, ExecuteRpc(n) PROVE CarriersFit'
  <2>1. /\ carriers' = [carriers EXCEPT ![held[n]] = @ \cup {plan[n]}]
        /\ plan[n].cluster = Rpc[held[n]].cluster /\ plan[n].runtime = Rpc[held[n]].runtime
    BY <1>1 DEF ExecuteRpc, Accepts
  <2> QED BY <2>1 DEF CarriersFit
<1>2. CASE carriers' = carriers
  BY <1>2 DEF CarriersFit
<1>3. ASSUME NEW n \in Replicas,
             \/ Boot(n) \/ RefuseBoot(n) \/ Crash(n) \/ Fetch(n) \/ EndTick(n)
             \/ Wake(n) \/ RefuseRpc(n) \/ Respond(n)
      PROVE  carriers' = carriers
  BY <1>3 DEF Boot, RefuseBoot, Crash, Fetch, EndTick, Wake, RefuseRpc, Respond,
     history, vars
<1>4. ASSUME NEW m \in Messages, Send(m) PROVE carriers' = carriers
  BY <1>4 DEF Send, history
<1>5. UNCHANGED vars => carriers' = carriers
  BY DEF vars
<1> QED BY <1>1, <1>2, <1>3, <1>4, <1>5 DEF Next, LoopStep

(* However many replicas share the inbox, whatever configurations they are   *)
(* started with and whenever they die: a request is executed only by a       *)
(* replica planned for its cluster and runtime and with the body that was    *)
(* prepared; handed out once it is executed at most once, it has at most one *)
(* response, and none says "ok" of what was not executed.                    *)
THEOREM AlwaysExecutedAsRouted == Spec => []ExecutedAsRouted
<1>1. IInv /\ CarriersFit => ExecutedAsRouted
  BY DEF IInv, Once, RoutedTo, CarriersFit, ExecutedAsRouted
<1>2. Init => CarriersFit
  BY DEF Init, CarriersFit
<1> QED BY <1>1, <1>2, InitIInv, NextIInv, NextCarriersFit, PTL DEF Spec
=============================================================================
