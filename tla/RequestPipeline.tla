--------------------------- MODULE RequestPipeline ---------------------------
(***************************************************************************)
(* A gateway process from its start to the requests it serves: the start   *)
(* from a configuration file (StartupConfig, Manifests), and for each      *)
(* request the gateway of the caller's app that allows it, the body it     *)
(* prepares (GatewayPolicy), the cluster and shard its policy is routed to *)
(* (routing.rs) and the module that executes it (runtime.rs).              *)
(*                                                                         *)
(* All of it is read-only after the start, so a request is one step        *)
(* whatever the other threads do.  The hash of a route key may be any      *)
(* number: that equal keys have equal hashes is a promise of the standard  *)
(* library, and no property rests on it.                                   *)
(***************************************************************************)
EXTENDS GatewayPolicy, StartupConfig

CONSTANTS
  Files,       \* configuration files, by path
  Launches,    \* how it may be started: args, env and the bladb.yml found
  Callers,     \* sessions: app and identity
  Requests,
  HashValues   \* bound: the hashes a route key may have

Nobody == [app |-> "nobody"]
NoAnswer == [status |-> 0]

ASSUME PipelineAssumption ==
  /\ HashValues \subseteq Nat
  /\ Nobody \notin Callers
  /\ \A path \in DOMAIN Files : \A g \in Members(Files[path].runtimes) :
       \A c \in Members(g.clusters) : c.virtualShards \in Nat

\* What a user or a configuration says of a caller are plain values.
ASSUME IdentityAssumption ==
  \A auth \in {c.auth : c \in Callers} \cup
              UNION {{g.auth : g \in Members(Files[path].runtimes)} : path \in DOMAIN Files} :
    \A c \in DOMAIN auth : auth[c] = Missing \/ auth[c].kind \in {"lit", "list"}

\* The leaves of a body, as a client can send them
ASSUME RequestAssumption ==
  \A r \in Requests : \A f \in DOMAIN r.body \ Copied : \A path \in DOMAIN r.body[f] :
    r.body[f][path].kind \in {"lit", "list", "arg", "ctx", "template"}

VARIABLES
  process,   \* down or running
  file,      \* the path of the file it was started from, or the latest was
  answer     \* the answer to the latest request

pipelineVars == <<process, file, answer>>

Running == Files[file]
Gateways == Running.runtimes

PipelineInit ==
  /\ process = "down"
  /\ file = Absent
  /\ answer = NoAnswer

\* serve: a refused start leaves no process; the file may be another one.
Start(launch) ==
  LET path == ConfigPath(launch.args, launch.env, launch.found) IN
  /\ process = "down"
  /\ CommandGiven(launch.args)
  /\ path \in DOMAIN Files
  /\ Starts(Files[path])
  /\ process' = "running"
  /\ file' = path
  /\ UNCHANGED answer

RefuseStart(launch) ==
  LET path == ConfigPath(launch.args, launch.env, launch.found) IN
  /\ process = "down"
  /\ CommandGiven(launch.args)
  /\ path \in DOMAIN Files => ~Starts(Files[path])
  /\ answer' = [status |-> 1]
  /\ UNCHANGED <<process, file>>

PanicAtStart(launch) ==
  /\ process = "down"
  /\ ~CommandGiven(launch.args)
  /\ answer' = [status |-> 101]
  /\ UNCHANGED <<process, file>>

Stop ==
  /\ process = "running"
  /\ process' = "down"
  /\ answer' = NoAnswer
  /\ UNCHANGED file
----------------------------------------------------------------------------
\* A session is served by the gateways of its app; nobody by all of them.
ServesAnyApp(g, caller) == TRUE
Serves(g, caller) == caller = Nobody \/ caller.app = g.name

\* The identity a request is prepared for
Identity(g, caller) == IF caller = Nobody THEN g.auth ELSE caller.auth

\* An operation the protocol does not have ends the search as a match does.
FirstGateway(caller, r) ==
  LET hits == {i \in DOMAIN Gateways :
                 /\ Serves(Gateways[i], caller)
                 /\ Valid(r) => Authorized(Gateways[i].policies, r) # {}}
  IN {Gateways[i] : i \in {p \in hits : \A q \in hits : p <= q}}

\* ModuleRegistry::resolve: the cluster that lists the policy
ClusterOf(g, policy) ==
  {c \in Members(g.clusters) : policy.name \in Members(c.policies)}

\* What serde writes for an Option that is None
Null == Leaf("lit", "null")

\* read_path in a JSON value: an object or an array is no scalar, and what is
\* not there is missing.
AtPath(leaves, path) == IF path \in DOMAIN leaves THEN leaves[path] ELSE Failed

\* ... in a body: the field, and the way on from there
BodyField(body, path) ==
  LET field == Head(path) IN
  CASE field \notin BodyFields -> Failed
    [] field \in BodyFields \ DOMAIN body ->
         IF Len(path) = 1 /\ field # "values" THEN Null ELSE Failed
    [] field \in DOMAIN body \cap Copied ->
         IF Len(path) = 1 THEN Leaf("lit", body[field]) ELSE Failed
    [] OTHER -> AtPath(body[field], Tail(path))

\* ... in the request, of which the body is the rest
RequestField(r, path) ==
  CASE path[1] \in {"kind", "engine", "action"} ->
         IF Len(path) = 1 THEN Leaf("lit", r[path[1]]) ELSE Failed
    [] path[1] = "meta" ->
         CASE Len(path) > 2 /\ path[2] = "params" -> AtPath(r.params, SubSeq(path, 3, Len(path)))
           [] Len(path) = 2 /\ path[2] \in {"policy", "resource", "traceId"} ->
                IF r[path[2]] = Absent THEN Null ELSE Leaf("lit", r[path[2]])
           [] OTHER -> Failed
    [] OTHER -> BodyField(r.body, path)

\* derive_route_key: the context a field of routeBy is read in
RouteField(path, r, body, auth) ==
  CASE Len(path) = 2 /\ path[1] = "actor" /\ path[2] \in DOMAIN auth ->
         IF auth[path[2]] = Missing THEN Null ELSE auth[path[2]]
    [] Len(path) > 1 /\ path[1] = "request"  -> RequestField(r, Tail(path))
    [] Len(path) > 2 /\ path[1] = "prepared" /\ path[2] = "body" ->
         BodyField(body, SubSeq(path, 3, Len(path)))
    [] path[1] = "event" -> BodyField(body, <<"payload">> \o Tail(path))
    [] OTHER -> Failed

\* derive_route_key: every field of routeBy, each a scalar
RouteKey(c, r, body, auth) ==
  [i \in DOMAIN c.routeBy |-> RouteField(c.routeBy[i], r, body, auth)]

Routable(c, r, key) ==
  /\ c.runtime = r.engine
  /\ \A i \in DOMAIN key : key[i].kind \in {"lit", "text", "arg"}

Refuse(code) ==
  /\ answer' = [status |-> code]
  /\ UNCHANGED <<process, file>>

\* route_to_shard, for a hash strategy; no shard for another
Shards(c) ==
  IF c.strategy = "hash" THEN {{h % c.virtualShards} : h \in HashValues} ELSE {{}}

\* resolve_execution_with_session; to inspect a request no module is needed.
Dispatch(caller, r, g, policy, inspect) ==
  LET auth == Identity(g, caller)
      body == PreparedBody(r, auth)
      Key(c) == RouteKey(c, r, body, auth)
      targets == {c \in ClusterOf(g, policy) : Routable(c, r, Key(c))}
  IN
  \/ ~Prepares(body) /\ Refuse(400)
  \/ Prepares(body) /\ targets = {} /\ Refuse(500)
  \/ /\ Prepares(body)
     /\ \E c \in targets : \E shard \in Shards(c) :
          answer' =
            IF inspect \/ c.family \in Running.modules
              THEN [status |-> 200, caller |-> caller, request |-> r, body |-> body,
                    policy |-> policy.name, cluster |-> c.name, shard |-> shard]
              ELSE [status |-> 500]
     /\ UNCHANGED <<process, file>>

\* POST of a request by a session, or of nobody through handle_execute
Serve(caller, r, inspect) ==
  /\ process = "running"
  /\ \/ FirstGateway(caller, r) = {} /\ Refuse(403)
     \/ ~Valid(r) /\ FirstGateway(caller, r) # {} /\ Refuse(400)
     \/ /\ Valid(r)
        /\ \E g \in FirstGateway(caller, r) : \E p \in Authorized(g.policies, r) :
             Dispatch(caller, r, g, p, inspect)

Execute(caller, r) == Serve(caller, r, FALSE)
Inspect(caller, r) == Serve(caller, r, TRUE)

\* A token the user module does not know
RefuseToken == process = "running" /\ Refuse(401)

PipelineNext ==
  \/ \E launch \in Launches : Start(launch) \/ RefuseStart(launch) \/ PanicAtStart(launch)
  \/ Stop
  \/ \E c \in Callers \cup {Nobody}, r \in Requests : Execute(c, r) \/ Inspect(c, r)
  \/ RefuseToken

PipelineSpec == PipelineInit /\ [][PipelineNext]_pipelineVars
----------------------------------------------------------------------------
OwnIdentity(a, g) == IF a.caller = Nobody THEN g.auth ELSE a.caller.auth

UnderPolicy(a, g) ==
  LET allowing == {p \in Members(g.policies) : p.name = a.policy}
      listing  == {c \in Members(g.clusters) : a.policy \in Members(c.policies)}
  IN
  /\ a.caller # Nobody => g.name = a.caller.app
  /\ \E p \in allowing : PolicyMatches(p, a.request)
  /\ {c.name : c \in listing} = {a.cluster}
  /\ \A c \in listing :
       /\ c.runtime = a.request.engine
       /\ a.shard \subseteq 0 .. c.virtualShards - 1
       /\ c.strategy = "hash" <=> a.shard # {}

\* No field of the prepared body is left open, and none is another's.
BodyOwn(a, auth) ==
  \A f \in DOMAIN a.body \ Copied : \A path \in DOMAIN a.body[f] :
    LET asked == a.request.body[f][path]
        given == a.body[f][path]
    IN /\ given.kind \notin {"ctx", "template", "missing"}
       /\ asked.kind = "ctx" => given = auth[asked.value]

(* A request reaches a module only under a policy that allows it, of a     *)
(* gateway of the caller's own app, on the one cluster that lists that     *)
(* policy, which runs the request's engine, on a shard it has if it is     *)
(* hashed, and what the body binds to the caller is the caller's own,      *)
(* whichever gateways were asked before (resolve_execution_with_session,   *)
(* authorize, prepare, resolve, validate_routing).                         *)
ServedUnderPolicy ==
  answer.status = 200 =>
    \E g \in Members(Gateways) : UnderPolicy(answer, g) /\ BodyOwn(answer, OwnIdentity(answer, g))
=============================================================================
