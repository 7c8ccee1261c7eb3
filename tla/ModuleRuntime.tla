---------------------------- MODULE ModuleRuntime ----------------------------
(***************************************************************************)
(* The module runtime (bladb-module-runtime): replicas, each started for   *)
(* one cluster from its configuration and the topology (build_plan) and    *)
(* then taking requests in batches from an inbox (serve_blocking,          *)
(* run_tick, run_batch), checking each against its plan, executing it with *)
(* an adapter and sending the response (handle_rpc).                       *)
(*                                                                         *)
(* The inbox (ModuleRpcInbox) and the adapters (ModuleAdapter) are traits  *)
(* whose implementations are not in the repository: an adapter succeeds or *)
(* fails, and the inbox gives a request to one replica, once, but to any,  *)
(* also to one of another cluster than the request was routed to.  A       *)
(* replica may die between any two steps, a panic of an adapter included.  *)
(* run_one, run_until_empty and run_cycles are the same batch with other   *)
(* limits.                                                                 *)
(***************************************************************************)
EXTENDS GatewayPolicy

CONSTANTS
  Replicas,
  Configs,      \* the configurations replicas are started with
  Messages,
  Rpc,          \* the ModuleRpcRequest of each message
  Adapters,     \* the runtimes there is an adapter for
  MaxCrashes    \* bound: replicas that die

VARIABLES
  place,      \* where a replica's loop stands
  plan,       \* its plan
  held,       \* the request it has in hand
  result,     \* the response it is about to send
  processed,  \* requests of its current batch
  inbox,
  sent,       \* requests that were sent
  responses,  \* history: the responses to each request
  executed,   \* history: how often an adapter executed each
  carriers,   \* history: the plans of the replicas that executed it
  lost,       \* history: requests in the hand of a replica that died
  crashes

loop == <<place, held, result, processed>>
history == <<responses, executed, carriers>>
vars == <<place, plan, held, result, processed, inbox, sent, responses, executed,
          carriers, lost, crashes>>

Nothing == "nothing"
Unplanned == [cluster |-> Absent]

ASSUME RuntimeAssumption ==
  /\ Nothing \notin Messages
  /\ MaxCrashes \in Nat

\* build_plan
Planned(cfg) ==
  {c \in Members(cfg.topology) :
     /\ ValidTopology(cfg.topology)
     /\ c.name = cfg.cluster
     /\ c.category # "worker"
     /\ cfg.adapterRuntime \in {Absent, c.runtime}
     /\ c.protocol \in {"natsService", "jetStream"} => cfg.natsUrl # Absent}

Init ==
  /\ place = [n \in Replicas |-> "down"]
  /\ plan = [n \in Replicas |-> Unplanned]
  /\ held = [n \in Replicas |-> Nothing]
  /\ result = [n \in Replicas |-> Nothing]
  /\ processed = [n \in Replicas |-> 0]
  /\ inbox = <<>> /\ sent = {} /\ lost = {} /\ crashes = 0
  /\ responses = [m \in Messages |-> <<>>]
  /\ executed = [m \in Messages |-> 0]
  /\ carriers = [m \in Messages |-> {}]

Boot(n) ==
  /\ place[n] = "down"
  /\ \E cfg \in Configs : \E c \in Planned(cfg) :
       plan' = [plan EXCEPT ![n] = [cluster |-> c.name, runtime |-> c.runtime,
                                    maxBatch |-> cfg.maxBatch]]
  /\ place' = [place EXCEPT ![n] = "batch"]
  /\ processed' = [processed EXCEPT ![n] = 0]
  /\ UNCHANGED <<held, result, inbox, sent, history, lost, crashes>>

\* A configuration that gives no plan ends the process.
RefuseBoot(n) ==
  /\ place[n] = "down"
  /\ \E cfg \in Configs : Planned(cfg) = {}
  /\ UNCHANGED vars

Send(m) ==
  /\ m \notin sent
  /\ sent' = sent \cup {m}
  /\ inbox' = Append(inbox, m)
  /\ UNCHANGED <<loop, plan, history, lost, crashes>>
----------------------------------------------------------------------------
BatchAsConfigured(n) == plan[n].maxBatch

\* run_tick: a batch takes at least one request.
BatchSize(n) == IF plan[n].maxBatch > 1 THEN plan[n].maxBatch ELSE 1

\* run_batch, next_request
Fetch(n) ==
  /\ place[n] = "batch"
  /\ processed[n] < BatchSize(n)
  /\ inbox # <<>>
  /\ held' = [held EXCEPT ![n] = Head(inbox)]
  /\ inbox' = Tail(inbox)
  /\ place' = [place EXCEPT ![n] = "handling"]
  /\ UNCHANGED <<plan, result, processed, sent, history, lost, crashes>>

\* The end of a batch, and the sleep of a replica that found nothing
EndTick(n) ==
  /\ place[n] = "batch"
  /\ processed[n] >= BatchSize(n) \/ inbox = <<>>
  /\ place' = [place EXCEPT ![n] = IF processed[n] = 0 THEN "asleep" ELSE "batch"]
  /\ processed' = [processed EXCEPT ![n] = 0]
  /\ UNCHANGED <<plan, held, result, inbox, sent, history, lost, crashes>>

Wake(n) ==
  /\ place[n] = "asleep"
  /\ place' = [place EXCEPT ![n] = "batch"]
  /\ UNCHANGED <<plan, held, result, processed, inbox, sent, history, lost, crashes>>

\* validate_prepared_contract
Contract(rpc) ==
  \A f \in {"statement", "collection", "queue", "delayMs"} :
    /\ f \in DOMAIN rpc.request.body <=> f \in DOMAIN rpc.body
    /\ f \in DOMAIN rpc.body => rpc.request.body[f] = rpc.body[f]

AcceptsAnyCluster(p, rpc) ==
  Valid(rpc.request) /\ rpc.runtime = p.runtime /\ Contract(rpc)

\* handle_rpc, the checks before the adapter
Accepts(p, rpc) ==
  /\ Valid(rpc.request)
  /\ rpc.cluster = p.cluster
  /\ rpc.runtime = p.runtime
  /\ Contract(rpc)

Decide(n, r) ==
  /\ result' = [result EXCEPT ![n] = r]
  /\ place' = [place EXCEPT ![n] = "responding"]
  /\ UNCHANGED <<plan, held, processed, inbox, sent, responses, lost, crashes>>

RefuseRpc(n) ==
  /\ place[n] = "handling"
  /\ ~Accepts(plan[n], Rpc[held[n]]) \/ plan[n].runtime \notin Adapters
  /\ Decide(n, "error")
  /\ UNCHANGED <<executed, carriers>>

\* AdapterRegistry::execute
ExecuteRpc(n) ==
  /\ place[n] = "handling"
  /\ Accepts(plan[n], Rpc[held[n]])
  /\ plan[n].runtime \in Adapters
  /\ executed' = [executed EXCEPT ![held[n]] = @ + 1]
  /\ carriers' = [carriers EXCEPT ![held[n]] = @ \cup {plan[n]}]
  /\ Decide(n, "ok") \/ Decide(n, "error")

\* run_batch, send_response
Respond(n) ==
  /\ place[n] = "responding"
  /\ responses' = [responses EXCEPT ![held[n]] = Append(@, result[n])]
  /\ processed' = [processed EXCEPT ![n] = @ + 1]
  /\ held' = [held EXCEPT ![n] = Nothing]
  /\ result' = [result EXCEPT ![n] = Nothing]
  /\ place' = [place EXCEPT ![n] = "batch"]
  /\ UNCHANGED <<plan, inbox, sent, executed, carriers, lost, crashes>>

\* What a replica held goes with it; the inbox keeps what it did not take.
Crash(n) ==
  /\ place[n] # "down"
  /\ crashes < MaxCrashes
  /\ crashes' = crashes + 1
  /\ lost' = lost \cup ({held[n]} \ {Nothing})
  /\ place' = [place EXCEPT ![n] = "down"]
  /\ held' = [held EXCEPT ![n] = Nothing]
  /\ result' = [result EXCEPT ![n] = Nothing]
  /\ processed' = [processed EXCEPT ![n] = 0]
  /\ UNCHANGED <<plan, inbox, sent, history>>

LoopStep(n) ==
  Fetch(n) \/ EndTick(n) \/ Wake(n) \/ RefuseRpc(n) \/ ExecuteRpc(n) \/ Respond(n)

Next ==
  \/ \E m \in Messages : Send(m)
  \/ \E n \in Replicas : Boot(n) \/ RefuseBoot(n) \/ LoopStep(n) \/ Crash(n)

Spec == Init /\ [][Next]_vars

\* The loop of a live replica runs on, and the deployment keeps its replicas
\* up (deployment.replicas); nothing makes a request be sent.
FairSpec == Spec /\ \A n \in Replicas : WF_vars(LoopStep(n)) /\ WF_vars(Boot(n))
----------------------------------------------------------------------------
(* Whichever replica of whichever cluster the inbox gives a request to and *)
(* whenever one dies, a request is executed only by a replica of the       *)
(* cluster and runtime it was routed to, planned from some configuration,  *)
(* and as its contract asks; a replica that is handed it once executes it  *)
(* once, responds once, and with success only if it was executed           *)
(* (handle_rpc, run_batch).                                                *)
ExecutedAsRouted ==
  \A m \in Messages :
    /\ \A p \in carriers[m] : p.cluster = Rpc[m].cluster /\ p.runtime = Rpc[m].runtime
    /\ executed[m] <= 1 /\ Len(responses[m]) <= 1
    /\ executed[m] = 1 =>
         \E cfg \in Configs : \E c \in Planned(cfg) :
           /\ Rpc[m].cluster = c.name /\ Rpc[m].runtime = c.runtime
           /\ Valid(Rpc[m].request) /\ Contract(Rpc[m])
    /\ responses[m] = <<"ok">> => executed[m] = 1
    /\ m \in lost => responses[m] = <<>>

(* A request that was sent is answered, an error being an answer, unless   *)
(* the replica that took it died with it in hand; a configured batch of    *)
(* none included (run_tick, serve_blocking).                               *)
RequestsAnswered ==
  \A m \in Messages : m \in sent ~> (responses[m] # <<>> \/ m \in lost)
=============================================================================
