--------------------------- MODULE MCModuleRuntime ---------------------------
(***************************************************************************)
(* Instance of ModuleRuntime for TLC: two replicas, either of which may be *)
(* started for one of two clusters of the same runtime, with batches of    *)
(* none or two, or from one of five configurations that are refused; a     *)
(* request for each cluster and one whose body is not the prepared one.    *)
(***************************************************************************)
EXTENDS ModuleRuntime

Cluster(name, category, protocol) ==
  [name |-> name, category |-> category, runtime |-> "sql", policies |-> <<"p">>,
   strategy |-> "single", virtualShards |-> 0, routeBy |-> <<>>, protocol |-> protocol,
   subject |-> "rpc.orders", stream |-> Absent, replicas |-> 2,
   autoscale |-> {[min |-> 1, max |-> 2]}]

Config(max, cluster, adapter, url, topology) ==
  [maxBatch |-> max, cluster |-> cluster, adapterRuntime |-> adapter, natsUrl |-> url,
   topology |-> topology]

Orders == <<Cluster("orders", "data", "natsService")>>
Both == Orders \o <<[Cluster("items", "data", "natsService") EXCEPT
                      !.policies = <<"q">>, !.subject = "rpc.items"]>>

MCConfigs ==
  {Config(0, "orders", "sql", "url", Orders),
   Config(2, "items", Absent, "url", Both),
   Config(2, "unknown", Absent, "url", Orders),
   Config(2, "orders", "mongo", "url", Orders),
   Config(2, "orders", Absent, Absent, Orders),
   Config(2, "orders", Absent, "url", <<Cluster("orders", "worker", "direct")>>),
   Config(2, "orders", Absent, "url", <<Cluster("orders", "data", "jetStream")>>)}

Words == <<"select", "from", "orders">>
Select == [kind |-> "query", engine |-> "sql", action |-> "select",
           body |-> [statement |-> Words]]

MCRpc ==
  [good  |-> [cluster |-> "orders", runtime |-> "sql", request |-> Select,
              body |-> [statement |-> Words]],
   stray |-> [cluster |-> "items", runtime |-> "sql", request |-> Select,
              body |-> [statement |-> Words]],
   other |-> [cluster |-> "orders", runtime |-> "sql", request |-> Select,
              body |-> [collection |-> "posts"]]]
=============================================================================
