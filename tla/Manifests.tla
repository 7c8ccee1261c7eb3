------------------------------ MODULE Manifests ------------------------------
(***************************************************************************)
(* What the manifests of a deployment must satisfy to be accepted: the     *)
(* policy manifest (bladb-core policy.rs) and the topology manifest        *)
(* (cluster.rs).  Each parser accepts exactly the manifests for which the  *)
(* predicate here holds and refuses the others at the first defect.        *)
(*                                                                         *)
(* A manifest is a sequence of records.  A field left out is Absent; a     *)
(* number left out is 0 where the code takes any number as given, and the  *)
(* defaults of the parsers are those of the records.  What no code reads   *)
(* is left out: discovery, consistency, failover, the rolling limits, and  *)
(* the enforce rules, of which only the reserved values they name are ever *)
(* looked at.                                                              *)
(***************************************************************************)
EXTENDS Integers, Sequences, FiniteSets

Absent == "absent"
Members(s) == {s[i] : i \in DOMAIN s}
Distinct(s) == \A i, j \in DOMAIN s : s[i] = s[j] => i = j
Names(s) == [i \in DOMAIN s |-> s[i].name]

\* parse_policy_manifest
ValidPolicies(policies) == Distinct(Names(policies))

\* Every place of the manifest where a policy is listed
Listings(clusters) ==
  UNION {{i} \X DOMAIN clusters[i].policies : i \in DOMAIN clusters}

\* A policy is listed once, within its own cluster too.
PoliciesAssignedOnce(clusters) ==
  \A a, b \in Listings(clusters) :
    clusters[a[1]].policies[a[2]] = clusters[b[1]].policies[b[2]] => a = b

ValidRouting(c) == c.strategy = "hash" => c.virtualShards > 0 /\ c.routeBy # <<>>

\* validate_transport: JetStream needs a stream and a subject, NATS a subject.
ValidTransport(c) ==
  /\ c.protocol \in {"natsService", "jetStream"} => c.subject # Absent
  /\ c.protocol = "jetStream" => c.stream # Absent

\* validate_deployment; autoscale is the pair of its limits, if it is given.
ValidDeployment(c) ==
  /\ c.replicas > 0
  /\ \A scale \in c.autoscale : scale.min > 0 /\ scale.min <= scale.max

ValidTopology(clusters) ==
  /\ Distinct(Names(clusters))
  /\ PoliciesAssignedOnce(clusters)
  /\ \A c \in Members(clusters) :
       ValidRouting(c) /\ ValidTransport(c) /\ ValidDeployment(c)
=============================================================================
