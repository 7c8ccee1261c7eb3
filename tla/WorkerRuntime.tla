---------------------------- MODULE WorkerRuntime ----------------------------
(***************************************************************************)
(* The worker runtime (crates/bladb-worker-runtime/src): replicas of one   *)
(* worker run the loop of WorkerTransportConsumer.run_tick against a       *)
(* durable job stream.  A replica fetches a job, executes the steps of its *)
(* plan in order until one fails, publishes a report, and only then acks,  *)
(* retries or dead-letters the job.                                        *)
(*                                                                         *)
(* The stream is behind the trait WorkerRuntimeTransport, which has no     *)
(* implementation in the repository; it is modelled from how the loop uses *)
(* it and what the manifests configure (a JetStream consumer).  It gives   *)
(* at-least-once delivery: a fetched job is leased, a lease that is not    *)
(* settled runs out and the job is delivered again with the next attempt   *)
(* number.  A lease can also run out under a replica that is merely slow:  *)
(* the plan's timeout_ms is compiled but no code enforces it.              *)
(***************************************************************************)
EXTENDS Integers, FiniteSets

CONSTANTS
  Jobs,              \* the jobs in the stream
  Misrouted,         \* jobs whose worker, subject, stream or consumer differ
  Replicas,          \* processes running the loop
  NSteps,            \* steps of the compiled plan
  MaxAttempts,       \* plan.retry_max_attempts
  BatchSizes,        \* possible loop.max_batch settings
  MaxCrashes,        \* bound: crashes of replicas
  MaxEarlyExpiries   \* bound: leases that run out under a live replica

ASSUME PlanAssumption ==
  /\ Misrouted \subseteq Jobs
  /\ NSteps \in Nat
  /\ MaxAttempts \in Nat      \* 0 is not rejected by the manifest parser
  /\ BatchSizes \subseteq Nat
  /\ MaxCrashes \in Nat /\ MaxEarlyExpiries \in Nat

NoJob == "no job"

ASSUME NoJobAssumption == NoJob \notin Jobs

VARIABLES
  mail,        \* stream: what became of each job
  deliveries,  \* stream: how often it was handed out; the job's attempt number
  reports,     \* reports published so far
  effects,     \* steps that took effect, under the delivery that ran them
  pc,          \* where a replica's loop stands
  job,         \* the job it works on
  attempt,     \* job.attempt as delivered to it
  step,        \* index of the step it executes next
  processed,   \* tick.processed
  crashes, earlyExpiries,  \* how often the bounded faults happened
  hasDlq,      \* whether dead_letter_subject is configured
  maxBatch     \* loop_config.max_batch

stream == <<mail, deliveries>>
faults == <<crashes, earlyExpiries>>
config == <<hasDlq, maxBatch>>
vars == <<mail, deliveries, reports, effects, pc, job, attempt, step,
          processed, crashes, earlyExpiries, hasDlq, maxBatch>>

Steps == 1..NSteps
Effect == [job : Jobs, attempt : Nat, step : Steps]
Report == [job : Jobs, attempt : Nat, success : BOOLEAN]

\* Busy states of a replica; a verdict is carried in the state's name.
Reporting == {"report ok", "report error"}
Settling == {"settle ok", "settle error"}
Busy == {"running"} \cup Reporting \cup Settling

Holds(r, j) == pc[r] \in Busy /\ job[r] = j
Gone(j) == mail[j] \in {"acked", "dead"}
----------------------------------------------------------------------------
Init ==
  /\ mail = [j \in Jobs |-> "waiting"]
  /\ deliveries = [j \in Jobs |-> 0]
  /\ reports = {}
  /\ effects = {}
  /\ pc = [r \in Replicas |-> "polling"]
  /\ job = [r \in Replicas |-> NoJob]
  /\ attempt = [r \in Replicas |-> 0]
  /\ step = [r \in Replicas |-> 1]
  /\ processed = [r \in Replicas |-> 0]
  /\ crashes = 0 /\ earlyExpiries = 0
  /\ hasDlq \in BOOLEAN
  /\ maxBatch \in BatchSizes
----------------------------------------------------------------------------
(* Calls of the transport, as the stream answers them. *)

StreamAck(j) == mail' = [mail EXCEPT ![j] = IF @ = "dead" THEN @ ELSE "acked"]

StreamDeadLetter(j) ==
  mail' = [mail EXCEPT ![j] = IF @ = "acked" THEN @ ELSE "dead"]

\* A negative ack of the current delivery makes the job available again; one
\* for a delivery that has been superseded is ignored.
StreamRetry(r, j) ==
  mail' = [mail EXCEPT ![j] = IF @ = "leased" /\ deliveries[j] = attempt[r]
                              THEN "waiting" ELSE @]
----------------------------------------------------------------------------
(* The loop of one replica. *)

BatchLimitUnclamped == maxBatch

BatchLimit == IF maxBatch > 1 THEN maxBatch ELSE 1

FetchJob(r, j) ==
  /\ pc[r] = "polling"
  /\ processed[r] < BatchLimit
  /\ mail[j] = "waiting"
  /\ mail' = [mail EXCEPT ![j] = "leased"]
  /\ deliveries' = [deliveries EXCEPT ![j] = @ + 1]
  /\ pc' = [pc EXCEPT ![r] = "running"]
  /\ job' = [job EXCEPT ![r] = j]
  /\ attempt' = [attempt EXCEPT ![r] = deliveries[j] + 1]
  /\ step' = [step EXCEPT ![r] = 1]
  /\ processed' = [processed EXCEPT ![r] = @ + 1]
  /\ UNCHANGED <<reports, effects, faults, config>>

(* The tick ends when the batch is full or the stream has nothing to give;   *)
(* serve_blocking starts the next one, after a sleep if nothing was done.    *)
EndTick(r) ==
  /\ pc[r] = "polling"
  /\ processed[r] > 0
  /\ processed[r] >= BatchLimit \/ \A j \in Jobs : mail[j] # "waiting"
  /\ processed' = [processed EXCEPT ![r] = 0]
  /\ UNCHANGED <<stream, reports, effects, pc, job, attempt, step, faults,
                 config>>

(* execute_job refuses a job that was not meant for this worker before it    *)
(* runs any step.                                                            *)
RefuseJob(r) ==
  /\ pc[r] = "running"
  /\ job[r] \in Misrouted
  /\ pc' = [pc EXCEPT ![r] = "report error"]
  /\ UNCHANGED <<stream, reports, effects, job, attempt, step, processed,
                 faults, config>>

ExecutePastEnd(r) ==
  /\ pc[r] = "running"
  /\ job[r] \notin Misrouted
  /\ effects' = effects \cup
       {[job |-> job[r], attempt |-> attempt[r], step |-> step[r]]}
  /\ step' = [step EXCEPT ![r] = @ + 1]
  /\ UNCHANGED <<stream, reports, pc, job, attempt, processed, faults, config>>

ExecuteStep(r) ==
  /\ pc[r] = "running"
  /\ job[r] \notin Misrouted
  /\ step[r] \in Steps
  /\ effects' = effects \cup
       {[job |-> job[r], attempt |-> attempt[r], step |-> step[r]]}
  /\ step' = [step EXCEPT ![r] = @ + 1]
  /\ UNCHANGED <<stream, reports, pc, job, attempt, processed, faults, config>>

ContinueAfterFailure(r) ==
  /\ pc[r] = "running"
  /\ job[r] \notin Misrouted
  /\ step[r] \in Steps
  /\ step' = [step EXCEPT ![r] = @ + 1]
  /\ UNCHANGED <<stream, reports, effects, pc, job, attempt, processed, faults,
                 config>>

(* The executor fails, before or after its backend did the work, or none is  *)
(* registered for the backend: the steps after it are not run, those before  *)
(* it stay done.                                                             *)
FailStep(r) ==
  /\ pc[r] = "running"
  /\ job[r] \notin Misrouted
  /\ step[r] \in Steps
  /\ effects' \in {effects, effects \cup
       {[job |-> job[r], attempt |-> attempt[r], step |-> step[r]]}}
  /\ pc' = [pc EXCEPT ![r] = "report error"]
  /\ UNCHANGED <<stream, reports, job, attempt, step, processed, faults, config>>

FinishOneStepEarly(r) ==
  /\ pc[r] = "running"
  /\ job[r] \notin Misrouted
  /\ step[r] >= NSteps
  /\ pc' = [pc EXCEPT ![r] = "report ok"]
  /\ UNCHANGED <<stream, reports, effects, job, attempt, step, processed,
                 faults, config>>

FinishAndAck(r) ==
  /\ pc[r] = "running"
  /\ job[r] \notin Misrouted
  /\ step[r] = NSteps + 1
  /\ StreamAck(job[r])
  /\ pc' = [pc EXCEPT ![r] = "report ok"]
  /\ UNCHANGED <<deliveries, reports, effects, job, attempt, step, processed,
                 faults, config>>

FinishSteps(r) ==
  /\ pc[r] = "running"
  /\ job[r] \notin Misrouted
  /\ step[r] = NSteps + 1
  /\ pc' = [pc EXCEPT ![r] = "report ok"]
  /\ UNCHANGED <<stream, reports, effects, job, attempt, step, processed,
                 faults, config>>

PublishReport(r) ==
  /\ pc[r] \in Reporting
  /\ reports' = reports \cup
       {[job |-> job[r], attempt |-> attempt[r],
         success |-> pc[r] = "report ok"]}
  /\ pc' = [pc EXCEPT ![r] = IF @ = "report ok" THEN "settle ok"
                             ELSE "settle error"]
  /\ UNCHANGED <<stream, effects, job, attempt, step, processed, faults, config>>

LastAttemptOffByOne(r) == attempt[r] > MaxAttempts

LastAttempt(r) == attempt[r] >= MaxAttempts

(* The part of the loop after publish_report: ack a success, ack or          *)
(* dead-letter a failure of the last attempt, retry any other.               *)
SettleJob(r) ==
  /\ pc[r] \in Settling
  /\ \/ /\ pc[r] = "settle ok"
        /\ StreamAck(job[r])
     \/ /\ pc[r] = "settle error" /\ LastAttempt(r)
        /\ IF hasDlq THEN StreamDeadLetter(job[r]) ELSE StreamAck(job[r])
     \/ /\ pc[r] = "settle error" /\ ~LastAttempt(r)
        /\ StreamRetry(r, job[r])
  /\ pc' = [pc EXCEPT ![r] = "polling"]
  /\ job' = [job EXCEPT ![r] = NoJob]
  /\ attempt' = [attempt EXCEPT ![r] = 0]
  /\ step' = [step EXCEPT ![r] = 1]
  /\ UNCHANGED <<deliveries, reports, effects, processed, faults, config>>
----------------------------------------------------------------------------
(* Faults around the loop. *)

(* A replica dies at any point of an iteration and a new one takes its place. *)
Crash(r) ==
  /\ pc[r] \in Busy
  /\ crashes < MaxCrashes
  /\ crashes' = crashes + 1
  /\ pc' = [pc EXCEPT ![r] = "polling"]
  /\ job' = [job EXCEPT ![r] = NoJob]
  /\ attempt' = [attempt EXCEPT ![r] = 0]
  /\ step' = [step EXCEPT ![r] = 1]
  /\ processed' = [processed EXCEPT ![r] = 0]
  /\ UNCHANGED <<stream, reports, effects, earlyExpiries, config>>

\* Some replica still works on the current delivery of j.
Attended(j) == \E r \in Replicas : Holds(r, j) /\ attempt[r] = deliveries[j]

ExpireLostLease(j) ==
  /\ mail[j] = "leased"
  /\ ~Attended(j)
  /\ mail' = [mail EXCEPT ![j] = "waiting"]
  /\ UNCHANGED <<deliveries, reports, effects, pc, job, attempt, step,
                 processed, faults, config>>

ExpireLiveLease(j) ==
  /\ mail[j] = "leased"
  /\ Attended(j)
  /\ earlyExpiries < MaxEarlyExpiries
  /\ earlyExpiries' = earlyExpiries + 1
  /\ mail' = [mail EXCEPT ![j] = "waiting"]
  /\ UNCHANGED <<deliveries, reports, effects, pc, job, attempt, step,
                 processed, crashes, config>>
----------------------------------------------------------------------------
LoopStep(r) ==
  \/ \E j \in Jobs : FetchJob(r, j)
  \/ EndTick(r)
  \/ RefuseJob(r)
  \/ ExecuteStep(r)
  \/ FailStep(r)
  \/ FinishSteps(r)
  \/ PublishReport(r)
  \/ SettleJob(r)

Next ==
  \/ \E r \in Replicas : LoopStep(r) \/ Crash(r)
  \/ \E j \in Jobs : ExpireLostLease(j) \/ ExpireLiveLease(j)

Spec == Init /\ [][Next]_vars

\* serve_blocking never stops a replica, and an abandoned lease runs out.
Fairness ==
  /\ \A r \in Replicas : WF_vars(LoopStep(r))
  /\ \A j \in Jobs : WF_vars(ExpireLostLease(j))

FairSpec == Spec /\ Fairness
----------------------------------------------------------------------------
TypeOK ==
  /\ mail \in [Jobs -> {"waiting", "leased", "acked", "dead"}]
  /\ deliveries \in [Jobs -> Nat]
  /\ reports \subseteq Report
  /\ effects \subseteq Effect
  /\ pc \in [Replicas -> {"polling"} \cup Busy]
  /\ job \in [Replicas -> Jobs \cup {NoJob}]
  /\ \A r \in Replicas : pc[r] \in Busy <=> job[r] \in Jobs
  /\ attempt \in [Replicas -> Nat]
  /\ step \in [Replicas -> 1..(NSteps + 1)]
  /\ processed \in [Replicas -> Nat]
  /\ crashes \in 0..MaxCrashes /\ earlyExpiries \in 0..MaxEarlyExpiries
  /\ hasDlq \in BOOLEAN /\ maxBatch \in BatchSizes

Reported(j, ok) == {rep \in reports : rep.job = j /\ rep.success = ok}

(* No job leaves the stream unnoticed, wherever a replica crashes: an acked  *)
(* job has a published success, or, without a dead-letter subject, a         *)
(* published failure of a last attempt; a dead-lettered one always has that. *)
GoneMeansReported ==
  \A j \in Jobs : Gone(j) =>
    \/ mail[j] = "acked" /\ Reported(j, TRUE) # {}
    \/ /\ mail[j] = "acked" => ~hasDlq
       /\ \E rep \in Reported(j, FALSE) : rep.attempt >= MaxAttempts

(* The steps of a job take effect in plan order: in every execution, by       *)
(* whatever replica at whatever time, a step is only reached through all the *)
(* steps before it.                                                          *)
StepsInOrder ==
  \A e \in effects : \A s \in Steps : s < e.step =>
    [e EXCEPT !.step = s] \in effects

(* A success report is only published for a complete execution: the delivery *)
(* it names ran every step of the plan.                                      *)
SuccessMeansAllSteps ==
  \A rep \in reports : rep.success =>
    \A s \in Steps :
      [job |-> rep.job, attempt |-> rep.attempt, step |-> s] \in effects

(* A job is delivered no more often than the retry policy grants, plus once  *)
(* for every lease lost to a crash or a slow replica.                        *)
RetryBudget ==
  \A j \in Jobs :
    deliveries[j] <= (IF MaxAttempts > 1 THEN MaxAttempts ELSE 1)
                       + crashes + earlyExpiries

(* Every job is eventually acked or dead-lettered, through failures, crashes *)
(* and lost leases.                                                          *)
EveryJobSettles == \A j \in Jobs : <>Gone(j)
=============================================================================
