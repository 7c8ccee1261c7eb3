-------------------------- MODULE WorkerRuntimeProofs --------------------------
(***************************************************************************)
(* Proofs about WorkerRuntime for every set of jobs and replicas, every    *)
(* plan length, retry policy and number of faults: type correctness, no    *)
(* job settled unreported, steps in order, success only for a complete     *)
(* execution, and the bound on deliveries.                                 *)
(***************************************************************************)
EXTENDS WorkerRuntime, TLAPS

EffectOf(r, s) == [job |-> job[r], attempt |-> attempt[r], step |-> s]

ReportOf(r, ok) == [job |-> job[r], attempt |-> attempt[r], success |-> ok]

\* What a replica has done so far in this execution of its job.
Prefix(r) ==
  /\ pc[r] = "running" =>
       \A s \in Steps : s < step[r] => EffectOf(r, s) \in effects
  /\ pc[r] \in {"report ok", "settle ok"} =>
       \A s \in Steps : EffectOf(r, s) \in effects

\* A replica settles only what it has reported.
Published(r) ==
  /\ pc[r] = "settle ok" => ReportOf(r, TRUE) \in reports
  /\ pc[r] = "settle error" => ReportOf(r, FALSE) \in reports

ReplicasConsistent == \A r \in Replicas : Prefix(r) /\ Published(r)

Budget == (IF MaxAttempts > 1 THEN MaxAttempts ELSE 1) + crashes + earlyExpiries

\* A job that can be handed out again still has a delivery left in the budget.
DeliveryLeft ==
  \A j \in Jobs :
    /\ deliveries[j] <= Budget
    /\ mail[j] = "waiting" => deliveries[j] + 1 <= Budget
    /\ mail[j] = "leased" /\ ~Attended(j) => deliveries[j] + 1 <= Budget

IInv ==
  /\ TypeOK
  /\ GoneMeansReported
  /\ StepsInOrder
  /\ ReplicasConsistent
  /\ SuccessMeansAllSteps
  /\ DeliveryLeft
----------------------------------------------------------------------------
LEMMA BusyStates ==
  /\ "running" \in Busy /\ "polling" \notin Busy
  /\ Reporting \subseteq Busy /\ Settling \subseteq Busy
BY DEF Busy, Reporting, Settling

\* Publishing more reports never makes a settled job unreported.
LEMMA ReportsMonotone ==
  ASSUME GoneMeansReported, reports \subseteq reports', mail' = mail, hasDlq' = hasDlq
  PROVE  GoneMeansReported'
BY DEF GoneMeansReported, Reported, Gone

\* A replica that does not move stays consistent while effects and reports grow.
LEMMA OtherReplica ==
  ASSUME NEW q \in Replicas, Prefix(q), Published(q),
         pc'[q] = pc[q], job'[q] = job[q], attempt'[q] = attempt[q], step'[q] = step[q],
         effects \subseteq effects', reports \subseteq reports'
  PROVE  Prefix(q)' /\ Published(q)'
<1>1. ASSUME NEW s PROVE EffectOf(q, s)' = EffectOf(q, s) /\ ReportOf(q, s)' = ReportOf(q, s)
  BY DEF EffectOf, ReportOf
<1>2. Prefix(q)'
  BY <1>1 DEF Prefix
<1>3. Published(q)'
  <2>1. ReportOf(q, TRUE)' = ReportOf(q, TRUE) /\ ReportOf(q, FALSE)' = ReportOf(q, FALSE)
    BY DEF ReportOf
  <2> QED BY <2>1 DEF Published
<1> QED BY <1>2, <1>3

LEMMA InitIInv == Init => IInv
<1> SUFFICES ASSUME Init PROVE IInv
  OBVIOUS
<1>1. TypeOK
  <2>1. /\ mail \in [Jobs -> {"waiting", "leased", "acked", "dead"}]
        /\ deliveries \in [Jobs -> Nat]
        /\ reports \subseteq Report /\ effects \subseteq Effect
    BY DEF Init
  <2>2. /\ pc \in [Replicas -> {"polling"} \cup Busy]
        /\ job \in [Replicas -> Jobs \cup {NoJob}]
        /\ \A r \in Replicas : pc[r] \in Busy <=> job[r] \in Jobs
    BY BusyStates, NoJobAssumption DEF Init
  <2>3. /\ attempt \in [Replicas -> Nat]
        /\ step \in [Replicas -> 1..(NSteps + 1)]
        /\ processed \in [Replicas -> Nat]
    BY PlanAssumption DEF Init
  <2>4. crashes \in 0..MaxCrashes /\ earlyExpiries \in 0..MaxEarlyExpiries
    BY PlanAssumption DEF Init
  <2>5. hasDlq \in BOOLEAN /\ maxBatch \in BatchSizes
    BY Zenon DEF Init
  <2> QED BY <2>1, <2>2, <2>3, <2>4, <2>5 DEF TypeOK
<1>2. GoneMeansReported /\ ReplicasConsistent
  BY DEF Init, GoneMeansReported, Gone, ReplicasConsistent, Prefix, Published
<1>3. StepsInOrder /\ SuccessMeansAllSteps
  BY DEF Init, StepsInOrder, SuccessMeansAllSteps
<1>4. DeliveryLeft
  BY PlanAssumption DEF Init, DeliveryLeft, Budget
<1> QED BY <1>1, <1>2, <1>3, <1>4 DEF IInv

LEMMA FetchIInv ==
  ASSUME IInv, NEW r \in Replicas, NEW j \in Jobs, FetchJob(r, j)
  PROVE  IInv'
<1> USE DEF FetchJob, stream, faults, config
<1>1. TypeOK /\ deliveries[j] + 1 \in Nat
  BY DEF IInv, TypeOK
<1>2. /\ pc'[r] = "running" /\ job'[r] = j /\ step'[r] = 1
      /\ attempt'[r] = deliveries[j] + 1 /\ deliveries'[j] = deliveries[j] + 1
      /\ mail'[j] = "leased"
      /\ \A q \in Replicas \ {r} : /\ pc'[q] = pc[q] /\ job'[q] = job[q]
                                   /\ step'[q] = step[q] /\ attempt'[q] = attempt[q]
      /\ \A k \in Jobs \ {j} : mail'[k] = mail[k] /\ deliveries'[k] = deliveries[k]
  BY <1>1 DEF TypeOK
<1>3. TypeOK'
  <2>1. /\ mail' \in [Jobs -> {"waiting", "leased", "acked", "dead"}]
        /\ deliveries' \in [Jobs -> Nat]
        /\ pc' \in [Replicas -> {"polling"} \cup Busy]
        /\ job' \in [Replicas -> Jobs \cup {NoJob}]
        /\ attempt' \in [Replicas -> Nat]
    BY <1>1, BusyStates DEF TypeOK
  <2>2. step' \in [Replicas -> 1..(NSteps + 1)] /\ processed' \in [Replicas -> Nat]
    BY <1>1, PlanAssumption DEF TypeOK
  <2>3. \A q \in Replicas : pc'[q] \in Busy <=> job'[q] \in Jobs
    BY <1>1, <1>2, BusyStates DEF TypeOK
  <2> QED BY <1>1, <2>1, <2>2, <2>3 DEF TypeOK
<1>4. GoneMeansReported'
  BY <1>2 DEF IInv, GoneMeansReported, Gone, Reported
<1>5. ReplicasConsistent'
  <2>1. \A s \in Steps : ~(s < step'[r])
    BY <1>2, PlanAssumption DEF Steps
  <2>2. Prefix(r)' /\ Published(r)'
    BY <1>2, <2>1 DEF Prefix, Published
  <2> QED BY <1>2, <2>2, OtherReplica DEF IInv, ReplicasConsistent
<1>6. StepsInOrder' /\ SuccessMeansAllSteps'
  BY DEF IInv, StepsInOrder, SuccessMeansAllSteps
<1>7. DeliveryLeft'
  <2>1. Budget' = Budget /\ Attended(j)'
    BY <1>2, BusyStates DEF Budget, Attended, Holds
  <2>2. \A k \in Jobs \ {j} : Attended(k) => Attended(k)'
    BY <1>2, BusyStates DEF Attended, Holds
  <2> QED BY <1>2, <2>1, <2>2 DEF IInv, DeliveryLeft
<1> QED BY <1>3, <1>4, <1>5, <1>6, <1>7 DEF IInv

\* A step of a busy replica that stays busy with the same delivery leaves the
\* stream's accounts alone.
LEMMA SameAttendance ==
  ASSUME DeliveryLeft, mail' = mail, deliveries' = deliveries,
         job' = job, attempt' = attempt,
         \A q \in Replicas : pc'[q] \in Busy <=> pc[q] \in Busy,
         crashes' = crashes, earlyExpiries' = earlyExpiries
  PROVE  DeliveryLeft'
<1>1. Budget' = Budget
  BY DEF Budget
<1>2. \A j \in Jobs : Attended(j)' <=> Attended(j)
  BY DEF Attended, Holds
<1> QED BY <1>1, <1>2 DEF DeliveryLeft

LEMMA EffectsMonotone ==
  ASSUME SuccessMeansAllSteps, effects \subseteq effects', reports' = reports
  PROVE  SuccessMeansAllSteps'
BY DEF SuccessMeansAllSteps

\* The effect of the step a replica has reached extends its prefix.
LEMMA NextEffect ==
  ASSUME TypeOK, StepsInOrder, NEW r \in Replicas, Prefix(r),
         pc[r] = "running", step[r] \in Steps,
         effects' = effects \cup {EffectOf(r, step[r])}
  PROVE  effects' \subseteq Effect /\ StepsInOrder'
<1>1. pc[r] \in Busy /\ job[r] \in Jobs /\ attempt[r] \in Nat
  BY BusyStates DEF TypeOK
<1>2. effects' \subseteq Effect
  BY <1>1 DEF TypeOK, Effect, EffectOf
<1>3. ASSUME NEW s \in Steps, s < EffectOf(r, step[r]).step
      PROVE  [EffectOf(r, step[r]) EXCEPT !.step = s] \in effects'
  BY <1>3 DEF Prefix, EffectOf
<1> QED BY <1>2, <1>3 DEF StepsInOrder

LEMMA EndTickIInv ==
  ASSUME IInv, NEW r \in Replicas, EndTick(r)
  PROVE  IInv'
<1> USE DEF EndTick, stream, faults, config
<1>1. TypeOK'
  BY DEF IInv, TypeOK
<1>2. GoneMeansReported' /\ SuccessMeansAllSteps' /\ StepsInOrder'
  BY ReportsMonotone, EffectsMonotone DEF IInv, StepsInOrder
<1>3. ReplicasConsistent'
  BY OtherReplica DEF IInv, ReplicasConsistent
<1>4. DeliveryLeft'
  BY SameAttendance DEF IInv
<1> QED BY <1>1, <1>2, <1>3, <1>4 DEF IInv

LEMMA RefuseIInv ==
  ASSUME IInv, NEW r \in Replicas, RefuseJob(r)
  PROVE  IInv'
<1> USE DEF RefuseJob, stream, faults, config
<1>1. TypeOK
  BY DEF IInv
<1>2. /\ pc'[r] = "report error" /\ "report error" \in Busy /\ pc[r] \in Busy
      /\ \A q \in Replicas \ {r} : pc'[q] = pc[q]
  BY <1>1, BusyStates DEF TypeOK, Reporting
<1>3. TypeOK'
  BY <1>1, <1>2 DEF TypeOK
<1>4. GoneMeansReported' /\ SuccessMeansAllSteps' /\ StepsInOrder'
  BY ReportsMonotone, EffectsMonotone DEF IInv, StepsInOrder
<1>5. ReplicasConsistent'
  <2>1. Prefix(r)' /\ Published(r)'
    BY <1>2 DEF Prefix, Published
  <2> QED BY <1>2, <2>1, OtherReplica DEF IInv, ReplicasConsistent
<1>6. DeliveryLeft'
  BY <1>2, SameAttendance DEF IInv
<1> QED BY <1>3, <1>4, <1>5, <1>6 DEF IInv

LEMMA ExecuteIInv ==
  ASSUME IInv, NEW r \in Replicas, ExecuteStep(r)
  PROVE  IInv'
<1> USE DEF stream, faults, config
<1>1. /\ TypeOK /\ Prefix(r) /\ pc[r] = "running" /\ step[r] \in Steps
      /\ effects' = effects \cup {EffectOf(r, step[r])}
  BY DEF ExecuteStep, IInv, ReplicasConsistent, EffectOf
<1>2. /\ step'[r] = step[r] + 1 /\ step[r] + 1 \in 1..(NSteps + 1)
      /\ \A q \in Replicas \ {r} : step'[q] = step[q]
      /\ step' \in [Replicas -> 1..(NSteps + 1)]
  BY <1>1, PlanAssumption DEF ExecuteStep, TypeOK, Steps
<1>3. /\ pc' = pc /\ job' = job /\ attempt' = attempt /\ mail' = mail
      /\ deliveries' = deliveries /\ reports' = reports /\ processed' = processed
      /\ crashes' = crashes /\ earlyExpiries' = earlyExpiries
      /\ hasDlq' = hasDlq /\ maxBatch' = maxBatch
  BY DEF ExecuteStep
<1>4. effects' \subseteq Effect /\ StepsInOrder'
  BY <1>1, NextEffect DEF IInv
<1>5. TypeOK'
  BY <1>1, <1>2, <1>3, <1>4 DEF TypeOK
<1>6. GoneMeansReported' /\ SuccessMeansAllSteps'
  BY <1>1, <1>3, ReportsMonotone, EffectsMonotone DEF IInv
<1>7. ReplicasConsistent'
  <2>1. \A s \in Steps : s < step[r] + 1 => s < step[r] \/ s = step[r]
    BY <1>1, PlanAssumption DEF Steps
  <2>2. \A s : EffectOf(r, s)' = EffectOf(r, s)
    BY <1>3 DEF EffectOf
  <2>3. Prefix(r)' /\ Published(r)'
    BY <1>1, <1>2, <1>3, <2>1, <2>2 DEF Prefix, Published
  <2> QED BY <1>1, <1>2, <1>3, <2>3, OtherReplica DEF IInv, ReplicasConsistent
<1>8. DeliveryLeft'
  BY <1>3, SameAttendance DEF IInv
<1> QED BY <1>4, <1>5, <1>6, <1>7, <1>8 DEF IInv

LEMMA FailIInv ==
  ASSUME IInv, NEW r \in Replicas, FailStep(r)
  PROVE  IInv'
<1> USE DEF stream, faults, config
<1>1. /\ TypeOK /\ Prefix(r) /\ pc[r] = "running" /\ step[r] \in Steps
      /\ effects' = effects \/ effects' = effects \cup {EffectOf(r, step[r])}
  BY DEF FailStep, IInv, ReplicasConsistent, EffectOf
<1>2. /\ pc'[r] = "report error" /\ "report error" \in Busy /\ pc[r] \in Busy
      /\ \A q \in Replicas \ {r} : pc'[q] = pc[q]
  BY <1>1, BusyStates DEF FailStep, TypeOK, Reporting
<1>3. /\ step' = step /\ job' = job /\ attempt' = attempt /\ mail' = mail
      /\ deliveries' = deliveries /\ reports' = reports /\ processed' = processed
      /\ crashes' = crashes /\ earlyExpiries' = earlyExpiries
      /\ hasDlq' = hasDlq /\ maxBatch' = maxBatch
  BY DEF FailStep
<1>4. effects' \subseteq Effect /\ StepsInOrder'
  <2>1. CASE effects' = effects
    BY <1>1, <2>1 DEF IInv, TypeOK, StepsInOrder
  <2>2. CASE effects' = effects \cup {EffectOf(r, step[r])}
    BY <1>1, <2>2, NextEffect DEF IInv
  <2> QED BY <1>1, <2>1, <2>2
<1>5. TypeOK'
  <2>1. pc' \in [Replicas -> {"polling"} \cup Busy]
    BY <1>1, <1>2 DEF FailStep, TypeOK
  <2> QED BY <1>1, <1>2, <1>3, <1>4, <2>1 DEF TypeOK
<1>6. effects \subseteq effects'
  BY <1>1
<1>7. GoneMeansReported' /\ SuccessMeansAllSteps'
  BY <1>3, <1>6, ReportsMonotone, EffectsMonotone DEF IInv
<1>8. ReplicasConsistent'
  <2>1. Prefix(r)' /\ Published(r)'
    BY <1>2 DEF Prefix, Published
  <2> QED BY <1>2, <1>3, <1>6, <2>1, OtherReplica DEF IInv, ReplicasConsistent
<1>9. DeliveryLeft'
  BY <1>2, <1>3, SameAttendance DEF IInv
<1> QED BY <1>4, <1>5, <1>7, <1>8, <1>9 DEF IInv

LEMMA FinishIInv ==
  ASSUME IInv, NEW r \in Replicas, FinishSteps(r)
  PROVE  IInv'
<1> USE DEF FinishSteps, stream, faults, config
<1>1. TypeOK /\ Prefix(r) /\ pc[r] = "running" /\ step[r] = NSteps + 1
  BY DEF IInv, ReplicasConsistent
<1>2. /\ pc'[r] = "report ok" /\ "report ok" \in Busy /\ pc[r] \in Busy
      /\ \A q \in Replicas \ {r} : pc'[q] = pc[q]
  BY <1>1, BusyStates DEF TypeOK, Reporting
<1>3. TypeOK'
  BY <1>1, <1>2 DEF TypeOK
<1>4. GoneMeansReported' /\ SuccessMeansAllSteps' /\ StepsInOrder'
  BY ReportsMonotone, EffectsMonotone DEF IInv, StepsInOrder
<1>5. ReplicasConsistent'
  <2> HIDE DEF FinishSteps
  <2>1. \A s \in Steps : s < step[r]
    <3>1. \A s \in Steps : s < NSteps + 1
      BY PlanAssumption DEF Steps
    <3> QED BY <1>1, <3>1
  <2>2. \A s : EffectOf(r, s)' = EffectOf(r, s)
    BY DEF EffectOf, FinishSteps
  <2>3. Prefix(r)' /\ Published(r)'
    BY <1>1, <1>2, <2>1, <2>2 DEF Prefix, Published, FinishSteps
  <2> QED BY <1>2, <2>3, OtherReplica DEF IInv, ReplicasConsistent, FinishSteps
<1>6. DeliveryLeft'
  BY <1>2, SameAttendance DEF IInv
<1> QED BY <1>3, <1>4, <1>5, <1>6 DEF IInv

LEMMA PublishIInv ==
  ASSUME IInv, NEW r \in Replicas, PublishReport(r)
  PROVE  IInv'
<1> DEFINE ok == pc[r] = "report ok"
           rep == ReportOf(r, ok)
<1> USE DEF stream, faults, config
<1>1. /\ TypeOK /\ Prefix(r) /\ pc[r] \in Reporting
      /\ reports' = reports \cup {rep}
      /\ pc' = [pc EXCEPT ![r] = IF ok THEN "settle ok" ELSE "settle error"]
  BY DEF PublishReport, IInv, ReplicasConsistent, ReportOf
<1>2. /\ pc'[r] = (IF ok THEN "settle ok" ELSE "settle error")
      /\ pc[r] \in Busy /\ pc'[r] \in Busy
      /\ \A q \in Replicas \ {r} : pc'[q] = pc[q]
      /\ pc' \in [Replicas -> {"polling"} \cup Busy]
  BY <1>1, BusyStates DEF TypeOK, Settling
<1>3. /\ step' = step /\ job' = job /\ attempt' = attempt /\ mail' = mail
      /\ deliveries' = deliveries /\ effects' = effects /\ processed' = processed
      /\ crashes' = crashes /\ earlyExpiries' = earlyExpiries
      /\ hasDlq' = hasDlq /\ maxBatch' = maxBatch
  BY DEF PublishReport
<1>4. reports' \subseteq Report
  <2>1. job[r] \in Jobs /\ attempt[r] \in Nat /\ ok \in BOOLEAN
    BY <1>1, <1>2 DEF TypeOK
  <2>2. rep \in Report
    BY <2>1, Zenon DEF ReportOf, Report
  <2> QED BY <1>1, <2>2 DEF TypeOK
<1>5. TypeOK'
  BY <1>1, <1>2, <1>3, <1>4 DEF TypeOK
<1>6. GoneMeansReported' /\ StepsInOrder'
  BY <1>1, <1>3, ReportsMonotone DEF IInv, StepsInOrder
<1>7. SuccessMeansAllSteps'
  <2>1. rep.job = job[r] /\ rep.attempt = attempt[r] /\ rep.success = ok
    BY DEF ReportOf
  <2>2. ok => \A s \in Steps : EffectOf(r, s) \in effects
    BY <1>1 DEF Prefix
  <2> HIDE DEF rep, ok
  <2>3. rep.success => \A s \in Steps :
          [job |-> rep.job, attempt |-> rep.attempt, step |-> s] \in effects
    BY <2>1, <2>2 DEF EffectOf
  <2> QED BY <1>1, <1>3, <2>3 DEF IInv, SuccessMeansAllSteps
<1>8. ReplicasConsistent'
  <2>1. Prefix(r)'
    <3>1. \A s : EffectOf(r, s)' = EffectOf(r, s)
      BY <1>3 DEF EffectOf
    <3> QED BY <1>1, <1>2, <1>3, <3>1 DEF Prefix
  <2>2. CASE ok
    <3>1. ReportOf(r, TRUE)' = rep
      BY <1>3, <2>2 DEF ReportOf
    <3> QED BY <1>1, <1>2, <1>3, <2>1, <2>2, <3>1, OtherReplica
            DEF IInv, ReplicasConsistent, Published
  <2>3. CASE ~ok
    <3>1. ReportOf(r, FALSE)' = rep
      BY <1>3, <2>3 DEF ReportOf
    <3> QED BY <1>1, <1>2, <1>3, <2>1, <2>3, <3>1, OtherReplica
            DEF IInv, ReplicasConsistent, Published
  <2> QED BY <2>2, <2>3
<1>9. DeliveryLeft'
  BY <1>2, <1>3, SameAttendance DEF IInv
<1> QED BY <1>5, <1>6, <1>7, <1>8, <1>9 DEF IInv

\* What settling can do to the job in the stream.
LEMMA SettleMail ==
  ASSUME TypeOK, NEW r \in Replicas, NEW j \in Jobs, job[r] = j, SettleJob(r)
  PROVE  /\ mail' \in [Jobs -> {"waiting", "leased", "acked", "dead"}]
         /\ \A k \in Jobs \ {j} : mail'[k] = mail[k]
         /\ \/ mail'[j] = mail[j] /\ Gone(j)
            \/ mail'[j] = "acked" /\ pc[r] = "settle ok"
            \/ mail'[j] = "acked" /\ pc[r] = "settle error" /\ LastAttempt(r) /\ ~hasDlq
            \/ mail'[j] = "dead" /\ pc[r] = "settle error" /\ LastAttempt(r) /\ hasDlq
            \/ /\ mail'[j] = "waiting" /\ mail[j] = "leased" /\ ~LastAttempt(r)
               /\ deliveries[j] = attempt[r]
            \/ /\ mail'[j] = mail[j]
               /\ mail[j] = "leased" => deliveries[j] # attempt[r]
<1>1. CASE pc[r] = "settle ok" /\ StreamAck(job[r])
  BY <1>1 DEF StreamAck, TypeOK, Gone
<1>2. CASE /\ pc[r] = "settle error" /\ LastAttempt(r)
           /\ IF hasDlq THEN StreamDeadLetter(job[r]) ELSE StreamAck(job[r])
  BY <1>2 DEF StreamAck, StreamDeadLetter, TypeOK, Gone
<1>3. CASE pc[r] = "settle error" /\ ~LastAttempt(r) /\ StreamRetry(r, job[r])
  BY <1>3 DEF StreamRetry, TypeOK, Gone
<1> QED BY <1>1, <1>2, <1>3 DEF SettleJob

LEMMA SettleIInv ==
  ASSUME IInv, NEW r \in Replicas, SettleJob(r)
  PROVE  IInv'
<1> USE DEF stream, faults, config
<1>1. TypeOK /\ pc[r] \in Settling /\ pc[r] \in Busy
  BY BusyStates DEF IInv, SettleJob
<1>2. PICK j \in Jobs : job[r] = j
  BY <1>1 DEF TypeOK
<1>3. /\ pc'[r] = "polling" /\ job'[r] = NoJob
      /\ \A q \in Replicas \ {r} : /\ pc'[q] = pc[q] /\ job'[q] = job[q]
                                   /\ step'[q] = step[q] /\ attempt'[q] = attempt[q]
  BY <1>1 DEF SettleJob, TypeOK
<1>4. /\ deliveries' = deliveries /\ reports' = reports /\ effects' = effects
      /\ processed' = processed /\ crashes' = crashes /\ earlyExpiries' = earlyExpiries
      /\ hasDlq' = hasDlq /\ maxBatch' = maxBatch
  BY DEF SettleJob
<1>5. TypeOK'
  <2>1. /\ pc' \in [Replicas -> {"polling"} \cup Busy]
        /\ job' \in [Replicas -> Jobs \cup {NoJob}]
        /\ attempt' \in [Replicas -> Nat]
    BY <1>1 DEF SettleJob, TypeOK
  <2>4. step' \in [Replicas -> 1..(NSteps + 1)]
    <3>1. 1 \in 1..(NSteps + 1)
      BY PlanAssumption
    <3>2. step' = [step EXCEPT ![r] = 1]
      BY DEF SettleJob
    <3> QED BY <1>1, <3>1, <3>2 DEF TypeOK
  <2>2. \A q \in Replicas : pc'[q] \in Busy <=> job'[q] \in Jobs
    BY <1>1, <1>3, BusyStates, NoJobAssumption DEF TypeOK
  <2>3. mail' \in [Jobs -> {"waiting", "leased", "acked", "dead"}]
    BY <1>1, <1>2, SettleMail
  <2> QED BY <1>1, <1>4, <2>1, <2>2, <2>3, <2>4 DEF TypeOK
<1>6. GoneMeansReported'
  <2>1. pc[r] = "settle ok" => Reported(j, TRUE) # {}
    <3>1. pc[r] = "settle ok" => ReportOf(r, TRUE) \in reports
      BY DEF IInv, ReplicasConsistent, Published
    <3>2. ReportOf(r, TRUE).job = j /\ ReportOf(r, TRUE).success = TRUE
      BY <1>2, Zenon DEF ReportOf
    <3> QED BY <3>1, <3>2, Zenon DEF Reported
  <2>2. pc[r] = "settle error" /\ LastAttempt(r) =>
          \E rep \in Reported(j, FALSE) : rep.attempt >= MaxAttempts
    <3>1. pc[r] = "settle error" => ReportOf(r, FALSE) \in reports
      BY DEF IInv, ReplicasConsistent, Published
    <3>2. /\ ReportOf(r, FALSE).job = j /\ ReportOf(r, FALSE).success = FALSE
          /\ ReportOf(r, FALSE).attempt = attempt[r]
      BY <1>2, Zenon DEF ReportOf
    <3>3. pc[r] = "settle error" => ReportOf(r, FALSE) \in Reported(j, FALSE)
      BY <3>1, <3>2, Zenon DEF Reported
    <3> QED BY <3>2, <3>3 DEF LastAttempt
  <2>3. \A k \in Jobs : mail'[k] = mail[k] =>
          (Gone(k)' =>
            \/ mail'[k] = "acked" /\ Reported(k, TRUE) # {}
            \/ /\ mail'[k] = "acked" => ~hasDlq
               /\ \E rep \in Reported(k, FALSE) : rep.attempt >= MaxAttempts)
    BY DEF IInv, GoneMeansReported, Gone
  <2>4. Gone(j)' =>
            \/ mail'[j] = "acked" /\ Reported(j, TRUE) # {}
            \/ /\ mail'[j] = "acked" => ~hasDlq
               /\ \E rep \in Reported(j, FALSE) : rep.attempt >= MaxAttempts
    BY <1>1, <1>2, <2>1, <2>2, <2>3, SettleMail DEF Gone
  <2>5. \A k \in Jobs, ok \in BOOLEAN : Reported(k, ok)' = Reported(k, ok)
    BY <1>4 DEF Reported
  <2>6. \A k \in Jobs \ {j} : mail'[k] = mail[k]
    BY <1>1, <1>2, SettleMail
  <2> QED BY <1>4, <2>3, <2>4, <2>5, <2>6 DEF GoneMeansReported
<1>7. SuccessMeansAllSteps' /\ StepsInOrder'
  BY <1>4, EffectsMonotone DEF IInv, StepsInOrder
<1>8. ReplicasConsistent'
  <2>1. Prefix(r)' /\ Published(r)'
    BY <1>3 DEF Prefix, Published
  <2> QED BY <1>3, <1>4, <2>1, OtherReplica DEF IInv, ReplicasConsistent
<1>9. DeliveryLeft'
  <2>1. Budget' = Budget /\ Budget \in Nat /\ MaxAttempts <= Budget
    BY <1>1, <1>4, PlanAssumption DEF Budget, TypeOK
  <2>2. \A k \in Jobs \ {j} : Attended(k) => Attended(k)'
    BY <1>2, <1>3, <1>4 DEF Attended, Holds
  <2>3. ASSUME deliveries[j] # attempt[r] PROVE Attended(j) => Attended(j)'
    BY <1>2, <1>3, <1>4, <2>3 DEF Attended, Holds
  <2>4. deliveries[j] \in Nat /\ attempt[r] \in Nat
    BY <1>1 DEF TypeOK
  <2>5. /\ mail'[j] = "waiting" => deliveries[j] + 1 <= Budget
        /\ mail'[j] = "leased" /\ ~Attended(j)' => deliveries[j] + 1 <= Budget
    <3>1. CASE /\ mail'[j] = "waiting" /\ ~LastAttempt(r)
               /\ deliveries[j] = attempt[r]
      BY <2>1, <2>4, <3>1, PlanAssumption DEF LastAttempt
    <3>2. CASE /\ mail'[j] = mail[j]
               /\ mail[j] = "leased" => deliveries[j] # attempt[r]
      BY <2>3, <3>2 DEF IInv, DeliveryLeft
    <3>3. CASE Gone(j)'
      BY <3>3 DEF Gone
    <3> QED BY <1>1, <1>2, <3>1, <3>2, <3>3, SettleMail DEF Gone
  <2>6. \A k \in Jobs \ {j} : mail'[k] = mail[k]
    BY <1>1, <1>2, SettleMail
  <2> QED BY <1>4, <2>1, <2>2, <2>5, <2>6 DEF IInv, DeliveryLeft
<1> QED BY <1>5, <1>6, <1>7, <1>8, <1>9 DEF IInv

LEMMA CrashIInv ==
  ASSUME IInv, NEW r \in Replicas, Crash(r)
  PROVE  IInv'
<1> USE DEF stream, faults, config
<1>1. TypeOK
  BY DEF IInv
<1>2. /\ pc'[r] = "polling" /\ job'[r] = NoJob
      /\ \A q \in Replicas \ {r} : /\ pc'[q] = pc[q] /\ job'[q] = job[q]
                                   /\ step'[q] = step[q] /\ attempt'[q] = attempt[q]
  BY <1>1 DEF Crash, TypeOK
<1>3. /\ mail' = mail /\ deliveries' = deliveries /\ reports' = reports
      /\ effects' = effects /\ crashes' = crashes + 1 /\ earlyExpiries' = earlyExpiries
      /\ hasDlq' = hasDlq /\ maxBatch' = maxBatch
  BY DEF Crash
<1>4. TypeOK'
  <2>1. /\ pc' \in [Replicas -> {"polling"} \cup Busy]
        /\ job' \in [Replicas -> Jobs \cup {NoJob}]
        /\ attempt' \in [Replicas -> Nat]
        /\ step' \in [Replicas -> 1..(NSteps + 1)]
        /\ processed' \in [Replicas -> Nat]
    BY <1>1, PlanAssumption DEF Crash, TypeOK
  <2>2. \A q \in Replicas : pc'[q] \in Busy <=> job'[q] \in Jobs
    BY <1>1, <1>2, BusyStates, NoJobAssumption DEF TypeOK
  <2>3. crashes' \in 0..MaxCrashes
    BY <1>1, PlanAssumption DEF Crash, TypeOK
  <2> QED BY <1>1, <1>3, <2>1, <2>2, <2>3 DEF TypeOK
<1>5. GoneMeansReported' /\ SuccessMeansAllSteps' /\ StepsInOrder'
  BY <1>3, ReportsMonotone, EffectsMonotone DEF IInv, StepsInOrder
<1>6. ReplicasConsistent'
  <2>1. Prefix(r)' /\ Published(r)'
    BY <1>2 DEF Prefix, Published
  <2> QED BY <1>2, <1>3, <2>1, OtherReplica DEF IInv, ReplicasConsistent
<1>7. DeliveryLeft'
  <2>1. Budget' = Budget + 1 /\ Budget \in Nat
    BY <1>1, <1>3, PlanAssumption DEF Budget, TypeOK
  <2>2. \A j \in Jobs : deliveries[j] \in Nat
    BY <1>1 DEF TypeOK
  <2> QED BY <1>3, <2>1, <2>2 DEF IInv, DeliveryLeft
<1> QED BY <1>4, <1>5, <1>6, <1>7 DEF IInv

LEMMA ExpireIInv ==
  ASSUME IInv, NEW j \in Jobs, ExpireLostLease(j) \/ ExpireLiveLease(j)
  PROVE  IInv'
<1> USE DEF ExpireLostLease, ExpireLiveLease, stream, faults, config
<1>1. TypeOK /\ mail[j] = "leased"
  BY DEF IInv
<1>2. /\ mail' = [mail EXCEPT ![j] = "waiting"]
      /\ mail'[j] = "waiting" /\ \A k \in Jobs \ {j} : mail'[k] = mail[k]
      /\ mail' \in [Jobs -> {"waiting", "leased", "acked", "dead"}]
  BY <1>1 DEF TypeOK
<1>3. /\ pc' = pc /\ job' = job /\ attempt' = attempt /\ step' = step
      /\ deliveries' = deliveries /\ reports' = reports /\ effects' = effects
      /\ processed' = processed /\ crashes' = crashes
      /\ hasDlq' = hasDlq /\ maxBatch' = maxBatch
      /\ \/ earlyExpiries' = earlyExpiries /\ ~Attended(j)
         \/ earlyExpiries' = earlyExpiries + 1 /\ earlyExpiries < MaxEarlyExpiries
  OBVIOUS
<1> HIDE DEF ExpireLostLease, ExpireLiveLease
<1>4. TypeOK'
  <2>1. earlyExpiries' \in 0..MaxEarlyExpiries
    BY <1>1, <1>3, PlanAssumption DEF TypeOK
  <2> QED BY <1>1, <1>2, <1>3, <2>1 DEF TypeOK
<1>5. GoneMeansReported'
  BY <1>1, <1>2, <1>3 DEF IInv, GoneMeansReported, Gone, Reported
<1>6. SuccessMeansAllSteps' /\ StepsInOrder'
  BY <1>3, EffectsMonotone DEF IInv, StepsInOrder
<1>7. ReplicasConsistent'
  BY <1>3, OtherReplica DEF IInv, ReplicasConsistent
<1>8. DeliveryLeft'
  <2>1. /\ Budget \in Nat
        /\ \/ Budget' = Budget /\ ~Attended(j)
           \/ Budget' = Budget + 1
    BY <1>1, <1>3, PlanAssumption DEF Budget, TypeOK
  <2>2. \A k \in Jobs : deliveries[k] \in Nat /\ (Attended(k)' <=> Attended(k))
    BY <1>1, <1>3 DEF TypeOK, Attended, Holds
  <2> QED BY <1>1, <1>2, <1>3, <2>1, <2>2 DEF IInv, DeliveryLeft
<1> QED BY <1>4, <1>5, <1>6, <1>7, <1>8 DEF IInv

LEMMA StutterIInv ==
  ASSUME IInv, UNCHANGED vars
  PROVE  IInv'
<1> USE DEF vars
<1>1. TypeOK'
  BY DEF IInv, TypeOK
<1>2. GoneMeansReported' /\ SuccessMeansAllSteps' /\ StepsInOrder'
  BY ReportsMonotone, EffectsMonotone DEF IInv, StepsInOrder
<1>3. ReplicasConsistent'
  BY OtherReplica DEF IInv, ReplicasConsistent
<1>4. DeliveryLeft'
  BY SameAttendance DEF IInv
<1> QED BY <1>1, <1>2, <1>3, <1>4 DEF IInv
----------------------------------------------------------------------------
LEMMA NextIInv ==
  ASSUME IInv, [Next]_vars
  PROVE  IInv'
<1>1. ASSUME NEW r \in Replicas, LoopStep(r) \/ Crash(r)
      PROVE  IInv'
  BY <1>1, FetchIInv, EndTickIInv, RefuseIInv, ExecuteIInv, FailIInv, FinishIInv,
     PublishIInv, SettleIInv, CrashIInv DEF LoopStep
<1>2. ASSUME NEW j \in Jobs, ExpireLostLease(j) \/ ExpireLiveLease(j)
      PROVE  IInv'
  BY <1>2, ExpireIInv
<1>3. CASE UNCHANGED vars
  BY <1>3, StutterIInv
<1> QED BY <1>1, <1>2, <1>3 DEF Next

LEMMA Invariance == Spec => []IInv
<1>1. IInv /\ [Next]_vars => IInv'
  BY NextIInv
<1> QED BY <1>1, InitIInv, PTL DEF Spec

(* Every reachable state of stream and replicas is well typed; a replica    *)
(* holds a job exactly while its loop is inside an iteration.               *)
THEOREM TypeCorrect == Spec => []TypeOK
<1>1. IInv => TypeOK
  BY DEF IInv
<1> QED BY <1>1, Invariance, PTL

(* No job is acked or dead-lettered before its report is published, for any *)
(* number of crashes and lost leases: publish_report precedes every ack.    *)
THEOREM NothingVanishes == Spec => []GoneMeansReported
<1>1. IInv => GoneMeansReported
  BY DEF IInv
<1> QED BY <1>1, Invariance, PTL

(* A step takes effect only in an execution whose earlier steps all did.    *)
THEOREM OrderedSteps == Spec => []StepsInOrder
<1>1. IInv => StepsInOrder
  BY DEF IInv
<1> QED BY <1>1, Invariance, PTL

(* A published success stands for a delivery that ran the whole plan.       *)
THEOREM SuccessIsComplete == Spec => []SuccessMeansAllSteps
<1>1. IInv => SuccessMeansAllSteps
  BY DEF IInv
<1> QED BY <1>1, Invariance, PTL

(* Deliveries are bounded by the retry policy plus the faults suffered,     *)
(* although the loop checks the attempt limit only after a failure.         *)
THEOREM DeliveriesBounded == Spec => []RetryBudget
<1>1. IInv => RetryBudget
  BY DEF IInv, DeliveryLeft, Budget, RetryBudget
<1> QED BY <1>1, Invariance, PTL
=============================================================================
