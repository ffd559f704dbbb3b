------------------------------ MODULE SpaceJob ------------------------------
(***************************************************************************)
(* The life of an FCP job: the request handler, the deploying goroutine,   *)
(* the status reporter behind deployingChan, cancel, the CLI's delete,     *)
(* renewal and the cron jobs, all of which read and write the row of the   *)
(* job in t_job and its objects in the Kubernetes cluster, with no lock    *)
(* and no transaction around any of them.                                  *)
(*                                                                         *)
(* One step is one call to the database, to the cluster or to the chain.   *)
(***************************************************************************)
EXTENDS Naturals

CONSTANTS
    Jobs,      \* job_uuids; the hub sends each of them once
    Wallets,   \* wallet addresses: the namespace of a job is ns-<wallet>
    Owner,     \* the wallet of each job
    Kind,      \* how each job is deployed: an "image" job arrives at DeployImage,
               \* a "dockerfile" or "yaml" job at ReceiveJob
    Enabled,   \* the activities an instance has, out of Activities
    Faults,    \* which of "deploy", "delete", "chain", "crash" may happen
    Duration,  \* the paid duration of a job, in ticks
    Old,       \* the two hours of the cron jobs, in ticks
    ArriveBy,  \* bound: requests arrive no later than this
    MaxTime,   \* bound: the clock stops here, and nobody pays beyond it
    MaxRenew,  \* bound: calls of ReNewJob per job
    MaxCrash   \* bound: crashes of the provider

\* The callers of the provider, its cron jobs, and what the world around does.
Activities == {"cancel", "cli", "renew", "sweep", "abnormal", "namespace",
               "chain"}

ASSUME SpaceJobAssumption ==
    /\ Owner \in [Jobs -> Wallets]
    /\ Kind \in [Jobs -> {"dockerfile", "yaml", "image"}]
    /\ Enabled \subseteq Activities
    /\ Faults \subseteq {"deploy", "delete", "chain", "crash"}
    /\ {Old, ArriveBy, MaxTime, MaxRenew, MaxCrash} \subseteq Nat
    /\ Duration \in Nat \ {0}

VARIABLES
    now,       \* the clock
    crashes,   \* crashes so far
    row,       \* the row of the job in t_job: status, expire_time, delete_at
    cre,       \* its create_time
    pc,        \* where the request handler, then DeploySpaceTask, is
    sent,      \* what updateJobStatus goroutines blocked on deployingChan send
    taskMap,   \* TaskMap
    up,        \* the deployment of the job exists
    pods,      \* its pods
    born,      \* creationTimestamp of the deployment
    nsUp,      \* the namespaces that exist
    gc,        \* the namespaces watchNameSpaceForDeleted is about to delete
    rm,        \* where each caller of DeleteJob is
    why,       \* why the expiry cron called it
    renew,     \* the row ReNewJob read
    sweep,     \* the row watchExpiredTask read, and how far it is with it
    renewals,  \* calls of ReNewJob so far
    chain,     \* the job on the task manager contract
    deployed,  \* history: a deployment of the job was created
    overlap,   \* history: the job was removed while it was being deployed
    erred      \* history: a DeleteJob of this job gave up halfway

dbVars      == <<row, cre>>
reportVars  == <<sent, taskMap>>
clusterVars == <<up, pods, born, nsUp, gc>>
removeVars  == <<rm, why, sweep>>
renewVars   == <<renew, renewals>>
history     == <<deployed, overlap, erred>>
vars == <<now, crashes, dbVars, pc, reportVars, clusterVars,
          removeVars, renewVars, chain, history>>

-----------------------------------------------------------------------------
\* The values of the state.

Statuses == {"REJECTED", "RECEIVED", "DEPLOY", "RUNNING", "TERMINATED",
             "COMPLETED", "FAILED"}
Rows     == [st : Statuses \cup {"NONE"}, exp : Nat, del : BOOLEAN]
NoRow    == [st |-> "NONE", exp |-> 0, del |-> FALSE]

\* DEPLOY_UPLOAD_RESULT and DEPLOY_PULL_IMAGE are both below DEPLOY_TO_K8S,
\* which is all that their receiver looks at.
Messages == {"DEPLOYING", "TO_K8S"}

Deploying == {"prepare", "namespace", "create", "expose", "stamp",
              "stamp_ports", "submit"}
Pcs       == {"none", "checking", "closed", "done", "dead"} \cup Deploying

Actors == {"cancel", "cli", "undo", "sweep"}
Phases == {"off", "delete", "mark"}

TypeOK ==
    /\ now \in Nat /\ crashes \in Nat
    /\ row \in [Jobs -> Rows] /\ cre \in [Jobs -> Nat]
    /\ pc \in [Jobs -> Pcs]
    /\ sent \in [Jobs -> SUBSET Messages]
    /\ taskMap \in [Jobs -> Messages \cup {"none"}]
    /\ up \in [Jobs -> BOOLEAN]
    /\ pods \in [Jobs -> {"absent", "pending", "ready"}]
    /\ born \in [Jobs -> Nat]
    /\ nsUp \in SUBSET Wallets /\ gc \in SUBSET Wallets
    /\ rm \in [Jobs -> [Actors -> Phases]]
    /\ why \in [Jobs -> {"stale", "idle", "expired"}]
    /\ renew \in [Jobs -> Rows]
    /\ sweep \in [Jobs -> [at : {"off", "stale", "judge", "chain"},
                           row : Rows]]
    /\ chain \in [Jobs -> [st : {"absent", "active", "completed", "terminated"},
                           exp : Nat]]
    /\ renewals \in [Jobs -> Nat]
    /\ deployed \in [Jobs -> BOOLEAN] /\ overlap \in [Jobs -> BOOLEAN]
    /\ erred \in [Jobs -> BOOLEAN]

Init ==
    /\ now = 0 /\ crashes = 0
    /\ row = [j \in Jobs |-> NoRow] /\ cre = [j \in Jobs |-> 0]
    /\ pc = [j \in Jobs |-> "none"]
    /\ sent = [j \in Jobs |-> {}] /\ taskMap = [j \in Jobs |-> "none"]
    /\ up = [j \in Jobs |-> FALSE] /\ pods = [j \in Jobs |-> "absent"]
    /\ born = [j \in Jobs |-> 0]
    /\ nsUp = {} /\ gc = {}
    /\ rm = [j \in Jobs |-> [a \in Actors |-> "off"]]
    /\ why = [j \in Jobs |-> "stale"]
    /\ renew = [j \in Jobs |-> NoRow]
    /\ sweep = [j \in Jobs |-> [at |-> "off", row |-> NoRow]]
    /\ chain = [j \in Jobs |-> [st |-> "absent", exp |-> 0]]
    /\ renewals = [j \in Jobs |-> 0]
    /\ deployed = [j \in Jobs |-> FALSE] /\ overlap = [j \in Jobs |-> FALSE]
    /\ erred = [j \in Jobs |-> FALSE]

-----------------------------------------------------------------------------
\* The database calls of entity_service.go.

Live(j) == row[j].st # "NONE" /\ ~row[j].del

\* Slip: the update does not look at delete_at.
UpdateJobEntityByJobUuid_deleted(j, st, exp) ==
    row' = [row EXCEPT ![j] =
              [st  |-> IF st = "RECEIVED" THEN row[j].st ELSE st,
               exp |-> IF exp = 0 THEN row[j].exp ELSE exp,
               del |-> row[j].del]]

\* UpdateJobEntityByJobUuid: gorm writes the fields that are not zero values
\* (JOB_RECEIVED_STATUS is zero), and only to a row that is not deleted.
UpdateJobEntityByJobUuid(j, st, exp) ==
    row' = [row EXCEPT ![j] =
              IF Live(j)
              THEN [st  |-> IF st = "RECEIVED" THEN row[j].st ELSE st,
                    exp |-> IF exp = 0 THEN row[j].exp ELSE exp,
                    del |-> FALSE]
              ELSE row[j]]

\* UpdateJobEntityStatusByJobUuid: does not look at delete_at.
UpdateJobEntityStatusByJobUuid(j, st) == row' = [row EXCEPT ![j].st = st]

\* DeleteJobEntityByJobUuId and DeleteJobEntityBySpaceUuId.
DeleteJobEntity(j, st) ==
    row' = [row EXCEPT ![j] =
              IF Live(j) THEN [st |-> st, exp |-> row[j].exp, del |-> TRUE]
                         ELSE row[j]]

\* SaveJobEntity: writes every column, delete_at with them.
SaveJobEntity(j, r) == row' = [row EXCEPT ![j] = r]

-----------------------------------------------------------------------------
\* ReceiveJob and DeployImage.

\* updateJobStatus: a goroutine per message, so messages have no order.
Send(j, m) == sent' = [sent EXCEPT ![j] = @ \cup {m}]

\* The row is saved before anything is checked.
ReceiveSave(j) ==
    /\ pc[j] = "none" /\ now <= ArriveBy
    /\ SaveJobEntity(j, [st |-> "RECEIVED", exp |-> now + Duration, del |-> FALSE])
    /\ cre' = [cre EXCEPT ![j] = now]
    /\ pc' = [pc EXCEPT ![j] = "checking"]
    /\ UNCHANGED <<now, crashes, reportVars, clusterVars, removeVars,
                   renewVars, chain, history>>

\* Slip: the return after the refusal is forgotten.
ReceiveRefuse_goes_on(j) ==
    /\ pc[j] = "checking"
    /\ \E st \in {"REJECTED", "FAILED"} : UpdateJobEntityStatusByJobUuid(j, st)
    /\ pc' = [pc EXCEPT ![j] = "prepare"]
    /\ UNCHANGED <<now, crashes, cre, reportVars, clusterVars,
                   removeVars, renewVars, chain, history>>

\* Lists, signature, GPU usage, price, resources or download: no.
ReceiveRefuse(j) ==
    /\ pc[j] = "checking"
    /\ \E st \in {"REJECTED", "FAILED"} : UpdateJobEntityStatusByJobUuid(j, st)
    /\ pc' = [pc EXCEPT ![j] = "closed"]
    /\ UNCHANGED <<now, crashes, cre, reportVars, clusterVars,
                   removeVars, renewVars, chain, history>>

\* The early returns that leave the row as it was saved.
ReceiveDrop(j) ==
    /\ pc[j] = "checking"
    /\ pc' = [pc EXCEPT ![j] = "closed"]
    /\ UNCHANGED <<now, crashes, dbVars, reportVars, clusterVars,
                   removeVars, renewVars, chain, history>>

\* The goroutine that is started here first sends a status of its own.
ReceiveAccept(j) ==
    /\ pc[j] = "checking"
    /\ pc' = [pc EXCEPT ![j] = "prepare"]
    /\ Send(j, "DEPLOYING")
    /\ UNCHANGED <<now, crashes, dbVars, taskMap, clusterVars, removeVars,
                   renewVars, chain, history>>

-----------------------------------------------------------------------------
\* DeploySpaceTask and DeployImageSpaceTask, and what deploy.go does for them.

\* The space is fetched again, its image built or its file parsed.
Prepare(j) ==
    /\ pc[j] = "prepare"
    /\ pc' = [pc EXCEPT ![j] = "namespace"]
    /\ UNCHANGED <<now, crashes, dbVars, reportVars, clusterVars, removeVars,
                   renewVars, chain, history>>

DeployNamespace(j) ==
    /\ pc[j] = "namespace"
    /\ nsUp' = nsUp \cup {Owner[j]}
    /\ pc' = [pc EXCEPT ![j] = "create"]
    /\ UNCHANGED <<now, crashes, dbVars, reportVars, up, pods, born, gc,
                   removeVars, renewVars, chain, history>>

CreateDeployment(j) ==
    /\ pc[j] = "create"
    /\ Owner[j] \in nsUp /\ ~up[j]
    /\ up' = [up EXCEPT ![j] = TRUE]
    /\ born' = [born EXCEPT ![j] = now]
    /\ deployed' = [deployed EXCEPT ![j] = TRUE]
    /\ Send(j, "DEPLOYING")
    /\ pc' = [pc EXCEPT ![j] = "expose"]
    /\ UNCHANGED <<now, crashes, dbVars, taskMap, pods, nsUp, gc, removeVars,
                   renewVars, chain, overlap, erred>>

\* The service and its ingress (deployK8sResource) ...
Expose(j) ==
    /\ pc[j] = "expose"
    /\ Owner[j] \in nsUp
    /\ Send(j, "TO_K8S")
    /\ pc' = [pc EXCEPT ![j] = "stamp"]
    /\ UNCHANGED <<now, crashes, dbVars, taskMap, clusterVars, removeVars,
                   renewVars, chain, history>>

\* ... or a service with node ports (DeploySshTaskToK8s, and DeployImageToK8s
\* with several ports), which is announced only after submitJob.
ExposePorts(j) ==
    /\ pc[j] = "expose" /\ Kind[j] # "dockerfile"
    /\ Owner[j] \in nsUp
    /\ pc' = [pc EXCEPT ![j] = "stamp_ports"]
    /\ UNCHANGED <<now, crashes, dbVars, reportVars, clusterVars, removeVars,
                   renewVars, chain, history>>

\* A yaml file may list further services, each of them a deployment by the same
\* name (YamlToK8s).
AfterStamp(j) ==
    IF pc[j] = "stamp_ports" THEN {"submit"}
    ELSE {"done"} \cup (IF Kind[j] = "yaml" THEN {"create"} ELSE {})

\* Slip: the time runs from the job's arrival instead of from now.
WatchContainerRunningTime_from_start(j) ==
    /\ pc[j] \in {"stamp", "stamp_ports"}
    /\ UpdateJobEntityByJobUuid(j, "RECEIVED", cre[j] + Duration)
    /\ \E after \in AfterStamp(j) : pc' = [pc EXCEPT ![j] = after]
    /\ UNCHANGED <<now, crashes, cre, reportVars, clusterVars, removeVars,
                   renewVars, chain, history>>

\* watchContainerRunningTime restarts the paid time. At "stamp" it does so only
\* when UpdateContainerLogToFile returns, which waits ten minutes for the pod and
\* then follows its log: as late as the end of the container, or never.
WatchContainerRunningTime(j) ==
    /\ pc[j] \in {"stamp", "stamp_ports"}
    /\ UpdateJobEntityByJobUuid(j, "RECEIVED", now + Duration)
    /\ \E after \in AfterStamp(j) : pc' = [pc EXCEPT ![j] = after]
    /\ UNCHANGED <<now, crashes, cre, reportVars, clusterVars, removeVars,
                   renewVars, chain, history>>

\* submitJob with the node ports.
Submit(j) ==
    /\ pc[j] = "submit"
    /\ Send(j, "TO_K8S")
    /\ pc' = [pc EXCEPT ![j] = "done"]
    /\ UNCHANGED <<now, crashes, dbVars, taskMap, clusterVars, removeVars,
                   renewVars, chain, history>>

\* The calls that fail: by themselves, because the namespace is gone, or because
\* there is a deployment by that name already.
MayFail(j) ==
    \/ "deploy" \in Faults
         /\ pc[j] \in {"prepare", "namespace", "create", "expose", "submit"}
    \/ pc[j] \in {"create", "expose"} /\ Owner[j] \notin nsUp
    \/ pc[j] = "create" /\ up[j]

\* A failure runs the deferred clean-up, which calls DeleteJob ...
DeployFails(j) ==
    /\ MayFail(j)
    /\ pc' = [pc EXCEPT ![j] = "done"]
    /\ rm' = [rm EXCEPT ![j]["undo"] = "delete"]
    /\ UNCHANGED <<now, crashes, dbVars, reportVars, clusterVars, why, sweep,
                   renewVars, chain, history>>

\* ... except in DockerfileToK8s, which has no result: DeploySpaceTask takes
\* every return from it for a success.
FailureSwallowed(j) ==
    /\ MayFail(j) /\ Kind[j] = "dockerfile"
    /\ pc[j] \in {"namespace", "create", "expose"}
    /\ pc' = [pc EXCEPT ![j] = "done"]
    /\ UNCHANGED <<now, crashes, dbVars, reportVars, clusterVars, removeVars,
                   renewVars, chain, history>>

-----------------------------------------------------------------------------
\* checkJobStatus: the goroutine behind deployingChan.

ReceiveStatus(j) ==
    /\ \E m \in sent[j] : /\ sent' = [sent EXCEPT ![j] = @ \ {m}]
                          /\ taskMap' = [taskMap EXCEPT ![j] = m]
    /\ UNCHANGED <<now, crashes, dbVars, pc, clusterVars, removeVars,
                   renewVars, chain, history>>

\* Slip: the deploy status is stored as it came.
ReportedStatus_unmapped(m) == IF m = "TO_K8S" THEN "RUNNING" ELSE m

\* Slip: a job that is reported at all is taken for a running one.
ReportedStatus_eager(m) == "RUNNING"

\* reportJobStatus: below DEPLOY_TO_K8S the job is being deployed.
ReportedStatus(m) == IF m = "TO_K8S" THEN "RUNNING" ELSE "DEPLOY"

ReportStatus(j) ==
    /\ taskMap[j] # "none"
    /\ UpdateJobEntityByJobUuid(j, ReportedStatus(taskMap[j]), 0)
    /\ taskMap' = [taskMap EXCEPT ![j] = IF @ = "TO_K8S" THEN "none" ELSE @]
    /\ UNCHANGED <<now, crashes, cre, pc, sent, clusterVars,
                   removeVars, renewVars, chain, history>>

-----------------------------------------------------------------------------
\* CancelJob, the CLI's delete, and DeleteJob.

\* history: somebody decides to remove j while it is still being deployed.
NoteOverlap(j) ==
    overlap' = [overlap EXCEPT ![j] =
                  @ \/ pc[j] \in Deploying \cup {"checking"}]

\* Rows are looked up by task_uuid, which DeployImage leaves empty.
CancelJob(j) ==
    /\ "cancel" \in Enabled
    /\ Live(j) /\ Kind[j] # "image" /\ rm[j]["cancel"] = "off"
    /\ rm' = [rm EXCEPT ![j]["cancel"] = "delete"]
    /\ NoteOverlap(j)
    /\ UNCHANGED <<now, crashes, dbVars, pc, reportVars, clusterVars,
                   why, sweep, renewVars, chain, deployed, erred>>

TaskDelete(j) ==
    /\ "cli" \in Enabled
    /\ row[j].st # "NONE" /\ rm[j]["cli"] = "off"
    /\ rm' = [rm EXCEPT ![j]["cli"] = "delete"]
    /\ NoteOverlap(j)
    /\ UNCHANGED <<now, crashes, dbVars, pc, reportVars, clusterVars,
                   why, sweep, renewVars, chain, deployed, erred>>

\* DeployImageSpaceTask never sets walletAddress, so its clean-up looks in
\* the namespace "ns-", where there is nothing.
Reaches(j, a) == ~(a = "undo" /\ Kind[j] = "image")

\* What the caller does when DeleteJob returns: cancel, the clean-up and the
\* CLI ignore its error, the expiry cron does so only for a deployment without
\* replicas.
AfterDeleteJob(j, a, ok) ==
    IF a # "sweep" \/ why[j] = "idle" \/ (why[j] = "expired" /\ ok)
    THEN "mark" ELSE "off"

\* Slip: the ingress and the service go, the deployment stays.
DeleteJob_partial(j, a) ==
    /\ rm[j][a] = "delete"
    /\ rm' = [rm EXCEPT ![j][a] = AfterDeleteJob(j, a, TRUE)]
    /\ why' = IF a = "sweep" THEN [why EXCEPT ![j] = "stale"] ELSE why
    /\ UNCHANGED <<now, crashes, dbVars, pc, reportVars, up, pods, born, nsUp, gc,
                   sweep, renewVars, chain, history>>

\* The ingress, the service, the deployment, the replica sets and the pods are
\* deleted, and the wait for the pods ends. Only the deployment is modelled.
DeleteJob(j, a) ==
    /\ rm[j][a] = "delete"
    /\ up' = [up EXCEPT ![j] = @ /\ ~Reaches(j, a)]
    /\ rm' = [rm EXCEPT ![j][a] = AfterDeleteJob(j, a, TRUE)]
    /\ why' = IF a = "sweep" THEN [why EXCEPT ![j] = "stale"] ELSE why
    /\ UNCHANGED <<now, crashes, dbVars, pc, reportVars, pods, born, nsUp, gc,
                   sweep, renewVars, chain, history>>

\* DeleteJob returns at its first error, before or after the deployment.
DeleteJobFails(j, a) ==
    /\ "delete" \in Faults
    /\ rm[j][a] = "delete"
    /\ \E left \in BOOLEAN : up' = [up EXCEPT ![j] = @ /\ (left \/ ~Reaches(j, a))]
    /\ rm' = [rm EXCEPT ![j][a] = AfterDeleteJob(j, a, FALSE)]
    /\ why' = IF a = "sweep" THEN [why EXCEPT ![j] = "stale"] ELSE why
    /\ erred' = [erred EXCEPT ![j] = TRUE]
    /\ UNCHANGED <<now, crashes, dbVars, pc, reportVars, pods, born, nsUp, gc,
                   sweep, renewVars, chain, deployed, overlap>>

MarkDeleted(j, a) ==
    /\ rm[j][a] = "mark"
    /\ DeleteJobEntity(j, IF a = "sweep" THEN "COMPLETED" ELSE "TERMINATED")
    /\ rm' = [rm EXCEPT ![j][a] = "off"]
    /\ UNCHANGED <<now, crashes, cre, pc, reportVars, clusterVars,
                   why, sweep, renewVars, chain, history>>

-----------------------------------------------------------------------------
\* ReNewJob.

RenewRead(j) ==
    /\ "renew" \in Enabled
    /\ Live(j) /\ Kind[j] # "image" /\ renew[j] = NoRow
    /\ row[j].exp >= now
    /\ renewals[j] < MaxRenew
    /\ renewals' = [renewals EXCEPT ![j] = @ + 1]
    /\ renew' = [renew EXCEPT ![j] = row[j]]
    /\ UNCHANGED <<now, crashes, dbVars, pc, reportVars, clusterVars,
                   removeVars, chain, history>>

\* getJobExpiredTime asks the chain, and gives 0 when it does not answer; its
\* result is tested, and then asked for again.
ChainExpiry(j) == {chain[j].exp} \cup (IF "chain" \in Faults THEN {0} ELSE {})

RenewSave(j) ==
    /\ renew[j] # NoRow
    /\ \E first, second \in ChainExpiry(j) :
          SaveJobEntity(j, [renew[j] EXCEPT
                              !.exp = IF first = 0 THEN @ + Duration ELSE second])
    /\ renew' = [renew EXCEPT ![j] = NoRow]
    /\ UNCHANGED <<now, crashes, cre, pc, reportVars, clusterVars,
                   removeVars, renewals, chain, history>>

-----------------------------------------------------------------------------
\* watchExpiredTask.

Aged(j) == now - cre[j] > Old

Over(st) == st \in {"TERMINATED", "COMPLETED"}

\* Slip: only the jobs that are running are swept.
SweepRow_running(j) ==
    /\ "sweep" \in Enabled
    /\ sweep[j].at = "off" /\ rm[j]["sweep"] = "off"
    /\ Live(j) /\ row[j].st = "RUNNING"
    /\ sweep' = [sweep EXCEPT ![j] =
                   [at  |-> IF Over(row[j].st) /\ up[j] THEN "stale" ELSE "judge",
                    row |-> row[j]]]
    /\ UNCHANGED <<now, crashes, dbVars, pc, reportVars, clusterVars, rm, why,
                   renewVars, chain, history>>

\* GetJobListByNoRejectStatus, and the list of all deployments with it: a job
\* that is over while its deployment is listed is only deleted.
SweepRow(j) ==
    /\ "sweep" \in Enabled
    /\ sweep[j].at = "off" /\ rm[j]["sweep"] = "off"
    /\ Live(j) /\ row[j].st # "REJECTED"
    /\ sweep' = [sweep EXCEPT ![j] =
                   [at  |-> IF Over(row[j].st) /\ up[j] THEN "stale" ELSE "judge",
                    row |-> row[j]]]
    /\ UNCHANGED <<now, crashes, dbVars, pc, reportVars, clusterVars, rm, why,
                   renewVars, chain, history>>

\* The sweep of this job ends, and DeleteJob (from "delete") or only the mark
\* in the database (from "mark") is left to do.
SweepRemoves(j, reason, phase) ==
    /\ rm' = [rm EXCEPT ![j]["sweep"] = phase]
    /\ why' = [why EXCEPT ![j] = reason]
    /\ sweep' = [sweep EXCEPT ![j] = [at |-> "off", row |-> NoRow]]
    /\ NoteOverlap(j)
    /\ UNCHANGED <<deployed, erred>>

SweepEnds(j) ==
    /\ sweep' = [sweep EXCEPT ![j] = [at |-> "off", row |-> NoRow]]
    /\ UNCHANGED <<rm, why, history>>

\* The row says the job is over and its deployment is still there.
SweepStale(j) ==
    /\ sweep[j].at = "stale"
    /\ SweepRemoves(j, "stale", "delete")
    /\ UNCHANGED <<now, crashes, dbVars, pc, reportVars, clusterVars,
                   renewVars, chain>>

\* Slip: a running job is taken for one that is still being deployed.
SweepNotFound_patient(j) ==
    /\ sweep[j].at = "judge" /\ ~up[j]
    /\ IF sweep[j].row.st \in {"DEPLOY", "RUNNING"}
       THEN SweepEnds(j)
       ELSE SweepRemoves(j, "stale", "mark")
    /\ UNCHANGED <<now, crashes, dbVars, pc, reportVars, clusterVars,
                   renewVars, chain>>

\* The deployment is not found: young jobs are left alone.
SweepNotFound(j) ==
    /\ sweep[j].at = "judge" /\ ~up[j]
    /\ IF ~Aged(j) /\ sweep[j].row.st # "RUNNING"
       THEN SweepEnds(j)
       ELSE SweepRemoves(j, "stale", "mark")
    /\ UNCHANGED <<now, crashes, dbVars, pc, reportVars, clusterVars,
                   renewVars, chain>>

\* No replica is available after two hours.
SweepIdle(j) ==
    /\ sweep[j].at = "judge" /\ up[j]
    /\ pods[j] # "ready" /\ Aged(j)
    /\ SweepRemoves(j, "idle", "delete")
    /\ UNCHANGED <<now, crashes, dbVars, pc, reportVars, clusterVars,
                   renewVars, chain>>

\* Slip: the status of a job whose deployment is there is not corrected.
SweepFound_uncorrected(j) ==
    /\ sweep[j].at = "judge" /\ up[j]
    /\ pods[j] = "ready" \/ ~Aged(j)
    /\ sweep' = [sweep EXCEPT ![j].at = "chain"]
    /\ UNCHANGED <<now, crashes, dbVars, pc, reportVars, clusterVars, rm,
                   why, renewVars, chain, history>>

\* The deployment is there: the row is written back with status RUNNING.
SweepFound(j) ==
    /\ sweep[j].at = "judge" /\ up[j]
    /\ pods[j] = "ready" \/ ~Aged(j)
    /\ IF sweep[j].row.st = "RUNNING" THEN UNCHANGED row
       ELSE UpdateJobEntityByJobUuid(j, "RUNNING", sweep[j].row.exp)
    /\ sweep' = [sweep EXCEPT ![j] = [at |-> "chain",
                                      row |-> [@.row EXCEPT !.st = "RUNNING"]]]
    /\ UNCHANGED <<now, crashes, cre, pc, reportVars, clusterVars, rm,
                   why, renewVars, chain, history>>

\* checkFcpJobInfoInChain: what the chain says of the job that was read. It
\* says nothing of an image job, whose task_uuid is empty.
OnChain(j) == chain[j].st # "absent" /\ Kind[j] # "image"

Verdict(j) == [completed |-> "COMPLETED", terminated |-> "TERMINATED",
               active |-> sweep[j].row.st][chain[j].st]

\* The status of the job and its expire_time decide whether it is removed.
SweepConcludes(j, st, exp) ==
    IF Over(st) \/ now > exp THEN SweepRemoves(j, "expired", "delete")
                             ELSE SweepEnds(j)

SweepChain(j) ==
    /\ sweep[j].at = "chain"
    /\ \/ /\ OnChain(j)
          /\ UpdateJobEntityByJobUuid(j, Verdict(j), chain[j].exp)
          /\ SweepConcludes(j, Verdict(j), chain[j].exp)
       \/ /\ ~OnChain(j) \/ "chain" \in Faults
          /\ UNCHANGED row
          /\ SweepConcludes(j, sweep[j].row.st, sweep[j].row.exp)
    /\ UNCHANGED <<now, crashes, cre, pc, reportVars, clusterVars,
                   renewVars, chain>>

-----------------------------------------------------------------------------
\* cleanAbnormalDeployment and watchNameSpaceForDeleted.

CleanAbnormalDeployment(j) ==
    /\ "abnormal" \in Enabled
    /\ up[j] /\ pods[j] # "ready"
    /\ now - born[j] >= Old
    /\ up' = [up EXCEPT ![j] = FALSE]
    /\ UNCHANGED <<now, crashes, dbVars, pc, reportVars, pods, born,
                   nsUp, gc, removeVars, renewVars, chain, history>>

\* The namespace has no pods ...
NamespaceIdle(w) ==
    /\ "namespace" \in Enabled
    /\ w \in nsUp \ gc
    /\ \A j \in Jobs : Owner[j] = w => pods[j] = "absent"
    /\ gc' = gc \cup {w}
    /\ UNCHANGED <<now, crashes, dbVars, pc, reportVars, up, pods,
                   born, nsUp, removeVars, renewVars, chain, history>>

\* ... when it was looked at; it is deleted with all that is in it by now.
DeleteNameSpace(w) ==
    /\ w \in gc
    /\ gc' = gc \ {w} /\ nsUp' = nsUp \ {w}
    /\ up' = [j \in Jobs |-> up[j] /\ Owner[j] # w]
    /\ UNCHANGED <<now, crashes, dbVars, pc, reportVars, pods, born,
                   removeVars, renewVars, chain, history>>

-----------------------------------------------------------------------------
\* The environment: the cluster, the chain, the clock and crashes.

Pods(j) ==
    /\ \/ /\ up[j]
          /\ pods' = [pods EXCEPT ![j] = IF @ = "pending" THEN "ready" ELSE "pending"]
       \/ /\ ~up[j] /\ pods[j] # "absent"
          /\ pods' = [pods EXCEPT ![j] = "absent"]
    /\ UNCHANGED <<now, crashes, dbVars, pc, reportVars, up, born,
                   nsUp, gc, removeVars, renewVars, chain, history>>

ChainMoves(j) ==
    /\ "chain" \in Enabled /\ Kind[j] # "image"
    /\ \/ /\ chain[j].st = "absent" /\ row[j].st # "NONE"
          /\ chain' = [chain EXCEPT ![j] = [st |-> "active", exp |-> now + Duration]]
       \/ /\ chain[j].st = "active" /\ chain[j].exp < MaxTime
          /\ chain' = [chain EXCEPT ![j].exp = @ + Duration]
       \/ /\ chain[j].st = "active"
          /\ \E s \in {"completed", "terminated"} : chain' = [chain EXCEPT ![j].st = s]
    /\ UNCHANGED <<now, crashes, dbVars, pc, reportVars, clusterVars,
                   removeVars, renewVars, history>>

Tick ==
    /\ now < MaxTime
    /\ now' = now + 1
    /\ UNCHANGED <<crashes, dbVars, pc, reportVars, clusterVars,
                   removeVars, renewVars, chain, history>>

\* The provider stops and starts again: what its goroutines were doing is
\* lost, and nothing at start-up looks for it. The CLI is another process.
Crash ==
    /\ "crash" \in Faults /\ crashes < MaxCrash
    /\ crashes' = crashes + 1
    /\ pc' = [j \in Jobs |-> IF pc[j] \in Deploying \cup {"checking"} THEN "dead"
                                                                    ELSE pc[j]]
    /\ sent' = [j \in Jobs |-> {}] /\ taskMap' = [j \in Jobs |-> "none"]
    /\ rm' = [j \in Jobs |-> [a \in Actors |-> IF a = "cli" THEN rm[j][a] ELSE "off"]]
    /\ sweep' = [j \in Jobs |-> [at |-> "off", row |-> NoRow]]
    /\ renew' = [j \in Jobs |-> NoRow]
    /\ gc' = {}
    /\ UNCHANGED <<now, dbVars, up, pods, born, nsUp, why, renewals, chain,
                   history>>

-----------------------------------------------------------------------------
Receive(j) == ReceiveSave(j) \/ ReceiveRefuse(j) \/ ReceiveDrop(j) \/ ReceiveAccept(j)

Deploy(j) == \/ Prepare(j) \/ DeployNamespace(j) \/ CreateDeployment(j)
             \/ Expose(j) \/ ExposePorts(j) \/ WatchContainerRunningTime(j)
             \/ Submit(j) \/ DeployFails(j) \/ FailureSwallowed(j)

Report(j) == ReceiveStatus(j) \/ ReportStatus(j)

Remove(j, a) == DeleteJob(j, a) \/ DeleteJobFails(j, a) \/ MarkDeleted(j, a)

Renew(j) == RenewRead(j) \/ RenewSave(j)

Sweep(j) == \/ SweepRow(j) \/ SweepStale(j)
            \/ SweepNotFound(j) \/ SweepIdle(j) \/ SweepFound(j) \/ SweepChain(j)

JobStep(j) == \/ Receive(j) \/ Deploy(j) \/ Report(j) \/ CancelJob(j)
              \/ TaskDelete(j) \/ Renew(j) \/ Sweep(j)
              \/ CleanAbnormalDeployment(j) \/ Pods(j) \/ ChainMoves(j)
              \/ \E a \in Actors : Remove(j, a)

Next == \/ \E j \in Jobs : JobStep(j)
        \/ \E w \in Wallets : NamespaceIdle(w) \/ DeleteNameSpace(w)
        \/ Tick
        \/ Crash

Spec == Init /\ [][Next]_vars

\* Goroutines and cron jobs run on and the clock advances. Nobody has to call, to
\* crash or to fail, and a container's log need not end.
Fairness ==
    /\ WF_vars(Tick)
    /\ \A j \in Jobs :
         /\ WF_vars(pc[j] # "stamp" /\ Deploy(j))
         /\ WF_vars(ReceiveStatus(j)) /\ WF_vars(ReportStatus(j))
         /\ WF_vars(Sweep(j)) /\ WF_vars(RenewSave(j))
         /\ \A a \in Actors : WF_vars(Remove(j, a))

FairSpec == Spec /\ Fairness

-----------------------------------------------------------------------------
\* Safety.

\* A job that is shown as running has had a deployment: neither a late nor a
\* reordered status report, nor a row read before and written back after, nor
\* a cron job shows a job as running that never reached the cluster
\* (reportJobStatus, watchExpiredTask, ReNewJob).
RunningWasDeployed == \A j \in Jobs : row[j].st = "RUNNING" => deployed[j]

\* A job the provider refused is never put on the cluster, and one that was
\* put there is never recorded as refused (the early returns of ReceiveJob and
\* DeployImage against everything that writes rows back).
RefusedNeverDeployed ==
    \A j \in Jobs : row[j].st \in {"REJECTED", "FAILED"} => ~deployed[j]

\* What every step preserves of the two: wherever "running" or "in the cluster"
\* is written down, be it a row, a row someone read, a message or TaskMap, there
\* has been a deployment, and a refusal is written down only for a job whose
\* handler is over and has started nothing.
Written(j) == {row[j].st, sweep[j].row.st, renew[j].st}

DeployedWhenSaid(j) ==
    /\ "RUNNING" \in Written(j) => deployed[j]
    /\ "TO_K8S" \in sent[j] \cup {taskMap[j]} => deployed[j]
    /\ up[j] => deployed[j]
    /\ pc[j] \in {"expose", "stamp", "stamp_ports", "submit"} => deployed[j]

ClosedWhenRefused(j) ==
    /\ deployed[j] => pc[j] \notin {"none", "checking", "closed"}
    /\ Written(j) \cap {"REJECTED", "FAILED"} # {} => pc[j] = "closed"

StatusInv == TypeOK /\ \A j \in Jobs : DeployedWhenSaid(j) /\ ClosedWhenRefused(j)

Removing(j) == \E a \in Actors : rm[j][a] # "off"

\* A deployment that runs on for a job whose row is deleted, with nobody about
\* to remove it, is one nothing will ever find (the expiry cron reads only the
\* rows that are not deleted). It comes about in three ways and no other: the
\* job was removed while it was being deployed, a DeleteJob gave up halfway,
\* or the clean-up of an image job looked in the wrong namespace.
LeakHasCause ==
    \A j \in Jobs :
        (up[j] /\ row[j].del /\ ~Removing(j))
            => overlap[j] \/ erred[j] \/ Kind[j] = "image"

\* What a deleted row says stays: reports and sweeps that come after the
\* deletion leave it alone. The two exceptions are a refusal decided after a
\* cancel, and ReNewJob saving the whole row it read before.
VerdictKept ==
    [][\A j \in Jobs : row[j].del /\ row'[j] # row[j] =>
            \/ pc[j] = "checking" /\ pc'[j] = "closed" /\ row'[j].del
            \/ renew[j] # NoRow /\ renew'[j] = NoRow]_vars

\* What it rests on: before its request there is no row to write.
Unseen == \A j \in Jobs : pc[j] = "none" => row[j] = NoRow /\ renew[j] = NoRow

\* The time a customer paid for is never cut while the job is live, except by
\* four writes: the expiry cron writes back an expire_time it read before
\* watchContainerRunningTime or ReNewJob moved it, ReNewJob does the same,
\* watchContainerRunningTime restarts the time of a job that was renewed, or given
\* the chain's time, while its container ran (it does so when the container's log
\* ends), and the chain's own figure is taken, which is 0 when the second of
\* ReNewJob's two questions is not answered.
PaidTimeKept ==
    [][\A j \in Jobs : Live(j) /\ row'[j].exp < row[j].exp =>
            \/ sweep[j].at # "off" /\ row'[j].exp \in {sweep[j].row.exp, chain[j].exp}
            \/ renew[j] # NoRow /\ row'[j].exp \in
                  {renew[j].exp + Duration, chain[j].exp, 0}
            \/ /\ row'[j].exp = now + Duration
               /\ renewals[j] > 0 \/ chain[j].st # "absent"]_vars

-----------------------------------------------------------------------------
\* Liveness.

Overdue(j) == Live(j) /\ row[j].st # "REJECTED" /\ now > row[j].exp

\* A job whose time is over does not stay: its row is deleted or its time is
\* extended, whatever became of its deployment and of the goroutines that
\* served it (watchExpiredTask is the only one to look).
OverdueIsRetired == \A j \in Jobs : Overdue(j) ~> ~Overdue(j)

\* A job whose deployment is there comes to be shown as running, even when its
\* goroutine still waits, failed or died with the provider, or when its last
\* report was overtaken by an earlier one (watchExpiredTask corrects it), unless
\* the deployment goes away or the job is over first.
DeployedIsShown ==
    \A j \in Jobs :
        (Live(j) /\ up[j]) ~> (row[j].st = "RUNNING" \/ ~Live(j) \/ ~up[j])

\* A job shown as running whose deployment went away under it (the namespace
\* collector, cleanAbnormalDeployment, a delete that failed later on) does not
\* stay so: it is retired, or it is not shown as running any more.
VanishedIsRetired ==
    \A j \in Jobs :
        (Live(j) /\ row[j].st = "RUNNING" /\ ~up[j])
            ~> (~Live(j) \/ up[j] \/ row[j].st # "RUNNING")

-----------------------------------------------------------------------------
\* What the documentation says of this component.

\* "Completed: Task has finished successfully" (docs/cli/task.md): a job that is
\* recorded as completed, once the routine that deploys it has returned with
\* nothing to clean up, was on the cluster at some time (deploy.go:142-210).
CompletedWasDeployed ==
    [][\A j \in Jobs :
          /\ pc[j] = "done" /\ rm[j]["undo"] = "off"
          /\ row[j].st # "COMPLETED" /\ row'[j].st = "COMPLETED"
          => deployed[j]]_vars

\* "Delete a specific task from your provider" (docs/cli/task.md): a task that
\* was deleted is not put on the cluster afterwards.
DeletedStaysGone ==
    [][\A j \in Jobs : row[j].del /\ ~up[j] => ~up'[j]]_vars

=============================================================================
