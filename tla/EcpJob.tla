------------------------------- MODULE EcpJob -------------------------------
(***************************************************************************)
(* The life of an ECP job: an image that runs as a docker container on one *)
(* machine, its row in t_ecp_job and the GPUs that row reserves. The       *)
(* request handler, the goroutine that starts the container, the cron that *)
(* copies docker's states to the rows, and the three ways to remove a job  *)
(* share the rows without a lock. Rows are written by uuid and containers  *)
(* are found by name.                                                      *)
(*                                                                         *)
(* One step is one call to the database or to docker.                      *)
(***************************************************************************)
EXTENDS Naturals, FiniteSets

CONSTANTS
    Requests,   \* the deploy requests the hub sends
    Jobs,       \* job uuids
    Uuid,       \* the uuid of each request: a hub that retries sends one twice
    Gpus,       \* the GPUs of the machine
    Need,       \* how many of them each request asks for
    Build,      \* the requests whose image is built here and not pulled
    NoName,     \* the container_name of a row that has none yet
    Enabled,    \* the ways to remove each job an instance has, out of Removers
    Faults,     \* which of "docker" (its API answers with an error) and
                \* "crash" may happen
    MaxCrash    \* bound: crashes of the provider

\* ImageJobService.DeleteJob, the CLI's task delete, and a payment event whose
\* job the hub says is over.
Removers == {"api", "cli", "payment"}

ASSUME EcpJobAssumption ==
    /\ Uuid \in [Requests -> Jobs]
    /\ Need \in [Requests -> Nat]
    /\ Build \subseteq Requests
    /\ NoName \notin Requests
    /\ Enabled \in [Jobs -> SUBSET Removers]
    /\ Faults \subseteq {"docker", "crash"}
    /\ MaxCrash \in Nat

VARIABLES
    pc,         \* where the handler of the request, then its goroutine, is
    gpus,       \* the GPUs picked for it (gpu_index)
    row,        \* its row: status and container_name
    aged,       \* its row is an hour old
    ctr,        \* its container, in docker
    sync,       \* where updateEcpTaskStatus is: the rows it has yet to write,
                \* the names it read of them, the states docker gave
    rmv,        \* where each remover of a job is, and the name it has read
    crashes,    \* crashes so far
    raced,      \* history: another row was saved between its check and its save
    revived     \* history: the cron gave a row its reservation back

vars == <<pc, gpus, row, aged, ctr, sync, rmv, crashes, raced, revived>>

-----------------------------------------------------------------------------
Names     == Requests \cup {NoName}
\* What docker calls a container, and "none" for one it does not have.
Container == {"none", "created", "running", "exited"}
Statuses  == {"none", "created", "running", "exited", "terminated",
              "rejected", "failed"}
NoRow     == [st |-> "none", name |-> NoName]
Idle      == [at |-> "off", name |-> NoName]
NotSynced == [at |-> "off", rows |-> {}, name |-> [r \in Requests |-> NoName],
              st |-> [r \in Requests |-> "none"]]

Starting == {"image", "create", "confirm", "name"}
Pcs      == {"none", "checking", "picked", "over"} \cup Starting

TypeOK ==
    /\ pc \in [Requests -> Pcs]
    /\ gpus \in [Requests -> SUBSET Gpus]
    /\ row \in [Requests -> [st : Statuses, name : Names]]
    /\ aged \in [Requests -> BOOLEAN]
    /\ ctr \in [Requests -> Container]
    /\ sync \in [at : {"off", "listed", "seen"}, rows : SUBSET Requests,
                 name : [Requests -> Names], st : [Requests -> Statuses]]
    /\ rmv \in [Jobs -> [Removers -> [at : {"off", "remove", "only", "mark"},
                                      name : Names]]]
    /\ crashes \in Nat
    /\ raced \in [Requests -> BOOLEAN]
    /\ revived \in [Requests -> BOOLEAN]

Init ==
    /\ pc = [r \in Requests |-> "none"]
    /\ gpus = [r \in Requests |-> {}]
    /\ row = [r \in Requests |-> NoRow]
    /\ aged = [r \in Requests |-> FALSE]
    /\ ctr = [r \in Requests |-> "none"]
    /\ sync = NotSynced
    /\ rmv = [j \in Jobs |-> [a \in Removers |-> Idle]]
    /\ crashes = 0
    /\ raced = [r \in Requests |-> FALSE]
    /\ revived = [r \in Requests |-> FALSE]

-----------------------------------------------------------------------------
\* The database calls of entity_service.go. delete_at is written and never
\* read for this table, so a row has none here.

RowsOf(j) == {r \in Requests : Uuid[r] = j /\ row[r].st # "none"}

\* The row of r after status st is written to the rows of job j.
Written(r, j, st) == IF r \in RowsOf(j) THEN [row[r] EXCEPT !.st = st] ELSE row[r]

UpdateEcpJobEntity(j, st) == row' = [r \in Requests |-> Written(r, j, st)]

\* UpdateEcpJobEntityMessage and DeleteContainerByUuid.
Terminate(j) == UpdateEcpJobEntity(j, "terminated")

UpdateEcpJobEntityContainerName(j, name) ==
    row' = [r \in Requests |-> IF r \in RowsOf(j) THEN [row[r] EXCEPT !.name = name]
                                                  ELSE row[r]]

\* GetEcpJobList({created, running}): the rows that reserve their GPUs.
Reserved(r) == row[r].st \in {"created", "running"}
Taken == UNION {gpus[r] : r \in {q \in Requests : Reserved(q)}}

-----------------------------------------------------------------------------
\* DeployJob.

Step(r, from, to) == pc[r] = from /\ pc' = [pc EXCEPT ![r] = to]

Receive(r) ==
    /\ Step(r, "none", "checking")
    /\ UNCHANGED <<gpus, row, aged, ctr, sync, rmv, crashes, raced, revived>>

\* A list, the signature, the price or the resources say no. The refusal is
\* written by uuid, before this request has a row of its own ...
Refuse(r) ==
    /\ Step(r, "checking", "over")
    /\ \E st \in {"rejected", "failed"} : UpdateEcpJobEntity(Uuid[r], st)
    /\ UNCHANGED <<gpus, aged, ctr, sync, rmv, crashes, raced, revived>>

\* ... and some of the early returns write nothing.
Drop(r) ==
    /\ Step(r, "checking", "over") \/ Step(r, "picked", "over")
    /\ UNCHANGED <<gpus, row, aged, ctr, sync, rmv, crashes, raced, revived>>

\* Slip: a job reserves its GPUs only once it is running.
Pick_running(r) ==
    /\ Step(r, "checking", "picked")
    /\ \E free \in SUBSET (Gpus \ UNION {gpus[q] : q \in
                              {p \in Requests : row[p].st = "running"}}) :
          Cardinality(free) = Need[r] /\ gpus' = [gpus EXCEPT ![r] = free]
    /\ UNCHANGED <<row, aged, ctr, sync, rmv, crashes, raced, revived>>

\* checkResourceForImageAndMutilGpu: of the GPUs the exporter calls available,
\* whichever they are, some that no row reserves.
Pick(r) ==
    /\ Step(r, "checking", "picked")
    /\ \E free \in SUBSET (Gpus \ Taken) :
          Cardinality(free) = Need[r] /\ gpus' = [gpus EXCEPT ![r] = free]
    /\ UNCHANGED <<row, aged, ctr, sync, rmv, crashes, raced, revived>>

\* The row is saved, and the goroutine of DeployMining or DeployInference starts.
Save(r) ==
    /\ Step(r, "picked", "image")
    /\ row' = [row EXCEPT ![r] = [st |-> "created", name |-> NoName]]
    /\ raced' = [q \in Requests |-> raced[q] \/ (q # r /\ pc[q] = "picked")]
    /\ UNCHANGED <<gpus, aged, ctr, sync, rmv, crashes, revived>>

-----------------------------------------------------------------------------
\* The goroutine. It never reads the row again.

GetImage(r) ==
    /\ Step(r, "image", "create")
    /\ UNCHANGED <<gpus, row, aged, ctr, sync, rmv, crashes, raced, revived>>

PullFails(r) ==
    /\ r \notin Build /\ Step(r, "image", "over")
    /\ Terminate(Uuid[r])
    /\ UNCHANGED <<gpus, aged, ctr, sync, rmv, crashes, raced, revived>>

\* No return follows a failed build. BuildImage also fails after docker has
\* built the image, when it cannot write the log.
BuildFails(r) ==
    /\ r \in Build /\ Step(r, "image", "create")
    /\ Terminate(Uuid[r])
    /\ UNCHANGED <<gpus, aged, ctr, sync, rmv, crashes, raced, revived>>

ContainerCreateAndStart(r) ==
    /\ Step(r, "create", "confirm")
    /\ ctr' = [ctr EXCEPT ![r] = "running"]
    /\ UNCHANGED <<gpus, row, aged, sync, rmv, crashes, raced, revived>>

\* It is not created, or it is created and does not start.
ContainerFails(r) ==
    /\ Step(r, "create", "over")
    /\ ctr' \in {ctr, [ctr EXCEPT ![r] = "created"]}
    /\ Terminate(Uuid[r])
    /\ UNCHANGED <<gpus, aged, sync, rmv, crashes, raced, revived>>

\* IsExistContainer, three seconds later, also answers no when docker does not
\* answer.
Confirm(r) ==
    \/ /\ ctr[r] # "none" /\ Step(r, "confirm", "name")
       /\ UNCHANGED <<gpus, row, aged, ctr, sync, rmv, crashes, raced, revived>>
    \/ /\ ctr[r] = "none" \/ "docker" \in Faults
       /\ Step(r, "confirm", "over")
       /\ Terminate(Uuid[r])
       /\ UNCHANGED <<gpus, aged, ctr, sync, rmv, crashes, raced, revived>>

Name(r) ==
    /\ Step(r, "name", "over")
    /\ UpdateEcpJobEntityContainerName(Uuid[r], r)
    /\ UNCHANGED <<gpus, aged, ctr, sync, rmv, crashes, raced, revived>>

-----------------------------------------------------------------------------
\* updateEcpTaskStatus: the rows, then docker's states, then a write for each row.

SyncReads(rows) ==
    /\ sync.at = "off" /\ rows # {}
    /\ sync' = [NotSynced EXCEPT
                  !.at = "listed", !.rows = rows,
                  !.name = [r \in Requests |-> IF r \in rows THEN row[r].name ELSE NoName]]
    /\ UNCHANGED <<pc, gpus, row, aged, ctr, rmv, crashes, raced, revived>>

\* Slip: only the running jobs are looked at.
SyncList_running == SyncReads({r \in Requests : row[r].st = "running"})

SyncList == SyncReads({r \in Requests : Reserved(r)})

\* Slip: the zero value of Go's map stands for a container that is not listed.
State_zero(name) == IF name = NoName \/ ctr[name] = "none" THEN "" ELSE ctr[name]

\* What GetContainerStatus says of the container by that name.
State(name) == IF name = NoName \/ ctr[name] = "none" THEN "terminated" ELSE ctr[name]

SyncInspect ==
    /\ sync.at = "listed"
    /\ \/ sync' = [sync EXCEPT !.at = "seen",
                     !.st = [r \in Requests |-> IF r \in sync.rows
                                                THEN State(sync.name[r]) ELSE "none"]]
       \/ "docker" \in Faults /\ sync' = NotSynced
    /\ UNCHANGED <<pc, gpus, row, aged, ctr, rmv, crashes, raced, revived>>

\* A row is done with; after the last one the cron waits for its next turn.
SyncNext(r) ==
    /\ sync.at = "seen" /\ r \in sync.rows
    /\ sync' = IF sync.rows = {r} THEN NotSynced
               ELSE [sync EXCEPT !.rows = @ \ {r}, !.name[r] = NoName, !.st[r] = "none"]
    /\ revived' = [q \in Requests |-> revived[q] \/ (~Reserved(q) /\ Reserved(q)')]
    /\ UNCHANGED <<pc, gpus, aged, ctr, rmv, crashes, raced>>

\* Slip: a job is judged as soon as it has a row.
SyncWrite_young(r) == UpdateEcpJobEntity(Uuid[r], sync.st[r]) /\ SyncNext(r)

\* Jobs younger than an hour are left alone.
SyncWrite(r) ==
    /\ IF aged[r] THEN UpdateEcpJobEntity(Uuid[r], sync.st[r]) ELSE UNCHANGED row
    /\ SyncNext(r)

-----------------------------------------------------------------------------
\* Removing a job.

\* Slip: the API removes by whatever name it has read.
RemoveRead_unguarded(j, a) ==
    /\ a \in Enabled[j] /\ rmv[j][a].at = "off"
    /\ \/ \E r \in RowsOf(j) :
             rmv' = [rmv EXCEPT ![j][a] = [at |-> "remove", name |-> row[r].name]]
       \/ /\ RowsOf(j) = {}
          /\ rmv' = [rmv EXCEPT ![j][a] = [at |-> "only", name |-> NoName]]
    /\ UNCHANGED <<pc, gpus, row, aged, ctr, sync, crashes, raced, revived>>

\* GetEcpJobByUuid takes one of the rows. For a uuid it does not find (the payment
\* of a job that is not in this table) it gives an empty row, with an empty name
\* and nothing to mark. Only the API looks whether there is a name: without one it
\* takes the uuid for that of a mining task, and removes the container whose name
\* has the uuid in it, which no container of this table has.
RemoveRead(j, a) ==
    /\ a \in Enabled[j] /\ rmv[j][a].at = "off"
    /\ \/ \E r \in RowsOf(j) :
             /\ a = "api" => row[r].name # NoName
             /\ rmv' = [rmv EXCEPT ![j][a] = [at |-> "remove", name |-> row[r].name]]
       \/ /\ RowsOf(j) = {} /\ a # "api"
          /\ rmv' = [rmv EXCEPT ![j][a] = [at |-> "only", name |-> NoName]]
    /\ UNCHANGED <<pc, gpus, row, aged, ctr, sync, crashes, raced, revived>>

\* RemoveContainerByName looks among the running containers for one whose name
\* contains the name: every name contains the empty one. The machine runs other
\* containers too, so the first of them need not be a job's.
Matches(r, name) == ctr[r] = "running" /\ name \in {r, NoName}

RemoveContainerByName(j, a) ==
    /\ rmv[j][a].at \in {"remove", "only"}
    /\ \/ \E r \in Requests : /\ Matches(r, rmv[j][a].name)
                              /\ ctr' = [ctr EXCEPT ![r] = "none"]
       \/ /\ \A r \in Requests : ~Matches(r, rmv[j][a].name) \/ rmv[j][a].name = NoName
          /\ ctr' = ctr
    /\ rmv' = [rmv EXCEPT ![j][a] = IF @.at = "only" THEN Idle ELSE [@ EXCEPT !.at = "mark"]]
    /\ UNCHANGED <<pc, gpus, row, aged, sync, crashes, raced, revived>>

\* docker answers with an error: the remover gives up.
RemoveFails(j, a) ==
    /\ "docker" \in Faults /\ rmv[j][a].at \in {"remove", "only"}
    /\ rmv' = [rmv EXCEPT ![j][a] = Idle]
    /\ UNCHANGED <<pc, gpus, row, aged, ctr, sync, crashes, raced, revived>>

DeleteContainerByUuid(j, a) ==
    /\ rmv[j][a].at = "mark"
    /\ Terminate(j)
    /\ rmv' = [rmv EXCEPT ![j][a] = Idle]
    /\ UNCHANGED <<pc, gpus, aged, ctr, sync, crashes, raced, revived>>

-----------------------------------------------------------------------------
\* The environment: containers end, stopped ones are pruned
\* (CleanResourceForDocker), time passes, and the provider crashes.

Exits(r) ==
    /\ ctr[r] = "running" /\ ctr' = [ctr EXCEPT ![r] = "exited"]
    /\ UNCHANGED <<pc, gpus, row, aged, sync, rmv, crashes, raced, revived>>

ContainersPrune(r) ==
    /\ ctr[r] \in {"created", "exited"} /\ ctr' = [ctr EXCEPT ![r] = "none"]
    /\ UNCHANGED <<pc, gpus, row, aged, sync, rmv, crashes, raced, revived>>

Age(r) ==
    /\ row[r].st # "none" /\ ~aged[r]
    /\ aged' = [aged EXCEPT ![r] = TRUE]
    /\ UNCHANGED <<pc, gpus, row, ctr, sync, rmv, crashes, raced, revived>>

\* Handlers, goroutines and the cron are gone; containers and the CLI are not.
Crash ==
    /\ "crash" \in Faults /\ crashes < MaxCrash
    /\ crashes' = crashes + 1
    /\ pc' = [r \in Requests |-> IF pc[r] = "none" THEN "none" ELSE "over"]
    /\ sync' = NotSynced
    /\ rmv' = [j \in Jobs |-> [a \in Removers |-> IF a = "cli" THEN rmv[j][a] ELSE Idle]]
    /\ UNCHANGED <<gpus, row, aged, ctr, raced, revived>>

-----------------------------------------------------------------------------
Deploy(r) == \/ Receive(r) \/ Refuse(r) \/ Drop(r) \/ Pick(r) \/ Save(r)
             \/ GetImage(r) \/ PullFails(r) \/ BuildFails(r)
             \/ ContainerCreateAndStart(r) \/ ContainerFails(r)
             \/ Confirm(r) \/ Name(r)

Sync == SyncList \/ SyncInspect \/ \E r \in Requests : SyncWrite(r)

Remove(j, a) == \/ RemoveRead(j, a) \/ RemoveContainerByName(j, a)
                \/ RemoveFails(j, a) \/ DeleteContainerByUuid(j, a)

Next == \/ \E r \in Requests : \/ Deploy(r)
                               \/ Exits(r) \/ ContainersPrune(r) \/ Age(r)
        \/ \E j \in Jobs, a \in Removers : Remove(j, a)
        \/ Sync
        \/ Crash

Spec == Init /\ [][Next]_vars

\* The cron runs every 30 seconds and time passes; docker, when it may fail,
\* does not fail for ever, which strong fairness of its answer says.
Fairness ==
    /\ \A r \in Requests : WF_vars(Age(r)) /\ WF_vars(SyncWrite(r))
    /\ WF_vars(SyncList)
    /\ SF_vars(SyncInspect /\ sync'.at = "seen")

FairSpec == Spec /\ Fairness

-----------------------------------------------------------------------------
\* Safety.

\* Two rows reserve the same GPU only after a race: one of them was saved while
\* the other request had picked its GPUs and not saved its row (DeployJob checks
\* first and saves last), or the cron wrote back a state that docker had
\* reported before the row was ended (updateEcpTaskStatus).
SharedOnlyByRace ==
    \A q, r \in Requests :
        (q # r /\ Reserved(q) /\ Reserved(r) /\ gpus[q] \cap gpus[r] # {})
            => \E p \in {q, r} : raced[p] \/ revived[p]

\* What every step preserves of it: what a request has picked is reserved by
\* another row only after such a race.
PickedInv ==
    \A q, r \in Requests :
        (q # r /\ Reserved(q) /\ pc[r] = "picked" /\ gpus[q] \cap gpus[r] # {})
            => raced[r] \/ revived[q]

Uses(r) == ctr[r] = "running"

\* A running container does not lose the reservation of its GPUs, and none is
\* started without one, except in these ways: the goroutine starts a container
\* whose row was ended before (it does not look); it does not get an answer
\* from docker; an hour has passed and the cron did not know the name of the
\* container; the job was removed when its row had another name or none; or
\* another request by the same uuid was refused or failed.
ReservationKept ==
    [][\A r \in Requests :
        (~(Uses(r) /\ ~Reserved(r)) /\ (Uses(r) /\ ~Reserved(r))')
            => \/ pc[r] = "create" /\ ~Reserved(r)
               \/ pc[r] = "confirm" /\ pc'[r] = "over" /\ "docker" \in Faults
               \/ \E q \in Requests :
                     /\ Uuid[q] = Uuid[r]
                     /\ \/ sync.at = "seen" /\ q \in sync.rows /\ aged[q]
                           /\ sync.name[q] # r
                        \/ q # r /\ pc[q] # "over" /\ pc'[q] \in {"create", "over"}
               \/ \E a \in Removers :
                     rmv[Uuid[r]][a].at = "mark" /\ rmv[Uuid[r]][a].name # r]_vars

\* A container is removed by a remover of its own job that has read its name, or
\* by the CLI or a payment event that has read no name at all, and never by the
\* API's DeleteJob of another job.
RemovedByNameOrNameless ==
    [][\A r \in Requests : (Uses(r) /\ ctr'[r] = "none")
            => \/ \E a \in Removers : rmv[Uuid[r]][a].name = r
               \/ \E j \in Jobs, a \in Removers \ {"api"} :
                     /\ rmv[j][a].at \in {"remove", "only"}
                     /\ rmv[j][a].name = NoName
                     /\ rmv'[j][a] # rmv[j][a]]_vars

\* What every step preserves of it: names stay with the uuid they belong to, and
\* the API goes on only with a name.
NamesInv ==
    /\ \A r \in Requests :
          row[r].name # NoName => Uuid[row[r].name] = Uuid[r]
    /\ \A j \in Jobs, a \in Removers :
          rmv[j][a].name # NoName => Uuid[rmv[j][a].name] = j
    /\ \A j \in Jobs :
          rmv[j]["api"].at # "off" => rmv[j]["api"].name # NoName

-----------------------------------------------------------------------------
\* Liveness.

\* GPUs do not stay reserved for ever by a job that has no container and that
\* nobody is starting, whether its container ended, was removed by a call that
\* did not mark the row, or its goroutine died with the provider before or after
\* docker started it (updateEcpTaskStatus is the only one to look): the row is
\* ended, unless a request by the same uuid has a container after all.
Siblings(r) == {q \in Requests : Uuid[q] = Uuid[r]}

Abandoned(r) == /\ Reserved(r)
                /\ \A q \in Siblings(r) : pc[q] \in {"none", "over"} /\ ~Uses(q)

ReservationReleased ==
    \A r \in Requests : Abandoned(r) ~> (~Reserved(r) \/ \E q \in Siblings(r) : Uses(q))

-----------------------------------------------------------------------------
\* What the documentation says of this component.

\* "Delete a specific task from your provider" (docs/cli/task.md): who removes a
\* job that is in the table removes no container but this job's, whatever its
\* goroutine has come to (task.go:251-258, docker_service.go:207-222).
OnlyOwnRemoved ==
    [][\A r \in Requests : (Uses(r) /\ ctr'[r] = "none")
            => \A j \in Jobs : \A a \in Removers :
                  (rmv[j][a].at = "remove" /\ rmv'[j][a] # rmv[j][a]) => j = Uuid[r]]_vars

=============================================================================
