# A TLA+ model of the computing provider

The computing provider is a daemon that rents out a Kubernetes cluster (*FCP*,
`computing-provider run`) or one docker host (*ECP*, `computing-provider ubi
daemon`), answers the requests of a hub, and keeps its book-keeping in one SQLite
file. HTTP handlers, the goroutines they start, cron jobs, tickers and the
operator's command line all read and write the same rows and the same containers.
There is no lock and no transaction around any of them. The modules in this
directory are about that: what the rows, the containers and the chain can come to
say about each other.

Paths are relative to the root of the repository; `computing/` stands for
`internal/computing/`.

## 1. Inventory

| Component | State it keeps | Operations | Talks to |
|---|---|---|---|
| FCP job life cycle: `computing/space_service.go`, `deploy.go`, `cron_task.go`, `cmd/computing-provider/task.go` | rows of `t_job` (status, expire_time, delete_at), deployments and namespaces, `deployingChan`, `TaskMap` | ReceiveJob, DeployImage, DeploySpaceTask, DeployImageSpaceTask, CancelJob, ReNewJob, DeleteJob, `task delete`, watchExpiredTask, cleanAbnormalDeployment, watchNameSpaceForDeleted, reportJobStatus | Kubernetes, task manager contract |
| ECP docker jobs: `computing/ecp_image_service.go`, `docker_service.go`, `ubi_service.go` | rows of `t_ecp_job` (status, container_name, gpu_index), containers | DeployJob, its goroutine, updateEcpTaskStatus, DeleteJob, `task delete`, pruning | docker, hub |
| Payment scanner: `computing/scan_task_payment.go` | `t_scan_chain` row 1, reward in `t_ecp_job` | scanAndProcessEvents, handleEdgeTask | chain, hub, docker |
| FCP reward scanner: `computing/scanner_service.go` | `t_scan_chain` row 2, reward in `t_job` | Scan, scanTaskRewards, parseRewardReleased | chain |
| UBI/ZK tasks: `computing/ubi_service.go` | rows of `t_task`, proving containers and Kubernetes jobs | DoZkTask…, DoUbiTask…, doMiningTask…, ReceiveUbiProof, submitUBIProof, three settling crons | docker, Kubernetes, chain, sequencer |
| Sequencer client: `computing/sequence_service.go` | `tokenCache` and its file | GetToken, SendTaskProof, QueryTask | sequencer, the keys |
| Resource checks and GPU cache: `computing/space_service.go`, `k8s_service.go` | `gpuResourceCache` | checkResourceAvailableFor…, saveGpuCache, deleteGpuCache | Kubernetes, resource exporter |
| Logs and websockets: `computing/wsclient.go` | channel of five messages, `stopCh` | HandleLogs, writeMessage, readMessage, Close | one browser |
| Clean-up: `computing/cron_task.go` | log directories, images | DeleteSpaceLog, cleanImageResource | files, docker |
| Node ports: `computing/k8s_service.go`, `ecp_image_service.go` | ports of services, ports of a docker host | CheckServiceNodePort, handleMultiPort | Kubernetes, docker |
| Identity and collateral: `cmd/computing-provider/run.go`, `utils.go`, `computing/provider.go`, `contract/account` | the account on the chain, its row in `t_cp_info` | account create and change, SyncCpAccountInfo, collateral add, reports | chain, hub |
| Wallet: `wallet/` | a leveldb of keys | SetupWallet, FindKey, WalletImport, WalletCollateral | files, chain |
| Deploy files, network policies, configuration, contract bindings | files | operator commands, parsing | files, chain |

What makes each of them hard, and what would make it correct:

- **FCP jobs.** A job has up to six writers: its handler, its goroutine, the status
  reporter, cancel or the operator, ReNewJob and the expiry cron. Several write
  back whole rows they read long before. *Correct*: what a row says of a job has
  happened; a refusal and a deletion stay; paid time is not cut; no deployment
  is left running without a live row; an overdue job goes away, also after a crash.
- **ECP jobs.** A GPU is reserved by the row, not by the container, and the row is
  saved at the end of a handler that checked at its beginning. Rows are written by
  uuid and containers found by name. *Correct*: one GPU, one reservation; a running
  container keeps its reservation; a removal removes its own container; reservations
  without a container are released.
- **Payment scanner.** Two tables, no transaction. *Correct*: every payment is booked,
  to its own job, once unless a pass was broken off.
- **FCP reward scanner.** Errors are logged and the block is stored. *Correct*: a
  reward is lost only to a logged error, or to an old row that ReNewJob or the cron of overdue
  jobs writes back.
- **ZK tasks.** The row of a task is saved whole by the handler, the goroutine that
  watches the prover, the submitter of the proof and three crons. *Correct*: a
  submitted proof is not recorded as failed, and none is submitted twice.
- **Mining tasks.** Their ids are MAX(id) + 1 in the table whose other ids the engine
  gives. *Correct*: one task, one row, and the sequencer's verdict is what it says in the end.
- **Task contracts.** Goroutines guess the nonce of one account. *Correct*: no gap in the
  nonces, and no contract is paid for twice without a cause.
- **Resource checks and GPU cache.** The check, the deployment and the running pod are
  minutes apart. *Correct*: two pods share a GPU, two services a port, only after a race; the
  cache counts the deployments under way and nothing else.
- **Websockets.** *Correct*: when one side goes, all goroutines of a client end, and a client
  that stays sees the whole log.
- **Keys and token.** One opener at a time, in any process. *Correct*: whoever opens the keys
  closes them, so that the sequencer's token can be renewed.
- **Account.** The row is written without waiting for the transaction. *Correct*: when
  nothing is under way, row and chain agree.
- **Collateral.** An approval, a wait and a deposit. *Correct*: what the operator is told has
  happened has, and no allowance is left over.

The hazards, each at its line and with the properties that would catch it, are in
`PROJECT.json`.

## 2. Plan

Done, in this order:

1. `SpaceJob`, the FCP job life cycle, and `EcpJob`, its counterpart on docker: the core.
2. `PayLedger` and `PayScan`, an abstract specification and its implementation.
3. `ZkTask`, a FIL-C2 task from its request to its settlement; `MiningTask`, the other kind.
4. `Deployment` and `TaskDeploy`, the second pair of abstract and detailed specification.
5. `RewardScan`, `WsLog`, `Placement`, `HostPorts`, `Keystore`, `CpInfo`, `Collateral`: small
   modules, each about what its part shares.
6. `MCBackground`, which instantiates `PayScan`, `MiningTask` and the modules of 4 and 5 for one run.

7. The proofs, one module `X_proofs` beside each of `SpaceJob`, `EcpJob`, `PayScan`, `ZkTask`,
   `TaskDeploy`, `RewardScan` and `Placement` (with `HostPorts`), and `Background_proofs` for
   `MiningTask`, `Collateral`, `CpInfo`, `WsLog`, `Keystore` and for all parts of `MCBackground`.

Nothing of safety is left to prove: each invariant and each action property of the passing runs,
and both refinements, are theorems (section 5). Liveness is TLC's (section 6).

All modules are without RECURSIVE operators, with one action per call to the
database, the cluster, docker or the chain, and with named assumptions on constants.

## 3. The modules

### SpaceJob

One step is one call to the database, the cluster or the chain: what may come
between two such calls in the code may come between two steps.

| Code | Model |
|---|---|
| `t_job` row | `row` (status, expire_time, delete_at), `cre` (create_time) |
| ReceiveJob, DeployImage up to their last answer | `ReceiveSave`, `ReceiveRefuse`, `ReceiveDrop`, `ReceiveAccept` |
| DeploySpaceTask, DeployImageSpaceTask, DockerfileToK8s, YamlToK8s, ImageToK8s | `pc` and `Prepare` … `Submit`, `DeployFails`, `FailureSwallowed` |
| watchContainerRunningTime | `WatchContainerRunningTime` at pc "stamp" |
| updateJobStatus (a goroutine on an unbuffered channel), reportJobStatus, `TaskMap` | `sent`, `taskMap`, `ReceiveStatus`, `ReportStatus` |
| CancelJob, `task delete`, the clean-up of a failed deployment, the cron: all through DeleteJob | `rm` with one entry per caller, `DeleteJob`, `DeleteJobFails`, `MarkDeleted` |
| ReNewJob | `RenewRead`, `RenewSave` (the row it read is in `renew`) |
| watchExpiredTask and checkFcpJobInfoInChain | `SweepRow` … `SweepChain` (the row it read is in `sweep`) |
| cleanAbnormalDeployment, watchNameSpaceForDeleted | `CleanAbnormalDeployment`, `NamespaceIdle` and `DeleteNameSpace` |
| task manager contract, pods, the clock, the process | `ChainMoves`, `Pods`, `Tick`, `Crash` (external) |

Things of the code that the model takes care to keep: gorm's `Updates` skips zero
values, and `UpdateJobEntityByJobUuid` asks for `delete_at` while
`UpdateJobEntityStatusByJobUuid` does not; DockerfileToK8s has no result, so
its failures look like successes; DeployImageSpaceTask does not set the wallet address, so
its clean-up looks in the wrong namespace; DeployImage stores no task_uuid, so neither
cancel nor the chain reaches an image job; `getJobExpiredTime` answers 0 when its
attempts fail, and ReNewJob asks twice.

Assumed or left out: the hub sends each job_uuid once, in lower case; saving a row does not
fail; a pass of watchExpiredTask does not overlap the next (it usually takes seconds, the
interval is minutes; the cron library would allow it); the list of rows and of
deployments are read in one step; of the objects of a job only its deployment and
its namespace are there; the upload of the result url and the pod status column are
not; an error of the cluster other than "not found" is not modelled where the
cron looks for a deployment; a job whose goroutine died is pc "dead" after a crash.

### EcpJob

| Code | Model |
|---|---|
| `t_ecp_job` rows (uuid is not unique) | `row`, one per request; `Uuid` maps requests to jobs; `gpus` |
| DeployJob, checkResourceForImageAndMutilGpu | `Receive`, `Refuse`, `Drop`, `Pick`, `Save` |
| DeployInference and the goroutine for other images | `GetImage`, `PullFails`, `BuildFails`, `ContainerCreateAndStart` and the steps that store its name |
| updateEcpTaskStatus, every 30 s | `SyncList`, `SyncInspect`, `SyncWrite`; `sync` holds what it has read |
| ImageJobService.DeleteJob, `task delete`, handleEdgeTask | `rmv`, one entry per job and remover: `RemoveRead`, `RemoveContainerByName`, `RemoveFails`, `DeleteContainerByUuid` |
| CleanResourceForDocker | `ContainersPrune` |
| docker, the clock, the process | `ctr`, `Exits`, `Age`, `Crash` |

RemoveContainerByName takes the first running container whose name *contains* the
one it is given; of the empty name that is true of each, which the model keeps, of two random
suffixes it is taken to be false. `Limit(1)` without an order is any row of the uuid. Which free GPUs
are picked is any choice of the right size: what the resource exporter reports is external.
A failed build goes on to create the container, as in the code. `delete_at` is
written and read by nothing, so it is not there. Left out: mining jobs of price -1 (rows of `t_task`),
ports and service url, CPU, memory and storage, GetJobStatus.

### PayLedger and PayScan

`PayLedger` says what an operator may expect: each payment on the chain is booked to
its job, or missed, when its turn has come (everything in earlier blocks is settled), and
booked at most `Replays` times more than once. `PayScan` is scanAndProcessEvents: the
stored block (`cursor`), the pass (`pc`, `last`, `end`, `todo`) and the books
(`reward`). `credit`, `missed` and `broken` are history variables. A pass may be
broken off in four ways (`Breaks`): the process ends, the iterator fails, the stored block
cannot be read (the code then begins at the contract's block) or cannot be written. With
"row" the row of the job cannot be read or written, which the code logs and passes over.
The mapping to `PayLedger` is the identity on `block`, `reward`, `credit` and `missed`.

Assumed: each job has one row (two rows of one uuid are in `EcpJob`), blocks of the chain stay
(no reorganisation) and one node answers, so its height does not go back.
The removal of the container in handleEdgeTask is in `EcpJob`.

### ZkTask

One row of `t_task` and everything that writes it. A provider (`Providers`) is a platform
(Kubernetes or docker) and a route: `EnableSequencer` and `AutoChainProof` give "both",
"sequencer", "chain" and "none".

| Code | Model |
|---|---|
| `t_task` row | `row`: status, and whether it holds a contract, a block hash, the sequencer flag and address |
| DoUbiTaskForK8s, DoUbiTaskForDocker, DoZkTask | `request`, `Receive`, `Leave`, `Refuse`, `Accept` |
| doFilC2TaskForK8s, doFilC2Task | `worker` with the row it has read: `StartProver`, `StartFails`, `SeenRunning`, `LosesSight`, `Reread`, `WorkerSaves` |
| ReceiveUbiProof and submitUBIProof | `submit`, one goroutine per proof with its copy of the row: `Drop`, `TooLate`, `Choose`, `SubmitSaves` |
| submitTaskToSequencer | `TrySequencer`, `SendFails`, `SendTimeout`, `SecondChoice`, `CreateTaskContract` |
| setFailedUbiTaskStatus | `cron`: `CronReads`, `CronSaves`, `CronQueryFails` (which ends it) |
| syncTaskStatusForSequencerService | `sync`: `SyncReads`, `SyncWrites`, `SyncSkips` |
| prover, sequencer, chain, clock, process | `ProverEnds`, `Verify`, `HourPasses`, `DeadlinePasses`, `Crash` |

gorm's `Save` writes every column, `Updates` skips zero values; the model keeps the
difference. Of the sequencer's verdicts one good and one bad stand for all. `lost` is a history
variable: what has cost the row its receipt. Left out: the content of a proof, the resources
of a task (a choice of the handler), the commands that list tasks.

### MiningTask

`rows` is `t_task` by id. `NextId` is `MAX(id) + 1`, picked in one step (`PickId`) and saved
in another (`SaveMining`); `SaveC2` is the engine giving an id of its own. On
Kubernetes the goroutine re-reads the row and saves it as failed when the job ends (`MinerReads`,
`MinerSaves`), however it ended; rows never say running there, because the id it
updates is 0. `PollAsks` and `PollWrites` are syncUbiMiningTaskStatus, which asks of every row
again and again; `SettleReads` and `SettleSaves` the cron of overdue rows.

### TaskDeploy and Deployment

`TaskDeploy` is CreateTaskContract: `nonceX` and the flag of each goroutine, the answers of
the node the code tells apart ("replacement transaction underpriced", "nonce too low", an
error, an answer lost), the confirmation that is waited for ten seconds, and the chain with its pool.
`Deployment` is what submitUBIProof relies on: an address is returned only for
a contract of one's own, and giving up waits for the deadline. The mapping is in `Promise`.

### RewardScan

TaskManagerScanner.Scan: chunks (`Chunk`), their height and events, `parseRewardReleased` with
both ways to find a task's uuid in the input of the transaction, UpdateJobReward,
the stored block, and the two that write back whole rows with the reward they read in them:
ReNewJob (`RenewReads`, `RenewSaves`), which saves every column, and watchExpiredTask with
checkFcpJobInfoInChain (`SweepReads`, `SweepWrites`, `SweepPasses`), which reads all rows at once and
skips empty columns, so that a row goes back to an older reward and never to none. The other
updates of `t_job` carry no reward. One ReNewJob and one pass of the cron may be under way at a time,
`MaxOldRows` of them in a behaviour.
`harm` is a history variable with the causes that may keep or take a reward from its row: faults,
"renewal" and "sweep". Six faults: the stored block cannot be read or written, the process
ends, the iterator ends early, an event cannot be resolved, an input is not understood.

### WsLog

One action per send, receive, close and return of the goroutines of HandleLogs; the
channel is a sequence with a capacity, a closed channel makes a sender panic, and each
of them recovers. `conn` is open, closed by the client, or lost; a read fails on a lost connection only
after the deadline that a written ping sets.

### Placement and HostPorts

`Placement`: checkResourceAvailableForSpace picks GPUs that no running pod has (`UsedGpus`),
CheckServiceNodePort the first port no service has, saveGpuCache and deleteGpuCache are a load and a
store each. `gpuRaces` and `portRaces` are the pairs of spaces of which one picked
before the other had taken what it picked.

`HostPorts`: handleMultiPort for docker jobs. Its inner loop tests the index of the outer
one, so it runs off the range (`IndexPanics`) when the free ports do not suffice,
and the error for a range that is all taken is overwritten (`RangeTaken`).

### Keystore

`opener` is who has the leveldb open: SetupWallet tries until it can or has tried
ten times (`MaxTries` here), FindKey and WalletImport close it. `tokenCache` is the token of the
sequencer client; `GetToken` to `PostToken` is its renewal, which signs. A prover
(submitUBIProof) asks for its worker address in between and leaves the keys open when it
fails (`GetWorkerAddressFails`, `opener` = "leaked"). Assumed: what the daemon does with open
keys takes less than a second, so that only an import at its prompt or a leak makes others give up.

### CpInfo

`account` is the contract, `copy` the rows of `t_cp_info`, `cmd` the `account change...`
commands, `sync` the calls of SyncCpAccountInfo. `blame` is a history variable per field. The fields are
the addresses only: the columns of task types and multi-addresses are filled by a hook
that gorm's `Updates` does not call with the new values, and nobody reads them to decide.
Left out: `account create` (`cmd/computing-provider/utils.go:24`), which writes file and row before
the deployment is mined, with nothing beside it.

### Collateral

WalletCollateral for either collateral: `Approve`, the wait of three minutes with its ends
(`Approved`, `ApproveEnds`), `Deposit`; allowance and pending transactions are the chain's.

### MCBackground

Ten parts that share no state: a behaviour is one of the part it begins with (`part`), and
the other parts' variables stay. Their fairness conditions are merged (`FirstStrong` ...
`FourthWeak`): in one behaviour at most one disjunct of each can be enabled, so each is the
condition of its part. The liveness properties of one part are stated for the behaviours of it.
That a behaviour of the whole satisfies the specification of every part (`Spec`, `ScanSpec`,
`MiningSpec`, `DeploySpec`, `WsSpec`, `PlaceSpec`, `HostSpec`, `KeySpec`, `InfoSpec`, `CollSpec`) is
the lemma `PartsBehave` of `Background_proofs`: nothing is lost by putting them in one run.

## 4. What the runs check

| Run | Instance and bounds | Checked |
|---|---|---|
| `spacejob_remove` | a yaml job, cancel + operator + expiry cron, DeleteJob may fail; clock 0..1, rows old after one tick | types; a deployment left behind has one of three causes |
| `spacejob_renew` | a dockerfile job, one renewal, the chain may decide or not answer | RUNNING only after a deployment; a deleted row stays as it is; paid time is cut only by the four writes listed |
| `spacejob_crash` | a dockerfile job, deployment may fail silently, one crash at any step; fair | overdue jobs are retired; a deployed job comes to be shown |
| `spacejob_gone` | an image job, namespace collector, clean-up cron, DeleteJob may fail; fair | a refused job is never deployed; a job whose deployment vanished is retired |
| `spacejob_completed` | violation | a row becomes "Completed" only of a job that was deployed: false where DockerfileToK8s fails and tells nobody |
| `spacejob_deleted` | violation | a deployment created after `task delete` |
| `ecpjob_apart` | two jobs, one GPU, one removed through the API, one by the operator | types; a GPU is shared only after a race; a container is removed by name or by a nameless remover |
| `ecpjob_resent` | one job sent twice, the second one built here, docker fails, one crash, a payment | a running container is without reservation only for a cause listed |
| `ecpjob_live` | the same, nobody removes; fair | abandoned reservations are released |
| `ecpjob_delete` | violation | only containers of the job to be deleted are removed: false of a job that still pulls its image (two GPUs here, one for each job) |
| `zktask` | one task; the providers of `MCZkTask`: both platforms, every route, up to two requests or two proofs, two sends, one fault of each kind; fair | types; a delivered proof leaves its receipt unless something named took it; each is delivered once, or once more per lost answer; a row says only what chain or sequencer has; with `AutoChainProof` a sequencer that is down costs no proof; overdue rows are settled; nobody submits for ever after the deadline |
| `background` | ten parts, below; fair | see below |

The parts of `background`:

| Part | Instance and bounds | Properties |
|---|---|---|
| payments (`PayScan`) | three payments, two jobs, blocks 1..3, two broken passes | `ReplayedOnlyIfBroken`, `BooksEveryPayment` (PayScan implements PayLedger), `EverySettled` |
| rewards (`RewardScan`) | three rewards of two tasks in two transactions, blocks up to 4, chunks of 2, one fault of six kinds, one ReNewJob or one pass of the cron | `RewardsShown`, `EveryRewardReached` |
| mining (`MiningTask`) | two tasks at a time, or one with a crash and an old row, on either platform; four ids, one of them the engine's | `RowLostOnlyToSameId`, `FinalVerdictWins` |
| contracts (`TaskDeploy`) | two goroutines, nonces 0..2, one answer missed by each, one transaction dropped | `DuplicatesHaveCause`, `NoNonceGap`, `DeploysAsPromised` (TaskDeploy implements Deployment) |
| log (`WsLog`) | up to four lines, a channel of two | `LogArrives`, `LogGoroutinesEnd` |
| spaces (`Placement`) | two spaces that need one and two of three GPUs, two ports, one restart | `GpuSharedOnlyByRace`, `PortsAsAnswered`, `CacheCountsDeploying` |
| host ports (`HostPorts`) | jobs that ask for two, two and four of three ports, one of which another program may have | `PortsAsAnswered` |
| keys (`Keystore`) | a prover, two users of the sequencer, an import; one repeat, renewal, restart each | `KeysGiveToken` |
| account (`CpInfo`) | two commands (worker, worker or owner), two syncs, a write that fails or a transaction that is dropped | `InfoIsChain` |
| collateral (`Collateral`) | three additions of 1, 2, 1; two losses | `AddsAsTold` |

The runs of `SpaceJob` divide its activities (`Enabled`) and failures (`Faults`), because
all of them at once are too many states; each question gets the activities that could
spoil it. *Why the bounds are enough*: two ticks make a job overdue (`Duration` = 1) and its
row older than the two hours of the crons (`Old` = 1; in `spacejob_remove` one tick is more
than two hours, since there only the removal by the cron matters and not its reason), one
renewal is enough to leave a stale row, one crash hits each step in some behaviour. The
clock stops at `MaxTime` while everything else goes on, so leads-to properties are not cut
off by it. One job is enough for what rows and reports do to each other; jobs meet only in
their namespace, and the theorems are for any number. Two requests and one
GPU are the smallest that can compete. Three payments allow two of one job, two in
one block and one block after another.

For the others: two proofs of one task, or two requests, are the smallest that can
write over each other, and two sends the smallest number that can be repeated before the second choice. A chunk of
two blocks in a chain of four has a first, a full and a last chunk. Two mining tasks, a free id
before and after the engine's id, and one crash meet in each order. Two goroutines with three nonces can leave a gap of one.
A channel of two can be full with one message waiting, as one of five can. Two spaces can
overlap in one GPU of three, or not. Two users of the sequencer and a prover are the fewest with
which one renewal can wait for another and for a leak. Two commands about one field, and two syncs, can
cross; one old row is all it takes to undo a reward, and the theorem is for any number of them.
Three additions of collateral allow one after another and two at a time, of different amounts.

`CHECK_DEADLOCK FALSE` stands where a run may really end: jobs are over and the clock is
at its bound.

Several safety properties have the form "this happens only because of ...". The code
does not exclude the bad state; the property lists every way into it, so that a
change which adds another one is noticed. Each list was found complete by TLC and is worth reading for itself.

### Fairness

- `SpaceJob`: the clock ticks, a goroutine that is not blocked goes on, a DeleteJob
  that was called ends, and the expiry cron comes to every row (it is a ticker). Not fair:
  requests, failures, the collectors, and pc "stamp": watchContainerRunningTime follows the container's
  log to its end, which may never come.
- `EcpJob`: the sync pass is a ticker, its writes go on; docker answers again and
  again (strong fairness of the successful inspection, because an error ends the pass), time passes.
- `ZkTask`: the goroutine of each proof goes on and the cron of overdue rows is a ticker.
  Nothing is assumed of the sequencer, the chain or the prover, so `SubmissionsEnd` is about
  the deadline alone.
- `PayScan`, `RewardScan`: the ticker fires, a pass goes on, and the chain answers again and
  again (strong fairness of the height and the filter, which a failed answer sends back to the next tick).
- `MiningTask`: the poll is a ticker, whoever has begun to write goes on.
- `WsLog`: each goroutine is scheduled, senders of a full channel are served in turn and `select` does not
  pass over `stopCh` for ever (strong). A write to a lost connection may take for ever.
- `Keystore`: a user of the sequencer calls again; somebody who tries for the keys again and again gets them
  when they are free again and again, and a sequencer that is asked again and again answers (strong);
  who has the keys open goes on, the operator at the prompt included.
- `TaskDeploy`, `Placement`, `HostPorts`, `CpInfo`, `Collateral`: none; their properties are safety.

A crash may always come; `MaxCrash`, `MaxBroken`, `MaxReboots` and their like make faults finitely many,
which is also the assumption under which these properties are true of the program.

## 5. What is proved

For every value of the constants (any number of jobs, wallets, requests, GPUs,
payments, proofs, goroutines, spaces, any durations and any bounds, any set of activities and
faults), from the named assumption of each module. Those assumptions say what kind of thing a
constant is, that sets which the code counts or sums over are finite (proofs, spaces, GPUs,
ports), and where a range of numbers begins: a proof is sent at least once, a chunk has at
least one block, a docker job asks for a number of ports that handleMultiPort is called with (two or more),
the contracts are older than the chain's end. One is about size: there are at least as many node ports as
spaces (a cluster has 2768; with none left CheckServiceNodePort answers 0, see section 7).

| Theorem | Says | By |
|---|---|---|
| `SpaceJob_proofs!TypeCorrect` | `[]TypeOK` | each action keeps the types |
| `RunningOnlyIfDeployed`, `RefusedStaysOut` | `[]RunningWasDeployed`, `[]RefusedNeverDeployed` | `StatusInv` |
| `DeletedVerdictStays` | `VerdictKept` | `TypeOK` and `Unseen` |
| `LeaksHaveCauses` | `[]LeakHasCause` | `LeakInv` |
| `PaidTimeStays` | `PaidTimeKept` | `PaidInv` |
| `EcpJob_proofs!EcpTypeCorrect` | `[]TypeOK` | each action keeps the types |
| `GpuSharedOnlyByRace` | `[]SharedOnlyByRace` | `RaceInv` |
| `RemovedByOwnNameOrNameless` | `RemovedByNameOrNameless` | `NameInv` |
| `ReservationsAreKept` | `ReservationKept` | `HoldInv` |
| `PayScan_proofs!TypeCorrect` | `[]TypeOK` | each action keeps the types |
| `ReplaysAreBounded` | `[]ReplayedOnlyIfBroken` | `ScanInv` |
| `ScanImplementsLedger` | `Spec => PayLedger` | the same |
| `ZkTask_proofs!ZkTypeCorrect` | `[]TypeOK` | `SendsLeft` |
| `ZkDeliveredOnce` | `[]DeliveredOnce` | `DeliveredInv` |
| `ZkAutoChain` | `[]AutoChainDelivers` | inductive as it stands, with the types |
| `ZkSubmittedIsReal` | `[]SubmittedIsReal` | `CopiesInv` |
| `ZkReceiptKept` | `[]ReceiptKept` | `ReceiptInv` |
| `TaskDeploy_proofs!DeployTypeCorrect` | `[]DeployTypeOK` | each action keeps the types |
| `NoncesWithoutGap`, `DuplicatesAreBounded` | `[]NoNonceGap`, `[]DuplicatesHaveCause` | `DeployInv` |
| `DeployImplementsPromise` | `TaskDeploy` implements `Deployment` | the same |
| `RewardScan_proofs!RewardTypeCorrect` | `[]ScanTypeOK` | `ReleaseInv`, `ChunkInv` |
| `RewardsAreShown` | `[]RewardsShown` | `ShownInv`, `OwnInv` |
| `Placement_proofs!PlacementTypeCorrect` | `[]PlaceTypeOK` | `PlaceInv` |
| `GpusAreShared`, `PortsAreRefused` | `[]GpuSharedOnlyByRace`, `[]PortRefusedOnlyByRace` | `GpuInv`, `PortInv` |
| `CacheCounts` | `[]CacheCountsDeploying` | `CountInv` |
| `HostPortsAnswered` | `[]HostPortsAsAnswered` | `HostInv` |
| `Background_proofs!RowsAreKept` | `[]RowLostOnlyToSameId` | `MiningInv` |
| `DepositsAreAsTold` | `[]AddsAsTold` | `CollInv` |
| `CopyFollowsChain` | `[]InfoIsChain` | `InfoInv` |
| `BackgroundTypes` | `[]BackgroundTypeOK` | the parts' types, `WsInv` |
| `PortsAreAnswered`, `PartsKeep` | the invariants of all ten parts, and both refinements, of `MCBackground` | `PartsBehave` |

Why the strengthenings are needed. Nearly all of them have one reason: a property speaks of a row, but
the row is written from copies that others read long before, so the invariant
has to say of each copy what the property says of the row.

- `StatusInv`. RUNNING can be written from a row read earlier, from a message in the
  channel or from `TaskMap`; if "running" or "in the cluster" is written in any of these places,
  there has been a deployment. Likewise a refusal is found in none of them unless the handler is closed.
- `Unseen`. A renewal cannot hold a row of a job that has not arrived yet; otherwise
  the first save of the request could be a change of a deleted row.
- `LeakInv`. `LeakHasCause` looks at a deleted row; DeleteJob works on the cluster before anybody
  marks the row. So already while somebody removes the job its goroutine must be settled, and when somebody is
  about to mark the row the deployment must be gone, each unless the job has one of the three causes.
- `PaidInv`. As long as a job was never renewed and the chain does not know it, no expire time that anybody
  holds (the row, or the cron's copy of it) is later than one `Duration` from now, and ReNewJob holds nothing;
  so watchContainerRunningTime, which restarts the time at now + `Duration`, cuts nothing of such a job.
- `RaceInv`. A request that has picked GPUs and not saved yet does not reserve them.
  `PickedInv` says of that gap what `SharedOnlyByRace` says of rows, and `UnsavedInv` that it has no row yet.
- `NameInv`. A name in a row, or in the hands of a remover, is that of a container of the same uuid,
  and the API goes on only with a name.
- `HoldInv`. A name is written down only when the goroutine that started the container is over
  (`RowNames`, `SyncNames`, `RemoverNames`), and before it starts one there is none (`FreshInv`). So what the cron or a
  remover knows of a named container can be out of date in one direction only: it may have ended
  since, it cannot have started, and a container once seen to be gone is not running when the row is taken away.
- `ScanInv`. While a pass is under way the books are ahead of the stored block. Four parts say
  how: `ChainInv` (nothing looks beyond the chain), `TodoInv` (what the iterator still holds comes
  after what it has returned), `BehindInv` (all behind the pass, and behind the stored block, is
  settled) and `AheadInv` (what is ahead has been booked by broken passes only, once by each).
- `SendsLeft`. The counter of sends stays within its bound because a goroutine that may send has one left.
- `DeliveredInv` counts goroutines that are done with sending in the place of proofs posted: a delivery that was
  seen to succeed ends the sending of its proof.
- `CopiesInv`. The row, and the copies in the hands of the watcher of each prover, of each submitter and of both crons,
  are all `GoodRows`. That alone is not inductive: a submitter that fails saves "failed" beside whatever receipt
  its copy has. `SecondComers` says when it has one: when another proof was posted before.
- `ReceiptInv`. Between the delivery and the save the receipt is in the hands of a submitter.
- `DeployInv`. Why there is no gap: the chain has mined a prefix of the nonces (`ChainOrder`), no nonce between
  the chain's next and a goroutine's choice is free (`NoFreeBelow`), and it sends with the one it chose (`SentNonces`). Why contracts are
  bounded: all transactions a goroutine has anywhere, pending or mined, are at most one more than it has missed,
  and none more unless it waits for a confirmation (`SentOnce`).
- `ShownInv`. `RewardsShown` is about the stored block only. During a pass the invariant says how far the pass
  has come: rewards of earlier chunks are shown, and of the chunk at hand those the iterator has returned, none
  of which is newer than one to come, so that the last write to a row is the newest reward. Once the cron has written an old row, the newest is
  not promised any more, but a reward of the task is: what the cron read was one. `OwnInv` adds
  the copies of ReNewJob and of the cron: each is of a reward of its task.
- `GpuInv` and `PortInv` speak of what was picked, whether or not a pod or service has it already; `ServiceInv`
  says that a service has the port its space picked, and that the space waits no more.
- `HostInv` says of ports that were picked what the property says of the refusal.
- `MiningInv`. An id that was not raced for belongs to its task in the table, in the copy the goroutine will save
  (`MinerInv`) and in the copy the cron will save (`SettleInv`); one that is picked and not saved is unused (`RowInv`).
- `CollInv`. Which transactions may be pending of an addition at which point (`EntryInv`, `PhaseInv`); that one that
  met no other is alone (`AloneInv`), so that the allowance is its own until its deposit is mined (`ClearInv`);
  and who leaves an allowance (`LeftInv`).
- `InfoInv`. The row is written before the chain changes. `CopyInv` says that a field nothing has spoilt is what the
  account's will be when all that is pending is mined (`EndsAs`), or that a command is about to write it; `SentInv` is what a command that
  met no other can rely on, `SyncInv` the same of a sync between its deletion and its insertion.
- `WsInv`. Lines are counted where they are: in the channel, in the reader's hand, in the writer's.

What the library cannot give was proved by other means. `CacheCounts` needs that the sum over a finite
set grows by the need of the element added; the fold behind `MapThenSumSet` is recursive, and induction
theorems are out of reach, so `SumIsSummed` takes a smallest subset for which the equation fails and
refutes it (`LeastNat`, `LeastSubset`). `LowestSubset` does the same for "the n lowest free GPUs".

Proving changed one model. `RowsAreKept` was not provable of an earlier `MiningTask`, in which a second
crash made a request forget that its first one had interrupted it between the choice of its id and the save; the
code has nothing that could do so, and `MiningCrash` was corrected.

## 6. What is only model-checked

Liveness under fairness is beyond the proof system used here. TLC alone says that overdue, vanished and
deployed jobs are retired or shown (`OverdueIsRetired`, `VanishedIsRetired`, `DeployedIsShown`), reservations
released (`ReservationReleased`), overdue tasks settled and submissions ended (`OverdueSettles`,
`SubmissionsEnd`), payments and rewards reached (`EverySettled`, `EveryRewardReached`), the verdict of the
sequencer kept (`FinalVerdictWins`), a log delivered and its goroutines ended (`LogArrives`, `LogGoroutinesEnd`) and
the keys given back (`KeysGiveToken`). The properties of the three runs that expect a violation are false of the code.

## 7. What was found

By the runs that expect a violation:

- `docs/cli/task.md:128`, "Task has finished successfully": `spacejob_completed` shows a job
  recorded as COMPLETED that never had a deployment. The request is accepted, creating the
  namespace fails, DockerfileToK8s tells nobody, and when the row is more than two hours old the
  expiry cron takes the missing deployment for a finished job.
- `docs/cli/task.md:96`, "Delete a specific task": `spacejob_deleted` shows the
  deployment created after the deletion. `ecpjob_delete` shows a job whose row is saved and whose image
  is being pulled: its row has no container name yet, the operator deletes it, and the container of
  another job is removed. (A uuid that is not in the table does the same.)

While modelling, kept in the models as the code has them:

- `computing/wsclient.go:143-161` counts failing reads and sets the count to zero each time,
  so that the Close after ten of them never comes; a failing write leaves handler and
  ticker waiting, and a line longer than the scanner's buffer ends the log without a word.
- `computing/ubi_service.go:2013` returns with the keys open.
- `computing/ecp_image_service.go:801` tests `i` in the loop over `j`; the error of
  handleMultiPort (line 680) is overwritten before anybody looks at it.
- The account commands update the row before their transaction is mined, and
  SaveCpInfoEntity ignores the error of its deletion.
- checkResourceAvailableForSpace does not consult `gpuResourceCache`; DeployImage's check for GPUs does not
  look at what is missing of CPU and memory; CheckServiceNodePort answers port 0 when all are used.
- The forced search of parseRewardReleased writes the reward to the last uuid it finds; an error when the
  stored block is read starts the scan at the other scanner's first block.
- watchExpiredTask reads all rows of `t_job` at once and writes back whole ones, its own reward
  column included (`computing/cron_task.go:327`, `687`); an older reward than the scanner wrote may return.
- Mining rows on Kubernetes never say running (the id is 0) and are saved as failed whatever the job did;
  they are asked for at the sequencer for ever.

From reading, listed as hazards or noted here: `getTaskStatus` (`computing/scan_task_payment.go:215`)
answers true for every 200, so that `ended` is never looked at; the list of what a GPU job lacks
(`computing/ecp_image_service.go:1062`) is collected and not used; `DeleteSpaceLog`
(`computing/cron_task.go:600`) passes over jobs created more than a week ago, whose logs stay; an ethclient is closed
before it is used in three places (`computing/ubi_service.go:2636`, `computing/sequence_service.go:73`,
NewTaskManagerContract), which an RPC over HTTP does not notice.

## 8. What is not modelled

- Contract bindings (`contract/*/`, about half of all lines) are generated by abigen: what a contract answers
  is a choice of the environment in the modules that ask it.
- Resources other than GPUs: CPU, memory and storage are compared in one step and summed for reports.
- Building of images and parsing of deploy files: their outcome is a choice in the job modules.
- Reports to the hub, price files, network policies, configuration and start-up: a read followed by one
  request or one file. `account create`, and the wallet commands that list, delete, send and withdraw.
- Clean-up of logs and of images: a comparison of dates, one call of docker.
- Dead code: `GPUManager` in `computing/gpu_cache.go`, `checkAgain` in `computing/scan_task_payment.go`,
  the branch of type 1 in handleTasksToGroup, and the half of the docker cron's query that asks for `tx_hash`.
- Within the modelled parts, what section 3 lists as assumed or left out.

## 9. Running it

    tlc -config SpaceJob_renew.cfg MCSpaceJob      # a run of section 4
    tlapm SpaceJob_proofs.tla                      # the proofs of a module
