------------------------------- MODULE ZkTask -------------------------------
(***************************************************************************)
(* The life of one FIL-C2 task: the requests of the engine for it, the     *)
(* goroutine that runs the prover, the goroutines that hand its proofs to  *)
(* the sequencer or to the chain, and the two crons that settle its row in *)
(* t_task. All of them write the whole row (gorm's Save) from a copy they  *)
(* read earlier, and none takes a lock.                                    *)
(*                                                                         *)
(* A provider runs the prover as a Kubernetes job or as a docker container *)
(* (platform) and is configured where proofs go (route).                   *)
(***************************************************************************)
EXTENDS Naturals, FiniteSets

CONSTANTS
    MaxRequests,    \* bound: times the engine sends the task
    Proofs,         \* bound: the proofs the prover may post
    MaxSends,       \* sends to the sequencer before the chain is tried (5)
    Faults,         \* which of "crash" (the provider), "db" (a write or a
                    \* query fails), "unseen" (a delivery whose answer is
                    \* lost), "setup" (what a deployment needs is not there)
                    \* may happen
    Providers       \* the providers to look at: platform and route, and as
                    \* bounds how many requests, proofs and faults there are

FaultKinds == {"crash", "db", "unseen", "setup"}

ASSUME ZkTaskAssumption ==
    /\ MaxRequests \in Nat \ {0}
    /\ IsFiniteSet(Proofs)
    /\ MaxSends \in Nat \ {0}
    /\ Faults \subseteq FaultKinds
    /\ Providers \subseteq [platform : {"k8s", "docker"},
                            route : {"both", "sequencer", "chain", "none"},
                            requests : 1 .. MaxRequests, proofs : Nat, faults : Nat]

VARIABLES
    provider,   \* the provider of this run: where it runs provers (platform),
                \* where proofs go (route), and the bounds
    row,        \* the task's row in t_task
    old,        \* the requests that came more than an hour ago
    expired,    \* the deadline has passed
    request,    \* where the handler of each request is
    worker,     \* where the goroutine of each request is, and the row it read
    prover,     \* the job or container it started
    submit,     \* where the goroutine of each proof is, and its copy of the row
    contracts,  \* task contracts deployed for the task
    accepted,   \* proofs the sequencer has accepted
    verdict,    \* what the sequencer says of the task
    cron,       \* the cron that settles overdue rows, and the row it read
    sync,       \* the cron that asks the sequencer, and the row it read
    faults,     \* times each fault has happened
    lost        \* history: what has cost the row its receipt

vars == <<provider, row, old, expired, request, worker, prover, submit,
          contracts, accepted, verdict, cron, sync, faults, lost>>

-----------------------------------------------------------------------------
Requests == 1 .. MaxRequests

Pending  == {"received", "running"}
\* Of what the sequencer answers: a final verdict that is good and one that is
\* not stand for the others ("invalid" for repeated, timeout, failed, ...).
Statuses == Pending \cup {"rejected", "failed", "submitted", "verified",
                          "invalid", "rewarded"}

\* contract, block and addr: whether the row holds a contract address, a block
\* hash, the address of the sequence. sequencer: the column is 1.
\* born: the request whose create_time it has; 0 in a table without the row.
Rows  == [status : Statuses, contract : BOOLEAN, block : BOOLEAN,
          sequencer : BOOLEAN, addr : BOOLEAN, born : 0 .. MaxRequests]
Fresh(r) == [status |-> "received", contract |-> FALSE, block |-> FALSE,
             sequencer |-> FALSE, addr |-> FALSE, born |-> r]
NoRow == Fresh(0)

HasReceipt(w) == w.contract \/ w.block
Deliveries == contracts + accepted

platform == provider.platform
\* EnableSequencer and AutoChainProof: both, the first, the second, neither.
route    == provider.route

TypeOK ==
    /\ provider \in Providers
    /\ row \in Rows
    /\ old \subseteq Requests
    /\ expired \in BOOLEAN
    /\ request \in [Requests -> {"none", "checking", "over"}]
    /\ worker \in [Requests -> [at : {"none", "starting", "waiting", "following",
                                      "leaving", "saving", "gone"}, row : Rows]]
    /\ prover \in [Requests -> {"none", "up", "ended"}]
    /\ submit \in [Proofs -> [at : {"none", "looking", "sending", "second",
                                    "deploying", "saving", "over"},
                              row : Rows, sends : 0 .. MaxSends,
                              out : {"none", "late", "unpaid",
                                     "timeout", "setup", "delivered"}]]
    /\ contracts \in Nat
    /\ accepted \in Nat
    /\ verdict \in [status : {"received", "verified", "invalid", "rewarded"},
                    addr : BOOLEAN]
    /\ cron \in [at : {"off", "read", "dead"}, row : Rows]
    /\ sync \in [at : {"off", "read"}, row : Rows]
    /\ faults \in [FaultKinds -> Nat]
    /\ lost \in {"no", "crash", "db", "unseen", "stale", "resent"}

NoWorker  == [at |-> "none", row |-> NoRow]
NoSubmit  == [at |-> "none", row |-> NoRow, sends |-> 0, out |-> "none"]
CronOff   == [at |-> "off", row |-> NoRow]

Init ==
    /\ provider \in Providers
    /\ row = NoRow
    /\ old = {}
    /\ expired = FALSE
    /\ request = [r \in Requests |-> "none"]
    /\ worker = [r \in Requests |-> NoWorker]
    /\ prover = [r \in Requests |-> "none"]
    /\ submit = [p \in Proofs |-> NoSubmit]
    /\ contracts = 0
    /\ accepted = 0
    /\ verdict = [status |-> "received", addr |-> FALSE]
    /\ cron = CronOff
    /\ sync = CronOff
    /\ faults = [f \in FaultKinds |-> 0]
    /\ lost = "no"

-----------------------------------------------------------------------------
Fault(f) ==
    /\ f \in Faults
    /\ faults["crash"] + faults["db"] + faults["unseen"] + faults["setup"]
            < provider.faults
    /\ faults' = [faults EXCEPT ![f] = @ + 1]

\* The first cause is kept.
Lose(why) == lost' = IF lost = "no" THEN why ELSE lost

\* SaveTaskEntity: every column, whoever wrote the row in between.
SaveTaskEntity(entity, why) ==
    /\ row' = entity
    /\ IF HasReceipt(row) /\ ~HasReceipt(entity) THEN Lose(why) ELSE UNCHANGED lost

\* UpdateTaskStatusById: one column.
UpdateTaskStatusById(status) == row' = [row EXCEPT !.status = status]

\* UpdateTaskEntityByTaskId: the columns of the copy that are not zero.
UpdateTaskEntityByTaskId(item) ==
    row' = [item EXCEPT !.contract = @ \/ row.contract, !.block = @ \/ row.block,
                        !.addr = @ \/ row.addr, !.sequencer = @ \/ row.sequencer]

-----------------------------------------------------------------------------
\* DoZkTaskForK8s, DoZkTask, DoUbiTaskForK8s and DoUbiTaskForDocker.

\* The request is saved first, over the row of an earlier request.
Receive(r) ==
    /\ request[r] = "none"
    /\ r <= provider.requests
    /\ \A q \in Requests : q < r => request[q] # "none"
    /\ request' = [request EXCEPT ![r] = "checking"]
    /\ SaveTaskEntity(Fresh(r), "resent")
    /\ UNCHANGED <<provider, old, expired, worker, prover, submit, contracts,
                   accepted, verdict, cron, sync, faults>>

\* A missing parameter, an error of the account: an answer and nothing more.
Leave(r) ==
    /\ request[r] = "checking"
    /\ request' = [request EXCEPT ![r] = "over"]
    /\ UNCHANGED <<provider, row, old, expired, worker, prover, submit,
                   contracts, accepted, verdict, cron, sync, faults, lost>>

\* A signature, a balance, the GPUs' load or the resources that are not as they
\* have to be; the check itself that fails.
Refuse(r) ==
    /\ request[r] = "checking"
    /\ request' = [request EXCEPT ![r] = "over"]
    /\ \E s \in {"rejected", "failed"} :
            SaveTaskEntity([Fresh(r) EXCEPT !.status = s], "resent")
    /\ UNCHANGED <<provider, old, expired, worker, prover, submit, contracts,
                   accepted, verdict, cron, sync, faults>>

Accept(r) ==
    /\ request[r] = "checking"
    /\ route # "none"
    /\ request' = [request EXCEPT ![r] = "over"]
    /\ worker' = [worker EXCEPT ![r].at = "starting"]
    /\ UNCHANGED <<provider, row, old, expired, prover, submit, contracts,
                   accepted, verdict, cron, sync, faults, lost>>

-----------------------------------------------------------------------------
\* The goroutine that runs the prover.

Work(r, from, to) == worker[r].at = from /\ worker' = [worker EXCEPT ![r].at = to]

\* On Kubernetes the goroutine has a deferred part; docker's just ends.
Done == IF platform = "k8s" THEN "leaving" ELSE "gone"

\* The job has the name of the task: a second one cannot be created beside it.
StartProver(r) ==
    /\ platform = "k8s" => \A q \in Requests : prover[q] # "up"
    /\ Work(r, "starting", "waiting")
    /\ prover' = [prover EXCEPT ![r] = "up"]
    /\ UNCHANGED <<provider, row, old, expired, request, submit, contracts,
                   accepted, verdict, cron, sync, faults, lost>>

StartFails(r) ==
    /\ Work(r, "starting", Done)
    /\ UNCHANGED <<provider, row, old, expired, request, prover, submit,
                   contracts, accepted, verdict, cron, sync, faults, lost>>

\* Docker only: the GPUs the check found are not enough.
StartRefused(r) ==
    /\ platform = "docker"
    /\ Work(r, "starting", "gone")
    /\ SaveTaskEntity([Fresh(r) EXCEPT !.status = "rejected"], "resent")
    /\ UNCHANGED <<provider, old, expired, request, prover, submit, contracts,
                   accepted, verdict, cron, sync, faults>>

\* The pod was seen running, the container was found: it may be over by now.
SeenRunning(r) ==
    /\ Work(r, "waiting", "following")
    /\ UpdateTaskStatusById("running")
    /\ UNCHANGED <<provider, old, expired, request, prover, submit, contracts,
                   accepted, verdict, cron, sync, faults, lost>>

\* Not seen running for a minute, or its log cannot be opened or copied.
LosesSight(r) ==
    /\ \/ Work(r, "waiting", Done)
       \/ Work(r, "following", Done)
    /\ UNCHANGED <<provider, row, old, expired, request, prover, submit,
                   contracts, accepted, verdict, cron, sync, faults, lost>>

\* Slip: a proof the sequencer took has a block hash and no contract.
Reread_contract(r) ==
    /\ worker[r].at = "leaving"
    /\ worker' = [worker EXCEPT ![r] = [at |-> "saving", row |->
            [row EXCEPT !.status = IF row.contract THEN "submitted" ELSE "failed"]]]
    /\ UNCHANGED <<provider, row, old, expired, request, prover, submit, contracts,
                   accepted, verdict, cron, sync, faults, lost>>

\* The deferred part reads the row again and decides; without a receipt the
\* task has failed and its namespace goes, whatever runs in it.
Reread(r) ==
    /\ worker[r].at = "leaving"
    /\ worker' = [worker EXCEPT ![r] = [at |-> "saving", row |->
            [row EXCEPT !.status = IF HasReceipt(row) THEN "submitted" ELSE "failed"]]]
    /\ prover' = IF HasReceipt(row) THEN prover
                 ELSE [q \in Requests |-> IF prover[q] = "up" THEN "ended" ELSE prover[q]]
    /\ UNCHANGED <<provider, row, old, expired, request, submit, contracts,
                   accepted, verdict, cron, sync, faults, lost>>

RereadFails(r) ==
    /\ Work(r, "leaving", "gone")
    /\ Fault("db")
    /\ UNCHANGED <<provider, row, old, expired, request, prover, submit, contracts,
                   accepted, verdict, cron, sync, lost>>

WorkerSaves(r) ==
    /\ worker[r].at = "saving"
    /\ SaveTaskEntity(worker[r].row, "stale")
    /\ worker' = [worker EXCEPT ![r] = [at |-> "gone", row |-> NoRow]]
    /\ UNCHANGED <<provider, old, expired, request, prover, submit, contracts,
                   accepted, verdict, cron, sync, faults>>

ProverEnds(r) ==
    /\ prover[r] = "up"
    /\ prover' = [prover EXCEPT ![r] = "ended"]
    /\ UNCHANGED <<provider, row, old, expired, request, worker, submit,
                   contracts, accepted, verdict, cron, sync, faults, lost>>

-----------------------------------------------------------------------------
\* ReceiveUbiProof, submitUBIProof and submitTaskToSequencer. A prover that is
\* started again by its job posts again.

Posted == {p \in Proofs : submit[p].at # "none"}

\* The row is read before the goroutine starts.
ReceiveUbiProof(r, p) ==
    /\ prover[r] = "up"
    /\ submit[p].at = "none"
    /\ Cardinality(Posted) < provider.proofs
    /\ submit' = [submit EXCEPT ![p].at = "looking", ![p].row = row]
    /\ UNCHANGED <<provider, row, old, expired, request, worker, prover,
                   contracts, accepted, verdict, cron, sync, faults, lost>>

SubmitOnly ==
    UNCHANGED <<provider, row, old, expired, request, worker, prover, verdict,
                cron, sync>>

\* The proof of p goes nowhere for this reason; the row is still to be saved.
Fails(p, out) ==
    submit' = [submit EXCEPT ![p].at = "saving", ![p].out = out,
                             ![p].row.status = "failed"]

\* The wallet, the chain's client, the balance at the sequencer: an error of
\* theirs ends the goroutine, and the proof was acknowledged.
Drop(p) ==
    /\ submit[p].at = "looking"
    /\ submit' = [submit EXCEPT ![p] = [NoSubmit EXCEPT !.at = "over"]]
    /\ SubmitOnly
    /\ UNCHANGED <<contracts, accepted, faults, lost>>

TooLate(p) ==
    /\ submit[p].at = "looking"
    /\ expired
    /\ Fails(p, "late")
    /\ SubmitOnly
    /\ UNCHANGED <<contracts, accepted, faults, lost>>

\* Slip: without funds the proof fails, AutoChainProof or not.
Choose_unpaid(p) ==
    /\ submit[p].at = "looking"
    /\ ~expired
    /\ \E funds \in BOOLEAN :
        CASE route \in {"both", "sequencer"} /\ funds ->
                submit' = [submit EXCEPT ![p].at = "sending"]
          [] route \in {"both", "sequencer"} /\ ~funds -> Fails(p, "unpaid")
          [] OTHER -> submit' = [submit EXCEPT ![p].at = "deploying"]
    /\ SubmitOnly
    /\ UNCHANGED <<contracts, accepted, faults, lost>>

\* Which way a proof takes, with and without a balance at the sequencer.
Choose(p) ==
    /\ submit[p].at = "looking"
    /\ ~expired
    /\ \E funds \in BOOLEAN :
        CASE route \in {"both", "sequencer"} /\ funds ->
                submit' = [submit EXCEPT ![p].at = "sending"]
          [] route = "sequencer" /\ ~funds -> Fails(p, "unpaid")
          [] OTHER -> submit' = [submit EXCEPT ![p].at = "deploying"]
    /\ SubmitOnly
    /\ UNCHANGED <<contracts, accepted, faults, lost>>

\* With AutoChainProof the sequencer is tried MaxSends times, without until the
\* deadline.
MaySend(p) == submit[p].at = "sending" /\ (route = "sequencer" => ~expired)

Sent(p) ==
    IF route = "both" THEN [submit[p] EXCEPT !.sends = @ + 1] ELSE submit[p]

\* Slip: the flag that says the sequencer took it is not looked at.
TrySequencer_flag(p) ==
    /\ MaySend(p)
    /\ accepted' = accepted + 1
    /\ submit' = [submit EXCEPT ![p] =
            [Sent(p) EXCEPT !.at = IF route = "both" THEN "second" ELSE "saving",
                            !.out = "delivered", !.row.block = TRUE,
                            !.row.sequencer = TRUE, !.row.status = "submitted"]]
    /\ SubmitOnly
    /\ UNCHANGED <<contracts, faults, lost>>

TrySequencer(p) ==
    /\ MaySend(p)
    /\ accepted' = accepted + 1
    /\ submit' = [submit EXCEPT ![p] =
            [Sent(p) EXCEPT !.at = "saving", !.out = "delivered",
                            !.row.block = TRUE, !.row.sequencer = TRUE,
                            !.row.status = "submitted"]]
    /\ SubmitOnly
    /\ UNCHANGED <<contracts, faults, lost>>

\* Slip: one send too many.
SendFails_more(p) ==
    /\ MaySend(p)
    /\ submit' = [submit EXCEPT ![p] =
            IF Sent(p).sends > MaxSends THEN [Sent(p) EXCEPT !.at = "second"] ELSE Sent(p)]
    /\ SubmitOnly
    /\ UNCHANGED <<contracts, accepted, faults, lost>>

\* The send fails, or it seems to: the sequencer has the proof and its answer,
\* with the receipt, is lost.
SendFails(p) ==
    /\ MaySend(p)
    /\ submit' = [submit EXCEPT ![p] =
            IF Sent(p).sends = MaxSends THEN [Sent(p) EXCEPT !.at = "second"] ELSE Sent(p)]
    /\ \/ UNCHANGED <<accepted, faults, lost>>
       \/ /\ Fault("unseen")
          /\ accepted' = accepted + 1
          /\ Lose("unseen")
    /\ SubmitOnly
    /\ UNCHANGED contracts

\* Slip: a loop that nothing ends.
SendTimeout_never(p) == FALSE /\ Fails(p, "timeout")

\* Without AutoChainProof the deadline ends the sends.
SendTimeout(p) ==
    /\ submit[p].at = "sending"
    /\ route = "sequencer"
    /\ expired
    /\ Fails(p, "timeout")
    /\ SubmitOnly
    /\ UNCHANGED <<contracts, accepted, faults, lost>>

\* The sequencer did not take it: a task contract, while there is time.
SecondChoice(p) ==
    /\ submit[p].at = "second"
    /\ IF expired THEN Fails(p, "timeout")
       ELSE submit' = [submit EXCEPT ![p].at = "deploying"]
    /\ SubmitOnly
    /\ UNCHANGED <<contracts, accepted, faults, lost>>

\* What the chain needs is not there: the client or the key of the second
\* choice, the file that holds the account's address.
SetupFails(p) ==
    /\ submit[p].at \in {"second", "deploying"}
    /\ ~expired
    /\ Fault("setup")
    /\ Fails(p, "setup")
    /\ SubmitOnly
    /\ UNCHANGED <<contracts, accepted, lost>>

\* Slip: the address of the contract is not stored.
CreateTaskContract_address(p) ==
    /\ submit[p].at = "deploying"
    /\ ~expired
    /\ contracts' = contracts + 1
    /\ submit' = [submit EXCEPT ![p].at = "saving", ![p].out = "delivered",
                                ![p].row.sequencer = FALSE, ![p].row.status = "submitted"]
    /\ SubmitOnly
    /\ UNCHANGED <<accepted, faults, lost>>

\* CreateTaskContract: tries until a contract is there or the time is up.
CreateTaskContract(p) ==
    /\ submit[p].at = "deploying"
    /\ ~expired
    /\ contracts' = contracts + 1
    /\ submit' = [submit EXCEPT ![p].at = "saving", ![p].out = "delivered",
                                ![p].row.contract = TRUE, ![p].row.sequencer = FALSE,
                                ![p].row.status = "submitted"]
    /\ SubmitOnly
    /\ UNCHANGED <<accepted, faults, lost>>

\* The transaction is not confirmed in ten seconds and succeeds after that.
DeployedUnseen(p) ==
    /\ submit[p].at = "deploying"
    /\ ~expired
    /\ Fault("unseen")
    /\ contracts' = contracts + 1
    /\ Lose("unseen")
    /\ SubmitOnly
    /\ UNCHANGED <<submit, accepted>>

\* Slip: a contract that is not there is taken for one.
DeployTimeout_taken(p) ==
    /\ submit[p].at = "deploying"
    /\ expired
    /\ submit' = [submit EXCEPT ![p].at = "saving", ![p].out = "timeout",
                                ![p].row.status = "submitted"]
    /\ SubmitOnly
    /\ UNCHANGED <<contracts, accepted, faults, lost>>

DeployTimeout(p) ==
    /\ submit[p].at = "deploying"
    /\ expired
    /\ Fails(p, "timeout")
    /\ SubmitOnly
    /\ UNCHANGED <<contracts, accepted, faults, lost>>

SubmitEnds(p) ==
    submit' = [submit EXCEPT ![p] = [NoSubmit EXCEPT !.at = "over"]]

SubmitSaves(p) ==
    /\ submit[p].at = "saving"
    /\ SaveTaskEntity(submit[p].row, "stale")
    /\ SubmitEnds(p)
    /\ UNCHANGED <<provider, old, expired, request, worker, prover, contracts,
                   accepted, verdict, cron, sync, faults>>

SubmitSaveFails(p) ==
    /\ submit[p].at = "saving"
    /\ Fault("db")
    /\ SubmitEnds(p)
    /\ IF HasReceipt(submit[p].row) THEN Lose("db") ELSE UNCHANGED lost
    /\ SubmitOnly
    /\ UNCHANGED <<contracts, accepted>>

-----------------------------------------------------------------------------
\* The cron that settles overdue rows: setFailedUbiTaskStatus on Kubernetes, a
\* goroutine of CronTaskForEcp with docker. Rows are read first, then saved.
\* The second half of docker's query (failed rows with a tx_hash) finds
\* nothing: no code sets that column.

Overdue == row.born \in old /\ row.status \in Pending

\* Slip: only tasks that never ran are looked for.
CronReads_received ==
    /\ cron.at = "off"
    /\ Overdue
    /\ row.status = "received"
    /\ cron' = [at |-> "read", row |-> row]
    /\ UNCHANGED <<provider, row, old, expired, request, worker, prover, submit,
                   contracts, accepted, verdict, sync, faults, lost>>

CronReads ==
    /\ cron.at = "off"
    /\ Overdue
    /\ cron' = [at |-> "read", row |-> row]
    /\ UNCHANGED <<provider, row, old, expired, request, worker, prover, submit,
                   contracts, accepted, verdict, sync, faults, lost>>

\* On Kubernetes the prover's job is deleted as well.
CronSaves ==
    /\ cron.at = "read"
    /\ SaveTaskEntity([cron.row EXCEPT !.status =
            IF HasReceipt(cron.row) THEN "submitted" ELSE "failed"], "stale")
    /\ prover' = IF platform = "docker" THEN prover
                 ELSE [q \in Requests |-> IF prover[q] = "up" THEN "ended" ELSE prover[q]]
    /\ cron' = CronOff
    /\ UNCHANGED <<provider, old, expired, request, worker, submit, contracts,
                   accepted, verdict, sync, faults>>

\* A query that fails ends this run of the cron; docker's goroutine for good.
CronQueryFails ==
    /\ cron.at = "off"
    /\ Fault("db")
    /\ cron' = IF platform = "docker" THEN [CronOff EXCEPT !.at = "dead"] ELSE cron
    /\ UNCHANGED <<provider, row, old, expired, request, worker, prover, submit,
                   contracts, accepted, verdict, sync, lost>>

-----------------------------------------------------------------------------
\* syncTaskStatusForSequencerService.

SyncReads ==
    /\ sync.at = "off"
    /\ row.born # 0
    /\ row.sequencer
    /\ ~row.addr
    /\ sync' = [at |-> "read", row |-> row]
    /\ UNCHANGED <<provider, row, old, expired, request, worker, prover, submit,
                   contracts, accepted, verdict, cron, faults, lost>>

Differs == sync.row.status # verdict.status \/ sync.row.addr # verdict.addr

\* The answer of the sequencer, in the columns of the copy.
SyncWrites ==
    /\ sync.at = "read"
    /\ sync.row.status # "rejected"
    /\ accepted > 0
    /\ Differs
    /\ UpdateTaskEntityByTaskId([sync.row EXCEPT !.status = verdict.status,
                                                 !.addr = verdict.addr])
    /\ sync' = CronOff
    /\ UNCHANGED <<provider, old, expired, request, worker, prover, submit,
                   contracts, accepted, verdict, cron, faults, lost>>

\* Nothing new, the sequencer does not know the task or does not answer.
SyncSkips ==
    /\ sync.at = "read"
    /\ sync' = CronOff
    /\ UNCHANGED <<provider, row, old, expired, request, worker, prover, submit,
                   contracts, accepted, verdict, cron, faults, lost>>

-----------------------------------------------------------------------------
\* The sequencer, the clock, and a provider that dies and is started again.

Verify ==
    /\ accepted > 0
    /\ \/ /\ verdict.status = "received"
          /\ \E s \in {"verified", "invalid"} : verdict' = [verdict EXCEPT !.status = s]
       \/ /\ verdict.status = "verified"
          /\ ~verdict.addr
          /\ verdict' = [verdict EXCEPT !.addr = TRUE]
       \/ /\ verdict.addr
          /\ verdict.status = "verified"
          /\ verdict' = [verdict EXCEPT !.status = "rewarded"]
    /\ UNCHANGED <<provider, row, old, expired, request, worker, prover, submit,
                   contracts, accepted, cron, sync, faults, lost>>

HourPasses(r) ==
    /\ request[r] # "none"
    /\ r \notin old
    /\ old' = old \cup {r}
    /\ UNCHANGED <<provider, row, expired, request, worker, prover, submit,
                   contracts, accepted, verdict, cron, sync, faults, lost>>

DeadlinePasses ==
    /\ row.born # 0
    /\ ~expired
    /\ expired' = TRUE
    /\ UNCHANGED <<provider, row, old, request, worker, prover, submit,
                   contracts, accepted, verdict, cron, sync, faults, lost>>

\* Goroutines are gone; the prover runs on and the row is as it was.
Crash ==
    /\ Fault("crash")
    /\ request' = [r \in Requests |-> IF request[r] = "none" THEN "none" ELSE "over"]
    /\ worker' = [r \in Requests |->
            IF worker[r].at = "none" THEN NoWorker ELSE [at |-> "gone", row |-> NoRow]]
    /\ submit' = [p \in Proofs |->
            IF submit[p].at \in {"none", "over"} THEN submit[p]
            ELSE [NoSubmit EXCEPT !.at = "over"]]
    /\ IF \E p \in Proofs : submit[p].at = "saving" /\ HasReceipt(submit[p].row)
       THEN Lose("crash") ELSE UNCHANGED lost
    /\ cron' = CronOff
    /\ sync' = CronOff
    /\ UNCHANGED <<provider, row, old, expired, prover, contracts, accepted,
                   verdict>>

-----------------------------------------------------------------------------
Handler(r) == Receive(r) \/ Leave(r) \/ Refuse(r) \/ Accept(r)

Worker(r) ==
    \/ StartProver(r) \/ StartFails(r) \/ StartRefused(r) \/ SeenRunning(r)
    \/ LosesSight(r) \/ Reread(r) \/ RereadFails(r) \/ WorkerSaves(r) \/ ProverEnds(r)

Submitter(p) ==
    \/ Drop(p) \/ TooLate(p) \/ Choose(p)
    \/ TrySequencer(p) \/ SendFails(p) \/ SendTimeout(p) \/ SecondChoice(p)
    \/ SetupFails(p) \/ CreateTaskContract(p) \/ DeployedUnseen(p) \/ DeployTimeout(p)
    \/ SubmitSaves(p) \/ SubmitSaveFails(p)

\* What such a goroutine does without the sequencer's and the chain's consent.
\* It asks the chain for its height again until there is an answer: the 30
\* seconds beside the question start anew with every turn.
Proceed(p) ==
    \/ SendTimeout(p) \/ SecondChoice(p) \/ DeployTimeout(p)
    \/ route = "both" /\ SendFails(p)
    \/ SubmitSaves(p)

Crons == CronReads \/ CronSaves \/ CronQueryFails \/ SyncReads \/ SyncWrites \/ SyncSkips

World == Verify \/ (\E r \in Requests : HourPasses(r)) \/ DeadlinePasses \/ Crash

Next ==
    \/ \E r \in Requests : Handler(r) \/ Worker(r)
    \/ \E r \in Requests, p \in Proofs : ReceiveUbiProof(r, p)
    \/ \E p \in Proofs : Submitter(p)
    \/ Crons
    \/ World

Spec == Init /\ [][Next]_vars

\* The goroutine of each proof and the cron run. Nothing is assumed of the
\* sequencer, of the chain and of the prover: the height may never be known, a
\* send and a deployment may fail for ever.
Fairness ==
    /\ \A p \in Proofs : WF_vars(Proceed(p))
    /\ WF_vars(CronReads \/ CronSaves)

FairSpec == Spec /\ Fairness

-----------------------------------------------------------------------------
\* Nothing is under way that could still write the row.
Quiet ==
    /\ \A r \in Requests : request[r] # "checking" /\ worker[r].at \in {"none", "gone"}
    /\ \A p \in Proofs : submit[p].at \in {"none", "over"}
    /\ cron.at # "read" /\ sync.at = "off"

\* A proof that was delivered leaves its receipt in the row, unless its answer
\* was lost, the provider died or could not write before the row was saved, the
\* task was sent again, or another goroutine saved a copy read before; and a row
\* that holds a receipt does not say that the task failed, unless a second proof
\* of it failed after the first (ubi_service.go:360, 2148, cron_task.go:453).
ReceiptKept ==
    Quiet => /\ Deliveries > 0 /\ ~HasReceipt(row) => lost # "no"
             /\ HasReceipt(row) /\ row.status = "failed" => Cardinality(Posted) > 1

\* A proof is delivered once: to the sequencer or to the chain, and to the
\* second only when the first did not take it. Only an answer that was lost
\* costs a second delivery.
DeliveredOnce == Deliveries <= Cardinality(Posted) + faults["unseen"]

\* A row says submitted, or holds a receipt, only for a proof that the chain or
\* the sequencer has.
SubmittedIsReal ==
    /\ row.status = "submitted" => Deliveries > 0
    /\ row.contract => contracts > 0
    /\ row.block \/ row.status \in {"verified", "invalid", "rewarded"} => accepted > 0

\* AutoChainProof: a sequencer that is down or has no funds costs no proof. A
\* proof fails only with the deadline, or when the client of the chain cannot
\* be set up after the sequencer refused.
AutoChainDelivers ==
    \A p \in Proofs : route = "both" /\ submit[p].out \in {"late", "timeout", "unpaid"} => expired

\* A task that is still received or running after an hour is settled, or a
\* query that failed has ended the cron that settles it.
OverdueSettles == Overdue ~> (~Overdue \/ cron.at = "dead")

\* Once the deadline has passed no goroutine goes on handing a proof in, however
\* often sends and deployments fail: the deadline ends every loop of it but the
\* one that asks the chain for its height.
SubmissionsEnd ==
    \A p \in Proofs : expired ~> submit[p].at \in {"none", "looking", "over"}

=============================================================================
