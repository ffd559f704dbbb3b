----------------------------- MODULE MiningTask -----------------------------
(***************************************************************************)
(* Mining tasks. They share t_task with FIL-C2 tasks: the engine numbers   *)
(* those, and a mining task, which has a uuid, is given MAX(id) + 1 when   *)
(* its request comes. A handler checks the request, a goroutine runs the   *)
(* prover, a cron settles rows that are pending for more than an hour, and *)
(* another one writes what the sequencer says of each uuid. Rows are saved *)
(* whole under their id, whoever has it by then.                           *)
(***************************************************************************)
EXTENDS Naturals

CONSTANTS
    Uuids,          \* mining tasks
    C2Ids,          \* ids the engine gives to FIL-C2 tasks
    MaxId,          \* bound: ids of the table
    Hosts           \* the providers to look at: where they run provers, and as
                    \* bounds the tasks that come, those the sequencer knows,
                    \* crashes, and rows that grow old

Ids == 1 .. MaxId

ASSUME MiningAssumption ==
    /\ C2Ids \subseteq 2 .. MaxId
    /\ MaxId \in Nat \ {0}
    /\ Hosts \subseteq [where : {"k8s", "docker"}, tasks : SUBSET Uuids,
                       known : SUBSET Uuids, crashes : Nat, aging : SUBSET Ids]
    /\ Uuids \cap {"none", "c2"} = {}

VARIABLES
    host,       \* the provider of this run
    rows,       \* t_task: the task of each id, and its status
    aged,       \* ids whose row is older than an hour
    hand,       \* each request: where its handler is, and the id it was given
    miner,      \* the goroutine of each task: where it is, the row it read
    said,       \* what the sequencer says of each task
    poll,       \* the cron that asks it: the status it read and the one it was told
    settle,     \* the cron of overdue rows: the id and the row it read
    racing,     \* history: requests that took an id before another had saved
    crashes

miningVars == <<host, rows, aged, hand, miner, said, poll, settle, racing, crashes>>

Waiting == {"received", "running"}
\* One verdict that does not change any more stands for all of them.
Final == {"verified"}
MiningStatuses == Waiting \cup Final \cup {"rejected", "failed"}
MiningRows == [task : Uuids \cup {"none", "c2"}, status : MiningStatuses]

Empty   == [task |-> "none", status |-> "received"]
Unasked == [seen |-> "unlisted", told |-> "unknown"]
NoPoll  == [u \in Uuids |-> Unasked]
NoSettle == [id |-> 0, row |-> Empty]

\* One FIL-C2 task has been through.
MiningInit ==
    /\ host \in Hosts
    /\ rows = [i \in Ids |-> IF i = 1 THEN [task |-> "c2", status |-> "verified"] ELSE Empty]
    /\ aged = {}
    /\ hand = [u \in Uuids |-> [at |-> "none", id |-> 0]]
    /\ miner = [u \in Uuids |-> [at |-> "none", row |-> Empty]]
    /\ said = [u \in Uuids |-> "unknown"]
    /\ poll = NoPoll
    /\ settle = NoSettle
    /\ racing = {}
    /\ crashes = 0

Used == {i \in Ids : rows[i].task # "none"}
HasRow(u) == \E i \in Used : rows[i].task = u

\* SaveTaskEntity: an insert, or an update of whatever row has the id.
SaveRow(i, row) == rows' = [rows EXCEPT ![i] = row]

\* UpdateTaskStatusByUuid: one column.
StatusByUuid(u, status) ==
    rows' = [i \in Ids |-> IF rows[i].task = u THEN [rows[i] EXCEPT !.status = status]
                           ELSE rows[i]]

-----------------------------------------------------------------------------
\* Slip: the greatest id is taken for the next one.
NextId_max == CHOOSE i \in Used : \A j \in Used : j =< i

\* MAX(id) + 1.
NextId == 1 + CHOOSE i \in Used : \A j \in Used : j =< i

\* Read in one statement, saved in another.
PickId(u) ==
    /\ u \in host.tasks
    /\ hand[u].at = "none"
    /\ NextId \in Ids
    /\ hand' = [hand EXCEPT ![u] = [at |-> "picked", id |-> NextId]]
    /\ LET others == {v \in Uuids : hand[v].at = "picked"} IN
       racing' = IF others = {} THEN racing ELSE racing \cup others \cup {u}
    /\ UNCHANGED <<host, rows, aged, miner, said, poll, settle, crashes>>

SaveMining(u) ==
    /\ hand[u].at = "picked"
    /\ SaveRow(hand[u].id, [task |-> u, status |-> "received"])
    /\ aged' = aged \ {hand[u].id}
    /\ hand' = [hand EXCEPT ![u].at = "checking"]
    /\ UNCHANGED <<host, miner, said, poll, settle, racing, crashes>>

\* A missing parameter: an answer and nothing more.
LeaveMining(u) ==
    /\ hand[u].at = "checking"
    /\ hand' = [hand EXCEPT ![u].at = "over"]
    /\ UNCHANGED <<host, rows, aged, miner, said, poll, settle, racing, crashes>>

RefuseMining(u) ==
    /\ hand[u].at = "checking"
    /\ hand' = [hand EXCEPT ![u].at = "over"]
    /\ \E s \in {"rejected", "failed"} : SaveRow(hand[u].id, [task |-> u, status |-> s])
    /\ aged' = aged \ {hand[u].id}
    /\ UNCHANGED <<host, miner, said, poll, settle, racing, crashes>>

AcceptMining(u) ==
    /\ hand[u].at = "checking"
    /\ hand' = [hand EXCEPT ![u].at = "over"]
    /\ miner' = [miner EXCEPT ![u].at = "starting"]
    /\ UNCHANGED <<host, rows, aged, said, poll, settle, racing, crashes>>

\* A FIL-C2 task of the engine, saved under its id.
SaveC2(i) ==
    /\ rows[i].task # "c2"
    /\ SaveRow(i, [task |-> "c2", status |-> "received"])
    /\ aged' = aged \ {i}
    /\ UNCHANGED <<host, hand, miner, said, poll, settle, racing, crashes>>

-----------------------------------------------------------------------------
\* The goroutine. On Kubernetes it would set the row with the request's own id
\* to running, and a mining request has none; docker goes by the uuid.
MinerRuns(u) ==
    /\ miner[u].at = "starting"
    /\ miner' = [miner EXCEPT ![u].at = "mining"]
    /\ IF host.where = "docker" THEN StatusByUuid(u, "running") ELSE UNCHANGED rows
    /\ UNCHANGED <<host, aged, hand, said, poll, settle, racing, crashes>>

\* Over, or it never ran. Docker writes the failure to t_ecp_job, where a
\* mining task has no row; on Kubernetes there is a deferred part.
MinerEnds(u) ==
    /\ miner[u].at \in {"starting", "mining"}
    /\ miner' = [miner EXCEPT ![u].at = IF host.where = "k8s" THEN "ended" ELSE "gone"]
    /\ UNCHANGED <<host, rows, aged, hand, said, poll, settle, racing, crashes>>

\* It reads the row of its id, and saves it as failed, however the job ended.
MinerReads(u) ==
    /\ miner[u].at = "ended"
    /\ miner' = [miner EXCEPT ![u] = [at |-> "saving", row |-> rows[hand[u].id]]]
    /\ UNCHANGED <<host, rows, aged, hand, said, poll, settle, racing, crashes>>

MinerSaves(u) ==
    /\ miner[u].at = "saving"
    /\ SaveRow(hand[u].id, [miner[u].row EXCEPT !.status = "failed"])
    /\ miner' = [miner EXCEPT ![u] = [at |-> "gone", row |-> Empty]]
    /\ UNCHANGED <<host, aged, hand, said, poll, settle, racing, crashes>>

-----------------------------------------------------------------------------
\* syncUbiMiningTaskStatus.

\* Slip: a task that has failed is not asked for.
Listed_unfailed == {u \in Uuids : \E i \in Used : rows[i].task = u /\ rows[i].status # "failed"}

\* Every row with a uuid: "status is not this or not that" excludes none.
Listed == {u \in Uuids : HasRow(u)}

News(u) == poll[u].told # "unknown" /\ poll[u].seen # poll[u].told

\* A pass reads the rows and is told of them. One whose question fails changes
\* nothing.
PollAsks ==
    /\ poll = NoPoll
    /\ Listed # {}
    /\ poll' = [u \in Uuids |-> IF u \in Listed THEN
            [seen |-> rows[CHOOSE i \in Used : rows[i].task = u].status, told |-> said[u]]
            ELSE Unasked]
    /\ UNCHANGED <<host, rows, aged, hand, miner, said, settle, racing, crashes>>

\* What differs from what was read is written, one column by the uuid.
PollWrites ==
    /\ poll # NoPoll
    /\ rows' = [i \in Ids |-> IF rows[i].task \in Uuids /\ News(rows[i].task)
                THEN [rows[i] EXCEPT !.status = poll[rows[i].task].told] ELSE rows[i]]
    /\ poll' = NoPoll
    /\ UNCHANGED <<host, aged, hand, miner, said, settle, racing, crashes>>

-----------------------------------------------------------------------------
\* The cron of overdue rows; a mining task has neither contract nor block.
SettleReads(i) ==
    /\ settle = NoSettle
    /\ i \in aged \cap Used
    /\ rows[i].status \in Waiting
    /\ settle' = [id |-> i, row |-> rows[i]]
    /\ UNCHANGED <<host, rows, aged, hand, miner, said, poll, racing, crashes>>

SettleSaves ==
    /\ settle # NoSettle
    /\ SaveRow(settle.id, [settle.row EXCEPT !.status = "failed"])
    /\ settle' = NoSettle
    /\ UNCHANGED <<host, aged, hand, miner, said, poll, racing, crashes>>

-----------------------------------------------------------------------------
\* The sequencer learns of a task from the engine, and its view moves on.
Says(u) ==
    /\ u \in host.known
    /\ hand[u].at # "none"
    /\ said[u] \notin Final
    /\ \E s \in Final \cup {"running"} : s # said[u] /\ said' = [said EXCEPT ![u] = s]
    /\ UNCHANGED <<host, rows, aged, hand, miner, poll, settle, racing, crashes>>

Ages(i) ==
    /\ i \in (host.aging \cap Used) \ aged
    /\ aged' = aged \cup {i}
    /\ UNCHANGED <<host, rows, hand, miner, said, poll, settle, racing, crashes>>

MiningCrash ==
    /\ crashes < host.crashes
    /\ crashes' = crashes + 1
    /\ hand' = [u \in Uuids |-> IF hand[u].at \in {"none", "unsaved"} THEN hand[u]
                ELSE IF hand[u].at = "picked" THEN [at |-> "unsaved", id |-> 0]
                ELSE [hand[u] EXCEPT !.at = "over"]]
    /\ miner' = [u \in Uuids |-> IF miner[u].at = "none" THEN miner[u]
                                 ELSE [at |-> "gone", row |-> Empty]]
    /\ poll' = NoPoll
    /\ settle' = NoSettle
    /\ UNCHANGED <<host, rows, aged, said, racing>>

-----------------------------------------------------------------------------
MiningNext ==
    \/ \E u \in Uuids :
        \/ PickId(u) \/ SaveMining(u) \/ LeaveMining(u) \/ RefuseMining(u) \/ AcceptMining(u)
        \/ MinerRuns(u) \/ MinerEnds(u) \/ MinerReads(u) \/ MinerSaves(u)
        \/ Says(u)
    \/ \E i \in C2Ids : SaveC2(i)
    \/ PollAsks \/ PollWrites
    \/ (\E i \in Ids : SettleReads(i) \/ Ages(i)) \/ SettleSaves
    \/ MiningCrash

MiningSpec == MiningInit /\ [][MiningNext]_miningVars

\* Both crons run, the sequencer answers again and again, and a goroutine that
\* has begun to write its row goes on.
MiningFairness ==
    /\ WF_miningVars(PollAsks \/ PollWrites)
    /\ WF_miningVars(SettleSaves)
    /\ \A u \in Uuids : WF_miningVars(MinerSaves(u))

-----------------------------------------------------------------------------
MiningTypeOK ==
    /\ host \in Hosts
    /\ rows \in [Ids -> MiningRows]
    /\ aged \subseteq Ids
    /\ hand \in [Uuids -> [at : {"none", "picked", "unsaved", "checking", "over"},
                           id : 0 .. MaxId]]
    /\ miner \in [Uuids -> [at : {"none", "starting", "mining", "ended", "saving", "gone"},
                            row : MiningRows]]
    /\ said \in [Uuids -> Final \cup {"unknown", "running"}]
    /\ poll \in [Uuids -> [seen : MiningStatuses \cup {"unlisted"},
                           told : Final \cup {"unknown", "running"}]]
    /\ settle \in [id : 0 .. MaxId, row : MiningRows]
    /\ racing \subseteq Uuids
    /\ crashes \in 0 .. host.crashes

Saved(u) == hand[u].at \in {"checking", "over"}

\* A mining task keeps its row, unless its request took the id before another
\* one had saved it, or the engine gives the id to a FIL-C2 task
\* (ubi_service.go:67-75, entity_service.go:45).
RowLostOnlyToSameId ==
    \A u \in Uuids : Saved(u) /\ ~HasRow(u) => u \in racing \/ hand[u].id \in C2Ids

\* What the sequencer says in the end is what the row says in the end, though
\* the goroutine saves every job as failed and the cron every slow one.
FinalVerdictWins ==
    <>[](\A i \in Ids : LET u == rows[i].task IN
             u \in Uuids /\ said[u] \in Final => rows[i].status = said[u])

=============================================================================
