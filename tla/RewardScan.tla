----------------------------- MODULE RewardScan -----------------------------
(***************************************************************************)
(* The scanner of rewards in the FCP daemon. Every ten hours it reads the  *)
(* RewardReleased events of the blocks after the last one it has stored,   *)
(* chunk by chunk, writes each amount into its task's row in t_job, and    *)
(* stores the last block of the chunk. Meanwhile ReNewJob and the cron of  *)
(* overdue jobs read such rows and write all of them back.                 *)
(*                                                                         *)
(* An event names its task by a hash only: the task's uuid is looked for   *)
(* in the input of the transaction, which may release several rewards.     *)
(***************************************************************************)
EXTENDS Naturals

CONSTANTS
    Rewards,                \* RewardReleased events for this provider
    Tasks,                  \* FCP tasks, each with a row
    Txs,                    \* transactions that release rewards
    TaskOf,                 \* the task a reward is for
    TxOf,                   \* the transaction it is in
    LastTask,               \* the last task in the input of each transaction
    JobManagerCreated,      \* where to begin without a stored block
    EdgeTaskPaymentCreated, \* the same for the scanner of payments
    ChunkSize,              \* blocks asked for at a time (1000)
    ScanFaults,             \* which of ScanFaultKinds may happen
    MaxBlocks,              \* bound: blocks of the chain
    MaxScanFaults,          \* bound: faults
    MaxOldRows              \* bound: reads of rows that are written back

\* The stored block cannot be read or written; the process ends; the iterator
\* ends early; an event cannot be resolved or its row not written; the input
\* of a transaction is not understood and its last uuid is taken ("force").
ScanFaultKinds == {"load", "save", "crash", "iterator", "event", "force"}

ASSUME RewardScanAssumption ==
    /\ TaskOf \in [Rewards -> Tasks]
    /\ TxOf \in [Rewards -> Txs]
    /\ LastTask \in [Txs -> Tasks]
    /\ JobManagerCreated \in Nat
    /\ EdgeTaskPaymentCreated \in Nat
    /\ ChunkSize \in Nat \ {0}
    /\ ScanFaults \subseteq ScanFaultKinds
    /\ MaxBlocks \in Nat
    /\ JobManagerCreated =< MaxBlocks
    /\ MaxScanFaults \in Nat
    /\ MaxOldRows \in Nat
    /\ "none" \notin Rewards

VARIABLES
    tip,        \* height of the chain
    released,   \* the block of each transaction, 0 before there is one
    scan,       \* Scan: where it is (at), its chunk (from, to), the height it
                \* read (top) and the events of the chunk yet to come (todo)
    scanned,    \* the stored block, 0 without a row
    shown,      \* the reward that each task's row shows
    renewal,    \* ReNewJob: the row it works on, and the reward it read there
    sweep,      \* watchExpiredTask: the reward it read in each row that it has not
                \* passed yet
    scanFaults, \* how many faults there were
    oldRows,    \* how often ReNewJob or watchExpiredTask has read rows
    harm        \* history: what kept or took a reward from its row

scanVars == <<tip, released, scan, scanned, shown, renewal, sweep, scanFaults, oldRows, harm>>

Shown  == Rewards \cup {"none"}
Blocks == 0 .. (MaxBlocks + ChunkSize)
Asleep == [at |-> "asleep", from |-> 0, to |-> 0, top |-> 0, todo |-> {}]
NoRenewal == [task |-> "none", reward |-> "none"]
NoSweep == [t \in Tasks |-> "none"]

ScanInit ==
    /\ tip = JobManagerCreated
    /\ released = [x \in Txs |-> 0]
    /\ scan = Asleep
    /\ scanned = 0
    /\ shown = [t \in Tasks |-> "none"]
    /\ renewal = NoRenewal
    /\ sweep = NoSweep
    /\ scanFaults = 0
    /\ oldRows = 0
    /\ harm = {}

BlockOf(r) == released[TxOf[r]]
Released(r) == BlockOf(r) > 0

-----------------------------------------------------------------------------
\* The chain: a new block with some of the transactions.
Release ==
    /\ tip < MaxBlocks
    /\ tip' = tip + 1
    /\ \E X \in SUBSET {x \in Txs : released[x] = 0} :
            released' = [x \in Txs |-> IF x \in X THEN tip + 1 ELSE released[x]]
    /\ UNCHANGED <<scan, scanned, shown, renewal, sweep, scanFaults, oldRows, harm>>

ScanFault(f) ==
    /\ f \in ScanFaults
    /\ scanFaults < MaxScanFaults
    /\ scanFaults' = scanFaults + 1

ReadOldRows ==
    /\ oldRows < MaxOldRows
    /\ oldRows' = oldRows + 1

Harm(why) == harm' = harm \cup {why}

\* The block to begin with: after the stored one, but 0 is itself scanned.
After(b) == IF b = 0 THEN 0 ELSE b + 1

WakeUp ==
    /\ scan.at = "asleep"
    /\ scan' = [Asleep EXCEPT !.at = "height",
            !.from = After(IF scanned = 0 THEN JobManagerCreated ELSE scanned)]
    /\ UNCHANGED <<tip, released, scanned, shown, renewal, sweep, scanFaults, oldRows, harm>>

\* An error of the database: it begins where the payments begin.
WakeUpUnread ==
    /\ scan.at = "asleep"
    /\ ScanFault("load")
    /\ scan' = [Asleep EXCEPT !.at = "height", !.from = After(EdgeTaskPaymentCreated)]
    /\ Harm("load")
    /\ UNCHANGED <<tip, released, scanned, shown, renewal, sweep, oldRows>>

\* Slip: a chunk that would not be full is left for the next time.
Chunk_full(from, top) ==
    IF from + ChunkSize - 1 > top THEN Asleep
    ELSE [at |-> "filter", from |-> from, top |-> top, todo |-> {},
          to |-> from + ChunkSize - 1]

\* The chunk that begins with this block; none is left beyond the height.
Chunk(from, top) ==
    IF from > top THEN Asleep
    ELSE [at |-> "filter", from |-> from, top |-> top, todo |-> {},
          to |-> IF from + ChunkSize - 1 > top THEN top ELSE from + ChunkSize - 1]

Height ==
    /\ scan.at = "height"
    /\ scan' = Chunk(scan.from, tip)
    /\ UNCHANGED <<tip, released, scanned, shown, renewal, sweep, scanFaults, oldRows, harm>>

FilterRewardReleased ==
    /\ scan.at = "filter"
    /\ scan' = [scan EXCEPT !.at = "events",
            !.todo = {r \in Rewards : Released(r) /\ BlockOf(r) \in scan.from .. scan.to}]
    /\ UNCHANGED <<tip, released, scanned, shown, renewal, sweep, scanFaults, oldRows, harm>>

\* No height or no events: until the next time.
ChainFails ==
    /\ scan.at \in {"height", "filter"}
    /\ scan' = Asleep
    /\ UNCHANGED <<tip, released, scanned, shown, renewal, sweep, scanFaults, oldRows, harm>>

\* Events come in the order of their blocks.
FirstEvent(r) ==
    /\ scan.at = "events"
    /\ r \in scan.todo
    /\ \A q \in scan.todo : BlockOf(r) =< BlockOf(q)

Handled(r) == scan' = [scan EXCEPT !.todo = @ \ {r}]

\* Slip: the last uuid of the transaction, whatever the hash says.
ParseRewardReleased_last(r) ==
    /\ FirstEvent(r)
    /\ Handled(r)
    /\ shown' = [shown EXCEPT ![LastTask[TxOf[r]]] = r]
    /\ UNCHANGED <<tip, released, scanned, renewal, sweep, scanFaults, oldRows, harm>>

\* The uuid with the event's hash; its row then shows this amount.
ParseRewardReleased(r) ==
    /\ FirstEvent(r)
    /\ Handled(r)
    /\ shown' = [shown EXCEPT ![TaskOf[r]] = r]
    /\ UNCHANGED <<tip, released, scanned, renewal, sweep, scanFaults, oldRows, harm>>

\* The last 36 bytes of the input are the last task's uuid, and no hash has to
\* agree: the search leaves the last uuid where it found none.
ParseByForce(r) ==
    /\ FirstEvent(r)
    /\ ScanFault("force")
    /\ Handled(r)
    /\ shown' = [shown EXCEPT ![LastTask[TxOf[r]]] = r]
    /\ IF LastTask[TxOf[r]] = TaskOf[r] THEN UNCHANGED harm ELSE Harm("force")
    /\ UNCHANGED <<tip, released, scanned, renewal, sweep, oldRows>>

\* Its error is logged, and the next event is handled.
ParseFails(r) ==
    /\ FirstEvent(r)
    /\ ScanFault("event")
    /\ Handled(r)
    /\ Harm("event")
    /\ UNCHANGED <<tip, released, scanned, shown, renewal, sweep, oldRows>>

\* The iterator's error is not looked at: the chunk is over.
IteratorEnds ==
    /\ scan.at = "events"
    /\ scan.todo # {}
    /\ ScanFault("iterator")
    /\ scan' = [scan EXCEPT !.todo = {}]
    /\ Harm("iterator")
    /\ UNCHANGED <<tip, released, scanned, shown, renewal, sweep, oldRows>>

ChunkOver ==
    /\ scan.at = "events"
    /\ scan.todo = {}
    /\ scan' = Chunk(scan.from + ChunkSize, scan.top)

\* Slip: a chunk is stored before its events are handled.
SaveChunk_early ==
    /\ scan.at = "events"
    /\ scanned' = scan.to
    /\ scan' = IF scan.todo = {} THEN Chunk(scan.from + ChunkSize, scan.top) ELSE scan
    /\ UNCHANGED <<tip, released, shown, renewal, sweep, scanFaults, oldRows, harm>>

SaveChunk ==
    /\ ChunkOver
    /\ scanned' = scan.to
    /\ UNCHANGED <<tip, released, shown, renewal, sweep, scanFaults, oldRows, harm>>

\* The error of the write is not looked at; the next chunk is asked for.
SaveChunkFails ==
    /\ ChunkOver
    /\ ScanFault("save")
    /\ UNCHANGED <<tip, released, scanned, shown, renewal, sweep, oldRows, harm>>

ScanDies ==
    /\ scan.at # "asleep"
    /\ ScanFault("crash")
    /\ scan' = Asleep
    /\ renewal' = NoRenewal
    /\ sweep' = NoSweep
    /\ UNCHANGED <<tip, released, scanned, shown, oldRows, harm>>

-----------------------------------------------------------------------------
\* ReNewJob: a read, a question to the chain, and a write of the whole row.
RenewReads(t) ==
    /\ renewal = NoRenewal
    /\ ReadOldRows
    /\ renewal' = [task |-> t, reward |-> shown[t]]
    /\ UNCHANGED <<tip, released, scan, scanned, shown, sweep, scanFaults, harm>>

RenewSaves ==
    /\ renewal # NoRenewal
    /\ shown' = [shown EXCEPT ![renewal.task] = renewal.reward]
    /\ IF shown' = shown THEN UNCHANGED harm ELSE Harm("renewal")
    /\ renewal' = NoRenewal
    /\ UNCHANGED <<tip, released, scan, scanned, sweep, scanFaults, oldRows>>

\* watchExpiredTask: it reads all rows, and passes them one by one; one pass at a
\* time is modelled.
SweepReads ==
    /\ sweep = NoSweep
    /\ ReadOldRows
    /\ sweep' = shown
    /\ UNCHANGED <<tip, released, scan, scanned, shown, renewal, scanFaults, harm>>

\* A job that is found to run, or of which the chain says something, is written
\* back as it was read, once or for both reasons. A row that showed no reward then
\* keeps the one it has: Updates skips empty columns.
SweepWrites(t) ==
    /\ sweep[t] # "none"
    /\ shown' = [shown EXCEPT ![t] = sweep[t]]
    /\ IF shown' = shown THEN UNCHANGED harm ELSE Harm("sweep")
    /\ UNCHANGED <<tip, released, scan, scanned, renewal, sweep, scanFaults, oldRows>>

SweepPasses(t) ==
    /\ sweep[t] # "none"
    /\ sweep' = [sweep EXCEPT ![t] = "none"]
    /\ UNCHANGED <<tip, released, scan, scanned, shown, renewal, scanFaults, oldRows, harm>>

-----------------------------------------------------------------------------
HandleEvent ==
    \E r \in Rewards : ParseRewardReleased(r) \/ ParseByForce(r) \/ ParseFails(r)

ScanNext ==
    \/ Release
    \/ WakeUp \/ WakeUpUnread \/ Height \/ FilterRewardReleased \/ ChainFails
    \/ HandleEvent \/ IteratorEnds \/ SaveChunk \/ SaveChunkFails \/ ScanDies
    \/ (\E t \in Tasks : RenewReads(t)) \/ RenewSaves
    \/ SweepReads \/ (\E t \in Tasks : SweepWrites(t) \/ SweepPasses(t))

ScanSpec == ScanInit /\ [][ScanNext]_scanVars

\* The cron fires for ever, a pass goes on, and the chain answers again and
\* again.
ScanFairness ==
    /\ WF_scanVars(WakeUp)
    /\ SF_scanVars(Height)
    /\ SF_scanVars(FilterRewardReleased)
    /\ WF_scanVars(HandleEvent)
    /\ WF_scanVars(SaveChunk)

FairScanSpec == ScanSpec /\ ScanFairness

-----------------------------------------------------------------------------
ScanTypeOK ==
    /\ tip \in JobManagerCreated .. MaxBlocks
    /\ released \in [Txs -> 0 .. MaxBlocks]
    /\ scan.at \in {"asleep", "height", "filter", "events"}
    /\ scan.from \in Nat /\ scan.to \in Nat /\ scan.top \in Nat
    /\ scan.todo \subseteq Rewards
    /\ scanned \in 0 .. MaxBlocks
    /\ shown \in [Tasks -> Shown]
    /\ renewal \in [task : Tasks \cup {"none"}, reward : Shown]
    /\ sweep \in [Tasks -> Shown]
    /\ scanFaults \in 0 .. MaxScanFaults
    /\ oldRows \in 0 .. MaxOldRows
    /\ harm \subseteq ScanFaultKinds \cup {"renewal", "sweep"}

\* The newest of the task's rewards up to the stored block.
UpTo(t) == {r \in Rewards : TaskOf[r] = t /\ Released(r) /\ BlockOf(r) =< scanned}
Newer(r, q) == BlockOf(r) >= BlockOf(q)

\* What the stored block says is done has been done: a row shows a reward of
\* its task at least as new as any up to that block, however passes ended and
\* whatever was read twice. Only what is listed as harm keeps a reward from its
\* row, and for good: an error of the database that moved the start, an event
\* or an iterator that failed, an input not understood, and the old rows that
\* ReNewJob or the cron of overdue jobs wrote back. The cron takes a row back to an
\* older reward of its task, and never to none, since it skips empty columns.
\* Whatever harm there was, a row shows a reward of another task only where the
\* input of a transaction for several tasks was not understood
\* (scanner_service.go:65-116, 150-174, space_service.go:391, cron_task.go:327, 687).
RewardsShown ==
    /\ harm \subseteq {"sweep"} => \A t \in Tasks : \A q \in UpTo(t) :
           /\ shown[t] # "none" /\ TaskOf[shown[t]] = t
           /\ harm = {} => Newer(shown[t], q)
    /\ "force" \notin harm => \A t \in Tasks : shown[t] # "none" => TaskOf[shown[t]] = t

\* The stored block reaches every reward in the end, whatever failed on the
\* way: no chunk is asked for for ever, none is left out.
EveryRewardReached ==
    []<>(\A r \in Rewards : Released(r) => scanned >= BlockOf(r))

=============================================================================
