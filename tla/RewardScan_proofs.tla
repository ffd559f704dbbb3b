-------------------------- MODULE RewardScan_proofs --------------------------
(***************************************************************************)
(* Proofs about RewardScan, for any rewards, transactions, tasks, chunk    *)
(* size, chain and faults: a row shows what the stored block promises.     *)
(***************************************************************************)
EXTENDS RewardScan, TLAPS

\* A pass as one record, and the chunk it is in.
Scans == [at : {"asleep", "height", "filter", "events"}, from : Nat, to : Nat,
          top : Nat, todo : SUBSET Rewards]

\* A pass looks no further than the chain goes, and rewards are in blocks of the
\* chain, after the contract's own.
ReleaseInv ==
    /\ \A x \in Txs : released[x] = 0 \/ (JobManagerCreated < released[x] /\ released[x] =< tip)
    /\ scanned =< tip
    /\ scan.top =< tip

\* What is yet to come of a chunk is in the chunk.
ChunkInv ==
    /\ scan.at \in {"filter", "events"} =>
           /\ scan.from =< scan.top
           /\ scan.to = IF scan.from + ChunkSize - 1 > scan.top THEN scan.top
                        ELSE scan.from + ChunkSize - 1
    /\ scan.at # "events" => scan.todo = {}
    /\ \A r \in scan.todo : Released(r) /\ scan.from =< BlockOf(r) /\ BlockOf(r) =< scan.to

RewardScanTypeInv ==
    ScanTypeOK /\ scan \in Scans /\ ReleaseInv /\ ChunkInv

\* The row of the reward's task shows a reward of this task, and one as new unless the
\* cron of overdue jobs wrote an old row.
Right(r) ==
    /\ shown[TaskOf[r]] # "none"
    /\ TaskOf[shown[TaskOf[r]]] = TaskOf[r]
    /\ harm = {} => Newer(shown[TaskOf[r]], r)

\* Without another harm the rewards up to the stored block are shown, and so is what the
\* pass has behind it; it began after the stored block, and it takes the events in
\* their order, so that no older reward comes after a newer one.
ShownInv ==
    harm \subseteq {"sweep"} =>
        /\ \A r \in Rewards : Released(r) /\ BlockOf(r) =< scanned => Right(r)
        /\ scan.at # "asleep" => scanned = 0 \/ scanned < scan.from
        /\ scan.at = "height" => scan.from =< tip + 1
        /\ scan.at \in {"height", "filter"} =>
               \A r \in Rewards : Released(r) /\ BlockOf(r) < scan.from => Right(r)
        /\ scan.at = "events" =>
               \A r \in Rewards : Released(r) /\ BlockOf(r) =< scan.to /\ r \notin scan.todo =>
                   Right(r) /\ \A q \in scan.todo : BlockOf(r) =< BlockOf(q)

\* Rows, and the copies ReNewJob and the cron have, show rewards of their own tasks.
OwnInv ==
    /\ renewal # NoRenewal => renewal.task \in Tasks
    /\ "force" \notin harm =>
           /\ \A t \in Tasks : shown[t] # "none" => TaskOf[shown[t]] = t
           /\ renewal.reward # "none" => TaskOf[renewal.reward] = renewal.task
           /\ \A t \in Tasks : sweep[t] # "none" => TaskOf[sweep[t]] = t

-----------------------------------------------------------------------------
LEMMA RewardInitType == ScanInit => RewardScanTypeInv
BY RewardScanAssumption
   DEF ScanInit, RewardScanTypeInv, ScanTypeOK, Scans, ReleaseInv, ChunkInv, Asleep,
       NoRenewal, NoSweep, Shown

\* The block of a reward is one of the chain, after the contract's.
LEMMA RewardBlocks ==
    ASSUME RewardScanTypeInv, NEW r \in Rewards
    PROVE  /\ BlockOf(r) \in Nat
           /\ Released(r) <=> BlockOf(r) # 0
           /\ Released(r) => JobManagerCreated < BlockOf(r) /\ BlockOf(r) =< tip
BY RewardScanAssumption
   DEF RewardScanTypeInv, ScanTypeOK, ReleaseInv, BlockOf, Released

\* The next chunk is within the height that was read.
LEMMA ChunkTypes ==
    ASSUME NEW from \in Nat, NEW top \in Nat
    PROVE  /\ Chunk(from, top) \in Scans
           /\ Chunk(from, top).todo = {}
           /\ Chunk(from, top).top \in {0, top}
           /\ \/ Chunk(from, top) = Asleep /\ from > top
              \/ /\ from =< top
                 /\ Chunk(from, top).at = "filter"
                 /\ Chunk(from, top).from = from
                 /\ Chunk(from, top).top = top
                 /\ Chunk(from, top).to = IF from + ChunkSize - 1 > top THEN top
                                          ELSE from + ChunkSize - 1
BY RewardScanAssumption DEF Chunk, Scans, Asleep

LEMMA FaultCounted ==
    ASSUME RewardScanTypeInv, NEW f, ScanFault(f)
    PROVE  scanFaults' \in 0 .. MaxScanFaults /\ f \in ScanFaultKinds
BY RewardScanAssumption DEF RewardScanTypeInv, ScanTypeOK, ScanFault

\* A row that is written shows a reward.
LEMMA ShownType ==
    ASSUME RewardScanTypeInv, NEW t, NEW r \in Shown, shown' = [shown EXCEPT ![t] = r]
    PROVE  shown' \in [Tasks -> Shown]
BY DEF RewardScanTypeInv, ScanTypeOK

LEMMA RewardStepType == RewardScanTypeInv /\ [ScanNext]_scanVars => RewardScanTypeInv'
<1> SUFFICES ASSUME RewardScanTypeInv, [ScanNext]_scanVars PROVE RewardScanTypeInv'
  OBVIOUS
<1>0. /\ tip \in Nat /\ scanned \in Nat /\ scan.from \in Nat /\ scan.to \in Nat /\ scan.top \in Nat
      /\ scan.todo \subseteq Rewards /\ scan \in Scans
      /\ Asleep \in Scans /\ Asleep.at = "asleep" /\ Asleep.todo = {} /\ Asleep.top = 0
  BY RewardScanAssumption DEF RewardScanTypeInv, ScanTypeOK, Scans, Asleep
<1>1. ASSUME UNCHANGED <<tip, released, scanned, shown, renewal, sweep, oldRows>>,
             scan' \in Scans, scan'.top =< tip, ChunkInv',
             scanFaults' \in 0 .. MaxScanFaults,
             harm' \subseteq ScanFaultKinds \cup {"renewal", "sweep"}
      PROVE  RewardScanTypeInv'
  BY <1>1 DEF RewardScanTypeInv, ScanTypeOK, ReleaseInv, Scans
<1>2. CASE Release
  <2>1. PICK X \in SUBSET {x \in Txs : released[x] = 0} :
            released' = [x \in Txs |-> IF x \in X THEN tip + 1 ELSE released[x]]
    BY <1>2 DEF Release
  <2>2. /\ tip' = tip + 1 /\ tip' \in JobManagerCreated .. MaxBlocks
        /\ UNCHANGED <<scan, scanned, shown, renewal, sweep, scanFaults, oldRows, harm>>
    BY <1>2, RewardScanAssumption DEF Release, RewardScanTypeInv, ScanTypeOK
  <2>3. /\ \A x \in Txs : \/ released'[x] = released[x]
                          \/ released[x] = 0 /\ released'[x] = tip + 1
        /\ released' \in [Txs -> 0 .. MaxBlocks]
    BY <2>1, <2>2, RewardScanAssumption DEF RewardScanTypeInv, ScanTypeOK
  <2>4. ReleaseInv'
    BY <1>0, <2>2, <2>3, RewardScanAssumption DEF RewardScanTypeInv, ScanTypeOK, ReleaseInv
  <2>5. ASSUME NEW r \in scan.todo
        PROVE  BlockOf(r)' = BlockOf(r) /\ Released(r)'
    <3>1. Released(r) /\ r \in Rewards
      BY <1>0 DEF RewardScanTypeInv, ChunkInv
    <3>2. TxOf[r] \in Txs /\ released[TxOf[r]] \in Nat /\ released[TxOf[r]] > 0
      BY <3>1, RewardScanAssumption DEF RewardScanTypeInv, ScanTypeOK, Released, BlockOf
    <3>3. QED
      BY <2>3, <3>2 DEF BlockOf, Released
  <2>6. ChunkInv'
    BY <2>2, <2>5 DEF RewardScanTypeInv, ChunkInv
  <2>7. QED
    BY <2>2, <2>3, <2>4, <2>6 DEF RewardScanTypeInv, ScanTypeOK
<1>3. CASE WakeUp \/ WakeUpUnread
  <2>1. PICK b \in Nat : scan' = [Asleep EXCEPT !.at = "height", !.from = After(b)]
    BY <1>0, <1>3, RewardScanAssumption DEF WakeUp, WakeUpUnread
  <2>2. After(b) \in Nat
    BY DEF After
  <2>3. scan' \in Scans /\ scan'.at = "height" /\ scan'.todo = {} /\ scan'.top = 0
    BY <2>1, <2>2 DEF Asleep, Scans
  <2>4. ChunkInv'
    BY <2>3 DEF ChunkInv
  <2>5. /\ UNCHANGED <<tip, released, scanned, shown, renewal, sweep, oldRows>>
        /\ scanFaults' \in 0 .. MaxScanFaults
        /\ harm' \subseteq ScanFaultKinds \cup {"renewal", "sweep"}
    BY <1>3, FaultCounted
       DEF WakeUp, WakeUpUnread, Harm, RewardScanTypeInv, ScanTypeOK, ScanFaultKinds
  <2>6. QED
    BY <1>0, <1>1, <2>3, <2>4, <2>5
<1>4. ASSUME NEW from \in Nat, NEW top \in Nat, top =< tip, scan' = Chunk(from, top)
      PROVE  scan' \in Scans /\ scan'.top =< tip /\ ChunkInv'
  <2>1. scan' \in Scans /\ scan'.top =< tip
    BY <1>0, <1>4, ChunkTypes
  <2>2. ChunkInv'
    BY <1>0, <1>4, ChunkTypes DEF ChunkInv
  <2>3. QED
    BY <2>1, <2>2
<1>5. CASE Height
  BY <1>0, <1>1, <1>4, <1>5 DEF Height, RewardScanTypeInv, ScanTypeOK
<1>6. CASE FilterRewardReleased
  <2>1. /\ scan' = [scan EXCEPT !.at = "events",
              !.todo = {r \in Rewards : Released(r) /\ BlockOf(r) \in scan.from .. scan.to}]
        /\ scan.at = "filter"
        /\ UNCHANGED <<tip, released, scanned, shown, renewal, sweep, scanFaults, oldRows, harm>>
    BY <1>6 DEF FilterRewardReleased
  <2>2. /\ scan' \in Scans /\ scan'.at = "events" /\ scan'.from = scan.from
        /\ scan'.to = scan.to /\ scan'.top = scan.top
        /\ scan'.todo = {r \in Rewards : Released(r) /\ BlockOf(r) \in scan.from .. scan.to}
    BY <1>0, <2>1 DEF Scans
  <2>3. ASSUME NEW r \in scan'.todo
        PROVE  Released(r)' /\ scan'.from =< BlockOf(r)' /\ BlockOf(r)' =< scan'.to
    BY <1>0, <2>1, <2>2, RewardBlocks DEF Released, BlockOf
  <2>4. ChunkInv'
    BY <2>1, <2>2, <2>3 DEF RewardScanTypeInv, ChunkInv
  <2>5. QED
    BY <1>1, <2>1, <2>2, <2>4 DEF RewardScanTypeInv, ScanTypeOK, ReleaseInv
<1>7. CASE ChainFails
  <2>1. ChunkInv'
    BY <1>0, <1>7 DEF ChainFails, ChunkInv
  <2>2. QED
    BY <1>0, <1>1, <1>7, <2>1 DEF ChainFails, RewardScanTypeInv, ScanTypeOK
<1>8. ASSUME NEW S \in SUBSET scan.todo, scan.at = "events",
             scan' = [scan EXCEPT !.todo = S], UNCHANGED released
      PROVE  scan' \in Scans /\ scan'.top =< tip /\ ChunkInv'
  <2>1. /\ scan' \in Scans /\ scan'.at = "events" /\ scan'.from = scan.from
        /\ scan'.to = scan.to /\ scan'.top = scan.top /\ scan'.todo = S
    BY <1>0, <1>8 DEF Scans
  <2>2. ASSUME NEW r \in scan'.todo
        PROVE  Released(r)' /\ scan'.from =< BlockOf(r)' /\ BlockOf(r)' =< scan'.to
    BY <1>8, <2>1 DEF RewardScanTypeInv, ChunkInv, Released, BlockOf
  <2>3. ChunkInv'
    BY <1>8, <2>1, <2>2 DEF RewardScanTypeInv, ChunkInv
  <2>4. QED
    BY <2>1, <2>3 DEF RewardScanTypeInv, ReleaseInv
<1>9. ASSUME NEW r \in Rewards, ParseRewardReleased(r) \/ ParseByForce(r) \/ ParseFails(r)
      PROVE  RewardScanTypeInv'
  <2>1. /\ scan.at = "events" /\ scan' = [scan EXCEPT !.todo = scan.todo \ {r}]
        /\ UNCHANGED <<tip, released, scanned, renewal, sweep, oldRows>>
    BY <1>9 DEF ParseRewardReleased, ParseByForce, ParseFails, FirstEvent, Handled
  <2>2. scan' \in Scans /\ scan'.top =< tip /\ ChunkInv'
    BY <1>8, <2>1
  <2>3. shown' \in [Tasks -> Shown]
    BY <1>9, ShownType
       DEF ParseRewardReleased, ParseByForce, ParseFails, Shown, RewardScanTypeInv, ScanTypeOK
  <2>4. scanFaults' \in 0 .. MaxScanFaults /\ harm' \subseteq ScanFaultKinds \cup {"renewal", "sweep"}
    BY <1>9, FaultCounted
       DEF ParseRewardReleased, ParseByForce, ParseFails, Harm, RewardScanTypeInv,
           ScanTypeOK, ScanFaultKinds
  <2>5. QED
    BY <2>1, <2>2, <2>3, <2>4 DEF RewardScanTypeInv, ScanTypeOK, ReleaseInv, Scans
<1>10. CASE IteratorEnds
  <2>1. /\ scan.at = "events" /\ scan' = [scan EXCEPT !.todo = {}]
        /\ UNCHANGED <<tip, released, scanned, shown, renewal, sweep, oldRows>>
        /\ scanFaults' \in 0 .. MaxScanFaults
        /\ harm' \subseteq ScanFaultKinds \cup {"renewal", "sweep"}
    BY <1>10, FaultCounted
       DEF IteratorEnds, Harm, RewardScanTypeInv, ScanTypeOK, ScanFaultKinds
  <2>2. scan' \in Scans /\ scan'.top =< tip /\ ChunkInv'
    BY <1>8, <2>1
  <2>3. QED
    BY <1>1, <2>1, <2>2
<1>11. CASE SaveChunk \/ SaveChunkFails
  <2>1. /\ scan.at = "events" /\ scan' = Chunk(scan.from + ChunkSize, scan.top)
        /\ UNCHANGED <<tip, released, shown, renewal, sweep, oldRows, harm>>
        /\ scanned' \in {scanned, scan.to}
    BY <1>11 DEF SaveChunk, SaveChunkFails, ChunkOver
  <2>2. scan.from + ChunkSize \in Nat /\ scan.top =< tip
    BY <1>0, RewardScanAssumption DEF RewardScanTypeInv, ReleaseInv
  <2>3. scan' \in Scans /\ scan'.top =< tip /\ ChunkInv'
    BY <1>0, <1>4, <2>1, <2>2
  <2>4. scan.to =< scan.top
    BY <1>0, <2>1, RewardScanAssumption DEF RewardScanTypeInv, ChunkInv
  <2>5. scanned' \in 0 .. MaxBlocks /\ scanned' =< tip
    <3>1. scanned =< tip /\ tip =< MaxBlocks
      BY DEF RewardScanTypeInv, ScanTypeOK, ReleaseInv
    <3>2. scan.to =< tip
      BY <1>0, <2>2, <2>4
    <3>3. QED
      BY <1>0, <2>1, <3>1, <3>2, RewardScanAssumption
  <2>6. scanFaults' \in 0 .. MaxScanFaults
    BY <1>11, FaultCounted DEF SaveChunk, SaveChunkFails, RewardScanTypeInv, ScanTypeOK
  <2>7. QED
    BY <2>1, <2>3, <2>5, <2>6 DEF RewardScanTypeInv, ScanTypeOK, ReleaseInv, Scans
<1>12. CASE ScanDies
  <2>1. ChunkInv'
    BY <1>0, <1>12 DEF ScanDies, ChunkInv
  <2>2. NoRenewal \in [task : Tasks \cup {"none"}, reward : Shown] /\ NoSweep \in [Tasks -> Shown]
    BY DEF NoRenewal, NoSweep, Shown
  <2>3. scanFaults' \in 0 .. MaxScanFaults
    BY <1>12, FaultCounted DEF ScanDies
  <2>4. QED
    BY <1>0, <1>12, <2>1, <2>2, <2>3
       DEF ScanDies, RewardScanTypeInv, ScanTypeOK, ReleaseInv, Scans
<1>13. ASSUME NEW t \in Tasks, RenewReads(t)
       PROVE  RewardScanTypeInv'
  BY <1>13, RewardScanAssumption
     DEF RenewReads, ReadOldRows, RewardScanTypeInv, ScanTypeOK, ReleaseInv, ChunkInv, BlockOf, Released
<1>14. CASE RenewSaves
  <2>1. renewal.reward \in Shown
    BY DEF RewardScanTypeInv, ScanTypeOK
  <2>2. shown' \in [Tasks -> Shown]
    BY <1>14, <2>1, ShownType DEF RenewSaves
  <2>3. renewal' \in [task : Tasks \cup {"none"}, reward : Shown]
    BY <1>14 DEF RenewSaves, NoRenewal, Shown
  <2>4. harm' \subseteq ScanFaultKinds \cup {"renewal", "sweep"}
    BY <1>14 DEF RenewSaves, Harm, RewardScanTypeInv, ScanTypeOK
  <2>5. UNCHANGED <<tip, released, scan, scanned, sweep, scanFaults, oldRows>>
    BY <1>14 DEF RenewSaves
  <2>6. QED
    BY <2>2, <2>3, <2>4, <2>5
       DEF RewardScanTypeInv, ScanTypeOK, ReleaseInv, ChunkInv, BlockOf, Released
<1>15. CASE UNCHANGED scanVars
  BY <1>15
     DEF scanVars, RewardScanTypeInv, ScanTypeOK, ReleaseInv, ChunkInv, BlockOf, Released
<1>16. CASE SweepReads
  BY <1>16, RewardScanAssumption
     DEF SweepReads, ReadOldRows, RewardScanTypeInv, ScanTypeOK, ReleaseInv, ChunkInv, BlockOf, Released
<1>17. ASSUME NEW t \in Tasks, SweepWrites(t)
       PROVE  RewardScanTypeInv'
  <2>1. sweep[t] \in Shown
    BY DEF RewardScanTypeInv, ScanTypeOK
  <2>2. shown' \in [Tasks -> Shown]
    BY <1>17, <2>1, ShownType DEF SweepWrites
  <2>3. harm' \subseteq ScanFaultKinds \cup {"renewal", "sweep"}
    BY <1>17 DEF SweepWrites, Harm, RewardScanTypeInv, ScanTypeOK
  <2>4. UNCHANGED <<tip, released, scan, scanned, renewal, sweep, scanFaults, oldRows>>
    BY <1>17 DEF SweepWrites
  <2>5. QED
    BY <2>2, <2>3, <2>4
       DEF RewardScanTypeInv, ScanTypeOK, ReleaseInv, ChunkInv, BlockOf, Released
<1>18. ASSUME NEW t \in Tasks, SweepPasses(t)
       PROVE  RewardScanTypeInv'
  <2>1. sweep' \in [Tasks -> Shown]
    BY <1>18 DEF SweepPasses, RewardScanTypeInv, ScanTypeOK, Shown
  <2>2. UNCHANGED <<tip, released, scan, scanned, shown, renewal, scanFaults, oldRows, harm>>
    BY <1>18 DEF SweepPasses
  <2>3. QED
    BY <2>1, <2>2
       DEF RewardScanTypeInv, ScanTypeOK, ReleaseInv, ChunkInv, BlockOf, Released
<1>19. QED
  BY <1>2, <1>3, <1>5, <1>6, <1>7, <1>9, <1>10, <1>11, <1>12, <1>13, <1>14, <1>15, <1>16,
     <1>17, <1>18
     DEF ScanNext, HandleEvent

\* Every state of the scanner, for any rewards, chunk size and faults, is well
\* formed; a chunk is never past the height, nor an event outside of its chunk.
THEOREM RewardTypeCorrect == ScanSpec => []ScanTypeOK
<1>1. RewardScanTypeInv => ScanTypeOK
  BY DEF RewardScanTypeInv
<1>2. QED
  BY <1>1, RewardInitType, RewardStepType, PTL DEF ScanSpec

-----------------------------------------------------------------------------
(* Rewards of other tasks. *)

\* The row of a reward's task, once this reward is written to it.
LEMMA ShownWritten ==
    ASSUME RewardScanTypeInv, NEW r \in Rewards, NEW u \in Tasks,
           shown' = [shown EXCEPT ![u] = r]
    PROVE  shown'[u] = r /\ \A t \in Tasks \ {u} : shown'[t] = shown[t]
BY DEF RewardScanTypeInv, ScanTypeOK

LEMMA OwnStep == RewardScanTypeInv /\ OwnInv /\ [ScanNext]_scanVars => OwnInv'
<1> SUFFICES ASSUME RewardScanTypeInv, OwnInv, [ScanNext]_scanVars PROVE OwnInv'
  OBVIOUS
<1>1. ASSUME UNCHANGED <<shown, renewal, sweep>>, harm \subseteq harm' PROVE OwnInv'
  BY <1>1 DEF OwnInv
<1>2. CASE \/ Release \/ WakeUp \/ Height \/ FilterRewardReleased \/ ChainFails
           \/ SaveChunk \/ SaveChunkFails
  BY <1>1, <1>2 DEF Release, WakeUp, Height, FilterRewardReleased, ChainFails, SaveChunk,
                    SaveChunkFails
<1>3. CASE WakeUpUnread \/ IteratorEnds
  BY <1>1, <1>3 DEF WakeUpUnread, IteratorEnds, Harm
<1>4. ASSUME NEW r \in Rewards, ParseRewardReleased(r)
      PROVE  OwnInv'
  <2>1. TaskOf[r] \in Tasks
    BY RewardScanAssumption
  <2>2. shown' = [shown EXCEPT ![TaskOf[r]] = r] /\ UNCHANGED <<renewal, sweep, harm>>
    BY <1>4 DEF ParseRewardReleased
  <2>3. /\ shown'[TaskOf[r]] = r
        /\ \A t \in Tasks \ {TaskOf[r]} : shown'[t] = shown[t]
    BY <2>1, <2>2, ShownWritten
  <2>4. QED
    BY <2>2, <2>3 DEF OwnInv
<1>5. ASSUME NEW r \in Rewards, ParseByForce(r)
      PROVE  OwnInv'
  <2>1. LastTask[TxOf[r]] \in Tasks
    BY RewardScanAssumption
  <2>2. shown' = [shown EXCEPT ![LastTask[TxOf[r]]] = r] /\ UNCHANGED <<renewal, sweep>>
    BY <1>5 DEF ParseByForce
  <2>3. /\ shown'[LastTask[TxOf[r]]] = r
        /\ \A t \in Tasks \ {LastTask[TxOf[r]]} : shown'[t] = shown[t]
    BY <2>1, <2>2, ShownWritten
  <2>4. "force" \notin harm' => LastTask[TxOf[r]] = TaskOf[r] /\ "force" \notin harm
    BY <1>5 DEF ParseByForce, Harm
  <2>5. QED
    BY <2>2, <2>3, <2>4 DEF OwnInv
<1>6. ASSUME NEW r \in Rewards, ParseFails(r)
      PROVE  OwnInv'
  BY <1>1, <1>6 DEF ParseFails, Harm
<1>7. CASE ScanDies
  BY <1>7 DEF ScanDies, OwnInv, NoRenewal, NoSweep
<1>8. ASSUME NEW t \in Tasks, RenewReads(t)
      PROVE  OwnInv'
  BY <1>8 DEF RenewReads, OwnInv
<1>9. CASE RenewSaves
  <2>1. /\ renewal # NoRenewal /\ renewal' = NoRenewal /\ harm \subseteq harm' /\ sweep' = sweep
        /\ shown' = [shown EXCEPT ![renewal.task] = renewal.reward]
    BY <1>9 DEF RenewSaves, Harm
  <2>2. \A t \in Tasks : shown'[t] = IF t = renewal.task THEN renewal.reward ELSE shown[t]
    BY <2>1 DEF RewardScanTypeInv, ScanTypeOK
  <2>3. QED
    BY <2>1, <2>2 DEF OwnInv, NoRenewal
<1>10. CASE UNCHANGED scanVars
  BY <1>1, <1>10 DEF scanVars
<1>11. CASE SweepReads
  BY <1>11 DEF SweepReads, OwnInv
<1>12. ASSUME NEW t \in Tasks, SweepWrites(t)
       PROVE  OwnInv'
  <2>1. /\ sweep[t] # "none" /\ harm \subseteq harm' /\ UNCHANGED <<renewal, sweep>>
        /\ shown' = [shown EXCEPT ![t] = sweep[t]]
    BY <1>12 DEF SweepWrites, Harm
  <2>2. \A u \in Tasks : shown'[u] = IF u = t THEN sweep[t] ELSE shown[u]
    BY <2>1 DEF RewardScanTypeInv, ScanTypeOK
  <2>3. QED
    BY <2>1, <2>2 DEF OwnInv
<1>13. ASSUME NEW t \in Tasks, SweepPasses(t)
       PROVE  OwnInv'
  <2>1. sweep' = [sweep EXCEPT ![t] = "none"] /\ UNCHANGED <<shown, renewal, harm>>
    BY <1>13 DEF SweepPasses
  <2>2. \A u \in Tasks : sweep'[u] = IF u = t THEN "none" ELSE sweep[u]
    BY <2>1 DEF RewardScanTypeInv, ScanTypeOK
  <2>3. QED
    BY <2>1, <2>2 DEF OwnInv
<1>14. QED
  BY <1>2, <1>3, <1>4, <1>5, <1>6, <1>7, <1>8, <1>9, <1>10, <1>11, <1>12, <1>13
     DEF ScanNext, HandleEvent

-----------------------------------------------------------------------------
(* Rewards that should have been shown. *)

\* What is right stays right where no row changes, however the chain grows.
LEMMA RightStays ==
    ASSUME RewardScanTypeInv, NEW r \in Rewards, Right(r), UNCHANGED <<shown, harm>>,
           \A x \in Txs : released'[x] = released[x] \/ released[x] = 0,
           \A x \in Txs : released'[x] \in Nat,
           released'[TxOf[r]] = released[TxOf[r]]
    PROVE  Right(r)'
<1> DEFINE s == shown[TaskOf[r]]
<1>1. s \in Rewards
  BY RewardScanAssumption DEF Right, RewardScanTypeInv, ScanTypeOK, Shown
<1>2. TxOf[r] \in Txs /\ TxOf[s] \in Txs
  BY <1>1, RewardScanAssumption
<1>3. /\ harm = {} => released[TxOf[s]] >= released[TxOf[r]]
      /\ released[TxOf[s]] \in Nat /\ released[TxOf[r]] \in Nat /\ released'[TxOf[s]] \in Nat
  BY <1>2 DEF Right, Newer, BlockOf, RewardScanTypeInv, ScanTypeOK
<1>4. harm = {} => released'[TxOf[s]] >= released'[TxOf[r]]
  BY <1>2, <1>3
<1>5. QED
  BY <1>4 DEF Right, Newer, BlockOf

\* Where rows and the chain stay, what is right stays right and the rest of the
\* promise is about the pass alone.
LEMMA PassMoves ==
    ASSUME RewardScanTypeInv, ShownInv, harm \subseteq {"sweep"},
           UNCHANGED <<shown, released, harm>>,
           \A r \in Rewards : Released(r) /\ BlockOf(r) =< scanned' => Right(r),
           scan'.at # "asleep" => scanned' = 0 \/ scanned' < scan'.from,
           scan'.at = "height" => scan'.from =< tip' + 1,
           scan'.at \in {"height", "filter"} =>
               \A r \in Rewards : Released(r) /\ BlockOf(r) < scan'.from => Right(r),
           scan'.at = "events" =>
               \A r \in Rewards : Released(r) /\ BlockOf(r) =< scan'.to /\ r \notin scan'.todo =>
                   Right(r) /\ \A q \in scan'.todo : BlockOf(r) =< BlockOf(q)
    PROVE  ShownInv'
<1>1. \A r \in Rewards : Right(r)' <=> Right(r)
  BY DEF Right, Newer, BlockOf
<1>2. \A r \in Rewards : BlockOf(r)' = BlockOf(r) /\ (Released(r)' <=> Released(r))
  BY DEF BlockOf, Released
<1>3. QED
  BY <1>1, <1>2 DEF ShownInv, BlockOf, Released

\* An event is handled: it is in its turn, and its row shows it.
LEMMA EventShown ==
    ASSUME RewardScanTypeInv, ShownInv, harm \subseteq {"sweep"}, NEW r \in Rewards,
           FirstEvent(r), Handled(r), shown' = [shown EXCEPT ![TaskOf[r]] = r],
           UNCHANGED <<tip, released, scanned, harm>>
    PROVE  ShownInv'
<1>0. /\ scan \in Scans /\ scan.from \in Nat /\ scan.to \in Nat /\ scanned \in Nat
      /\ \A q \in Rewards : BlockOf(q) \in Nat /\ BlockOf(q)' = BlockOf(q)
      /\ \A q \in Rewards : Released(q)' <=> Released(q)
      /\ \A q \in Rewards : Released(q) <=> BlockOf(q) # 0
  BY RewardBlocks DEF RewardScanTypeInv, ScanTypeOK, BlockOf, Released
<1>1. /\ scan.at = "events" /\ r \in scan.todo
      /\ \A q \in scan.todo : BlockOf(r) =< BlockOf(q)
  BY DEF FirstEvent
<1>2. /\ scan'.at = "events" /\ scan'.todo = scan.todo \ {r}
      /\ scan'.from = scan.from /\ scan'.to = scan.to
  BY <1>0, <1>1 DEF Handled, Scans
<1>3. Released(r) /\ scan.from =< BlockOf(r) /\ BlockOf(r) =< scan.to
  BY <1>1 DEF RewardScanTypeInv, ChunkInv
<1>4. /\ shown'[TaskOf[r]] = r /\ r # "none"
      /\ \A t \in Tasks \ {TaskOf[r]} : shown'[t] = shown[t]
      /\ \A q \in Rewards : TaskOf[q] \in Tasks
  BY RewardScanAssumption, ShownWritten
<1>5. ASSUME NEW q \in Rewards, q = r \/ Right(q), BlockOf(q) =< BlockOf(r)
      PROVE  Right(q)'
  <2>1. CASE TaskOf[q] = TaskOf[r]
    BY <1>0, <1>4, <1>5, <2>1 DEF Right, Newer
  <2>2. CASE TaskOf[q] # TaskOf[r]
    <3>1. shown'[TaskOf[q]] = shown[TaskOf[q]] /\ Right(q)
      BY <1>4, <1>5, <2>2
    <3>2. BlockOf(shown[TaskOf[q]])' = BlockOf(shown[TaskOf[q]]) /\ BlockOf(q)' = BlockOf(q)
      BY <3>1 DEF BlockOf
    <3>3. QED
      BY <3>1, <3>2 DEF Right, Newer, BlockOf
  <2>3. QED
    BY <2>1, <2>2
<1>6. ASSUME NEW q \in Rewards, Released(q), BlockOf(q) =< scanned
      PROVE  Right(q)'
  <2>1. Right(q)
    BY <1>6 DEF ShownInv
  <2>2. scanned < scan.from
    BY <1>0, <1>1, <1>6 DEF ShownInv
  <2>3. BlockOf(q) =< BlockOf(r)
    BY <1>0, <1>3, <1>6, <2>2
  <2>4. QED
    BY <1>5, <2>1, <2>3
<1>7. ASSUME NEW q \in Rewards, Released(q), BlockOf(q) =< scan.to, q \notin scan.todo \ {r}
      PROVE  Right(q)' /\ \A s \in scan.todo \ {r} : BlockOf(q) =< BlockOf(s)
  <2>1. CASE q = r
    BY <1>0, <1>1, <1>5, <2>1
  <2>2. CASE q # r
    <3>1. Right(q) /\ \A s \in scan.todo : BlockOf(q) =< BlockOf(s)
      BY <1>1, <1>7, <2>2 DEF ShownInv
    <3>2. QED
      BY <1>1, <1>5, <3>1
  <2>3. QED
    BY <2>1, <2>2
<1>8. \A q \in Rewards : Released(q)' /\ BlockOf(q)' =< scanned' => Right(q)'
  BY <1>0, <1>6
<1>9. \A q \in Rewards : Released(q)' /\ BlockOf(q)' =< scan'.to /\ q \notin scan'.todo =>
          Right(q)' /\ \A s \in scan'.todo : BlockOf(q)' =< BlockOf(s)'
  <2>1. scan'.todo \subseteq Rewards
    BY <1>2 DEF RewardScanTypeInv, ScanTypeOK
  <2>2. QED
    BY <1>0, <1>2, <1>7, <2>1
<1>10. scanned' = 0 \/ scanned' < scan'.from
  BY <1>1, <1>2 DEF ShownInv
<1>11. QED
  BY <1>2, <1>8, <1>9, <1>10 DEF ShownInv

LEMMA ReleaseShown ==
    ASSUME RewardScanTypeInv, ShownInv, Release, harm \subseteq {"sweep"}
    PROVE  ShownInv'
<1>1. PICK X \in SUBSET {x \in Txs : released[x] = 0} :
          released' = [x \in Txs |-> IF x \in X THEN tip + 1 ELSE released[x]]
  BY DEF Release
<1>2. tip' = tip + 1 /\ tip \in Nat /\ UNCHANGED <<scan, scanned, shown, renewal, sweep, scanFaults, harm>>
  BY RewardScanAssumption DEF Release, RewardScanTypeInv, ScanTypeOK
<1>3. /\ \A x \in Txs : released[x] \in Nat /\ released'[x] \in Nat
      /\ \A x \in Txs : \/ released'[x] = released[x]
                        \/ released[x] = 0 /\ released'[x] = tip + 1
  BY <1>1, <1>2 DEF RewardScanTypeInv, ScanTypeOK
<1>4. ASSUME NEW r \in Rewards, BlockOf(r)' =< tip
      PROVE  BlockOf(r)' = BlockOf(r) /\ (Released(r)' <=> Released(r)) /\ (Right(r) => Right(r)')
  <2>1. TxOf[r] \in Txs
    BY RewardScanAssumption
  <2>2. released'[TxOf[r]] = released[TxOf[r]]
    BY <1>2, <1>3, <1>4, <2>1 DEF BlockOf
  <2>3. Right(r) => Right(r)'
    BY <1>2, <1>3, <2>2, RightStays
  <2>4. QED
    BY <2>2, <2>3 DEF BlockOf, Released
<1>5. /\ scanned =< tip /\ scan.top =< tip
      /\ scanned \in Nat /\ scan.from \in Nat /\ scan.to \in Nat /\ scan.top \in Nat
  BY DEF RewardScanTypeInv, ScanTypeOK, ReleaseInv
<1>6. \A r \in Rewards : BlockOf(r)' \in Nat
  BY <1>3, RewardScanAssumption DEF BlockOf
<1>7. \A r \in Rewards : Released(r)' /\ BlockOf(r)' =< scanned => Right(r)'
  <2> SUFFICES ASSUME NEW r \in Rewards, Released(r)', BlockOf(r)' =< scanned PROVE Right(r)'
    OBVIOUS
  <2>1. BlockOf(r)' =< tip
    BY <1>2, <1>5, <1>6
  <2>2. QED
    BY <1>4, <2>1 DEF ShownInv
<1>8. scan.at \in {"height", "filter"} =>
          \A r \in Rewards : Released(r)' /\ BlockOf(r)' < scan.from => Right(r)'
  <2> SUFFICES ASSUME scan.at \in {"height", "filter"}, NEW r \in Rewards,
                      Released(r)', BlockOf(r)' < scan.from
               PROVE  Right(r)'
    OBVIOUS
  <2>1. scan.from =< tip + 1
    <3>1. CASE scan.at = "height"
      BY <3>1 DEF ShownInv
    <3>2. CASE scan.at = "filter"
      <4>1. scan.from =< scan.top
        BY <3>2 DEF RewardScanTypeInv, ChunkInv
      <4>2. QED
        BY <1>2, <1>5, <4>1
    <3>3. QED
      BY <3>1, <3>2
  <2>2. BlockOf(r)' =< tip
    BY <1>2, <1>5, <1>6, <2>1
  <2>3. QED
    BY <1>4, <2>2 DEF ShownInv
<1>9. scan.at = "events" =>
          \A r \in Rewards : Released(r)' /\ BlockOf(r)' =< scan.to /\ r \notin scan.todo =>
              Right(r)' /\ \A q \in scan.todo : BlockOf(r)' =< BlockOf(q)'
  <2> SUFFICES ASSUME scan.at = "events", NEW r \in Rewards,
                      Released(r)', BlockOf(r)' =< scan.to, r \notin scan.todo
               PROVE  Right(r)' /\ \A q \in scan.todo : BlockOf(r)' =< BlockOf(q)'
    OBVIOUS
  <2>1. scan.to =< scan.top
    BY <1>5, RewardScanAssumption DEF RewardScanTypeInv, ChunkInv
  <2>2. BlockOf(r)' =< tip
    BY <1>2, <1>5, <1>6, <2>1
  <2>3. Right(r)' /\ \A q \in scan.todo : BlockOf(r)' =< BlockOf(q)
    BY <1>4, <2>2 DEF ShownInv
  <2>4. ASSUME NEW q \in scan.todo PROVE BlockOf(q)' = BlockOf(q)
    <3>1. q \in Rewards /\ TxOf[q] \in Txs /\ released[TxOf[q]] > 0
      BY RewardScanAssumption DEF RewardScanTypeInv, ScanTypeOK, ChunkInv, Released, BlockOf
    <3>2. QED
      BY <1>3, <3>1 DEF BlockOf
  <2>5. QED
    BY <2>3, <2>4
<1>10. scan.at = "height" => scan.from =< tip' + 1
  BY <1>2, <1>5 DEF ShownInv
<1>11. scan.at # "asleep" => scanned = 0 \/ scanned < scan.from
  BY DEF ShownInv
<1>12. QED
  BY <1>2, <1>7, <1>8, <1>9, <1>10, <1>11 DEF ShownInv

\* The chunk is over, and the next one begins after it.
LEMMA ChunkShown ==
    ASSUME RewardScanTypeInv, ShownInv, harm \subseteq {"sweep"}, ChunkOver,
           scanned' \in {scanned, scan.to}, UNCHANGED <<tip, released, shown, harm>>
    PROVE  ShownInv'
<1>0. /\ scan.from \in Nat /\ scan.to \in Nat /\ scan.top \in Nat /\ scanned \in Nat
      /\ ChunkSize \in Nat /\ ChunkSize > 0 /\ scan.from + ChunkSize \in Nat
      /\ \A q \in Rewards : BlockOf(q) \in Nat
  BY RewardScanAssumption, RewardBlocks DEF RewardScanTypeInv, ScanTypeOK
<1>1. /\ scan.at = "events" /\ scan.todo = {}
      /\ scan' = Chunk(scan.from + ChunkSize, scan.top)
  BY DEF ChunkOver
<1>2. \A r \in Rewards : Released(r) /\ BlockOf(r) =< scan.to => Right(r)
  BY <1>1 DEF ShownInv
<1>3. scan.to = IF scan.from + ChunkSize - 1 > scan.top THEN scan.top
                ELSE scan.from + ChunkSize - 1
  BY <1>1 DEF RewardScanTypeInv, ChunkInv
<1>4. \A r \in Rewards : Released(r) /\ BlockOf(r) =< scanned' => Right(r)
  BY <1>2 DEF ShownInv
<1>5. CASE scan' = Asleep
  <2>1. scan'.at = "asleep"
    BY <1>5 DEF Asleep
  <2>2. QED
    BY <1>4, <2>1, PassMoves
<1>6. CASE /\ scan.from + ChunkSize =< scan.top
           /\ scan'.at = "filter" /\ scan'.from = scan.from + ChunkSize
  <2>1. scan.to = scan.from + ChunkSize - 1
    BY <1>0, <1>3, <1>6
  <2>2. scanned' = 0 \/ scanned' < scan'.from
    <3>1. scanned = 0 \/ scanned < scan.from
      BY <1>1 DEF ShownInv
    <3>2. QED
      BY <1>0, <1>6, <2>1, <3>1
  <2>3. \A r \in Rewards : Released(r) /\ BlockOf(r) < scan'.from => Right(r)
    BY <1>0, <1>2, <1>6, <2>1
  <2>4. QED
    BY <1>4, <1>6, <2>2, <2>3, PassMoves
<1>7. QED
  BY <1>0, <1>1, <1>5, <1>6, ChunkTypes

LEMMA ShownStep == RewardScanTypeInv /\ ShownInv /\ OwnInv /\ [ScanNext]_scanVars => ShownInv'
<1> SUFFICES ASSUME RewardScanTypeInv, ShownInv, OwnInv, [ScanNext]_scanVars,
                    harm' \subseteq {"sweep"}
             PROVE  ShownInv'
  BY DEF ShownInv
<1>0. /\ scan \in Scans /\ tip \in Nat /\ scanned \in Nat /\ scanned =< tip
      /\ JobManagerCreated \in Nat /\ JobManagerCreated =< tip
      /\ \A r \in Rewards : /\ BlockOf(r) \in Nat /\ (Released(r) <=> BlockOf(r) # 0)
                            /\ Released(r) => JobManagerCreated < BlockOf(r)
  BY RewardScanAssumption, RewardBlocks DEF RewardScanTypeInv, ScanTypeOK, ReleaseInv
<1>1. \A why : Harm(why) => why = "sweep"
  BY DEF Harm
<1>2. ASSUME UNCHANGED <<released, shown, scanned, scan, tip, harm>>
      PROVE  ShownInv'
  BY <1>2 DEF ShownInv, Right, Newer, Released, BlockOf
<1>3. CASE Release
  BY <1>3, ReleaseShown DEF Release
<1>4. CASE WakeUp
  <2> DEFINE b == IF scanned = 0 THEN JobManagerCreated ELSE scanned
  <2>1. /\ scan'.at = "height" /\ scan'.from = After(b) /\ harm \subseteq {"sweep"}
        /\ UNCHANGED <<tip, released, scanned, shown, harm>>
    BY <1>4 DEF WakeUp, Asleep
  <2>2. scan'.from \in Nat /\ scan'.from =< tip + 1 /\ (scanned = 0 \/ scanned < scan'.from)
    BY <1>0, <2>1 DEF After
  <2>3. ASSUME NEW r \in Rewards, Released(r), BlockOf(r) < scan'.from PROVE Right(r)
    <3>1. CASE scanned = 0
      BY <1>0, <2>1, <2>3, <3>1 DEF After
    <3>2. CASE scanned # 0
      <4>1. BlockOf(r) =< scanned
        BY <1>0, <2>1, <2>3, <3>2 DEF After
      <4>2. QED
        BY <2>1, <2>3, <4>1 DEF ShownInv
    <3>3. QED
      BY <3>1, <3>2
  <2>4. \A r \in Rewards : Released(r) /\ BlockOf(r) =< scanned => Right(r)
    BY <2>1 DEF ShownInv
  <2>5. QED
    BY <2>1, <2>2, <2>3, <2>4, PassMoves
<1>5. CASE Height
  <2>1. /\ harm \subseteq {"sweep"} /\ UNCHANGED <<tip, released, scanned, shown, harm>> /\ scan.at = "height"
        /\ scan' = Chunk(scan.from, tip)
    BY <1>5 DEF Height
  <2>2. \/ scan'.at = "asleep"
        \/ scan'.at = "filter" /\ scan'.from = scan.from
    <3>1. scan.from \in Nat
      BY <1>0 DEF Scans
    <3>2. \/ Chunk(scan.from, tip) = Asleep
          \/ /\ Chunk(scan.from, tip).at = "filter"
             /\ Chunk(scan.from, tip).from = scan.from
      BY <1>0, <3>1, ChunkTypes
    <3>3. Asleep.at = "asleep"
      BY DEF Asleep
    <3>4. QED
      BY <2>1, <3>2, <3>3
  <2>3. /\ \A r \in Rewards : Released(r) /\ BlockOf(r) =< scanned => Right(r)
        /\ scanned = 0 \/ scanned < scan.from
        /\ \A r \in Rewards : Released(r) /\ BlockOf(r) < scan.from => Right(r)
    BY <2>1 DEF ShownInv
  <2>4. QED
    BY <2>1, <2>2, <2>3, PassMoves
<1>6. CASE FilterRewardReleased
  <2>1. /\ harm \subseteq {"sweep"} /\ UNCHANGED <<tip, released, scanned, shown, harm>> /\ scan.at = "filter"
        /\ scan' = [scan EXCEPT !.at = "events",
              !.todo = {r \in Rewards : Released(r) /\ BlockOf(r) \in scan.from .. scan.to}]
    BY <1>6 DEF FilterRewardReleased
  <2>2. /\ scan'.at = "events" /\ scan'.from = scan.from /\ scan'.to = scan.to
        /\ scan'.todo = {r \in Rewards : Released(r) /\ BlockOf(r) \in scan.from .. scan.to}
    BY <1>0, <2>1 DEF Scans
  <2>3. /\ \A r \in Rewards : Released(r) /\ BlockOf(r) =< scanned => Right(r)
        /\ scanned = 0 \/ scanned < scan.from
        /\ \A r \in Rewards : Released(r) /\ BlockOf(r) < scan.from => Right(r)
    BY <2>1 DEF ShownInv
  <2>4. ASSUME NEW r \in Rewards, Released(r), BlockOf(r) =< scan'.to, r \notin scan'.todo
        PROVE  Right(r) /\ \A q \in scan'.todo : BlockOf(r) =< BlockOf(q)
    <3>1. BlockOf(r) < scan.from
      BY <1>0, <2>2, <2>4 DEF Scans
    <3>2. \A q \in scan'.todo : scan.from =< BlockOf(q) /\ BlockOf(q) \in Nat
      BY <1>0, <2>2 DEF Scans
    <3>3. QED
      BY <1>0, <2>3, <2>4, <3>1, <3>2 DEF Scans
  <2>5. QED
    BY <2>1, <2>2, <2>3, <2>4, PassMoves
<1>7. CASE ChainFails
  <2>1. /\ harm \subseteq {"sweep"} /\ UNCHANGED <<tip, released, scanned, shown, harm>> /\ scan'.at = "asleep"
    BY <1>7 DEF ChainFails, Asleep
  <2>2. \A r \in Rewards : Released(r) /\ BlockOf(r) =< scanned => Right(r)
    BY <2>1 DEF ShownInv
  <2>3. QED
    BY <2>1, <2>2, PassMoves
<1>8. ASSUME NEW r \in Rewards, ParseRewardReleased(r)
      PROVE  ShownInv'
  BY <1>8, EventShown DEF ParseRewardReleased
<1>9. ASSUME NEW r \in Rewards, ParseByForce(r)
      PROVE  ShownInv'
  BY <1>1, <1>9, EventShown DEF ParseByForce
<1>10. CASE SaveChunk \/ SaveChunkFails
  BY <1>10, ChunkShown DEF SaveChunk, SaveChunkFails
<1>11. CASE ScanDies
  <2>1. /\ harm \subseteq {"sweep"} /\ UNCHANGED <<tip, released, scanned, shown, harm>> /\ scan'.at = "asleep"
    BY <1>11 DEF ScanDies, Asleep
  <2>2. \A r \in Rewards : Released(r) /\ BlockOf(r) =< scanned => Right(r)
    BY <2>1 DEF ShownInv
  <2>3. QED
    BY <2>1, <2>2, PassMoves
<1>12. ASSUME NEW t \in Tasks, RenewReads(t)
       PROVE  ShownInv'
  BY <1>2, <1>12 DEF RenewReads
<1>13. CASE RenewSaves
  BY <1>1, <1>2, <1>13 DEF RenewSaves
<1>14. CASE UNCHANGED scanVars
  BY <1>2, <1>14 DEF scanVars
<1>15. CASE WakeUpUnread \/ IteratorEnds \/ (\E r \in Rewards : ParseFails(r))
  BY <1>1, <1>15 DEF WakeUpUnread, IteratorEnds, ParseFails
<1>16. CASE SweepReads \/ (\E t \in Tasks : SweepPasses(t))
  BY <1>2, <1>16 DEF SweepReads, SweepPasses
<1>17. ASSUME NEW t \in Tasks, SweepWrites(t)
       PROVE  ShownInv'
  <2>1. /\ sweep[t] # "none" /\ shown' = [shown EXCEPT ![t] = sweep[t]]
        /\ UNCHANGED <<tip, released, scan, scanned>>
    BY <1>17 DEF SweepWrites
  <2>2. CASE shown' = shown
    BY <1>2, <1>17, <2>1, <2>2 DEF SweepWrites
  <2>3. CASE shown' # shown
    <3>1. harm' = harm \cup {"sweep"}
      BY <1>17, <2>3 DEF SweepWrites, Harm
    <3>2. harm \subseteq {"sweep"} /\ harm' # {} /\ TaskOf[sweep[t]] = t
      BY <2>1, <3>1 DEF OwnInv
    <3>3. \A u \in Tasks : shown'[u] = IF u = t THEN sweep[t] ELSE shown[u]
      BY <2>1 DEF RewardScanTypeInv, ScanTypeOK
    <3>4. \A r \in Rewards : Right(r) => Right(r)'
      BY <2>1, <3>2, <3>3, RewardScanAssumption DEF Right
    <3>5. \A r \in Rewards : BlockOf(r)' = BlockOf(r) /\ (Released(r)' <=> Released(r))
      BY <2>1 DEF BlockOf, Released
    <3>6. scan.todo \subseteq Rewards
      BY DEF RewardScanTypeInv, ScanTypeOK
    <3>7. QED
      BY <2>1, <3>2, <3>4, <3>5, <3>6 DEF ShownInv
  <2>4. QED
    BY <2>2, <2>3
<1>18. QED
  BY <1>3, <1>4, <1>5, <1>6, <1>7, <1>8, <1>9, <1>10, <1>11, <1>12, <1>13, <1>14, <1>15, <1>16,
     <1>17
     DEF ScanNext, HandleEvent

\* A row shows a reward of its task at least as new as any up to the stored block,
\* however passes ended and whatever was read twice, unless something listed as harm
\* happened. Where only the cron of overdue jobs wrote old rows back, the reward may be
\* an older one of the task, but there is one; a reward of another task is shown only
\* where an input was not understood.
THEOREM RewardsAreShown == ScanSpec => []RewardsShown
<1>1. ScanInit => ShownInv /\ OwnInv
  <2> SUFFICES ASSUME ScanInit PROVE ShownInv /\ OwnInv
    OBVIOUS
  <2>1. \A r \in Rewards : ~Released(r)
    BY RewardScanAssumption DEF ScanInit, Released, BlockOf
  <2>2. /\ scan.at = "asleep" /\ renewal.reward = "none" /\ renewal = NoRenewal
        /\ \A t \in Tasks : sweep[t] = "none"
    BY DEF ScanInit, Asleep, NoRenewal, NoSweep
  <2>3. ShownInv
    BY <2>1, <2>2 DEF ShownInv
  <2>4. \A t \in Tasks : shown[t] = "none"
    BY DEF ScanInit
  <2>5. QED
    BY <2>2, <2>3, <2>4 DEF OwnInv
<1>2. ScanSpec => [](RewardScanTypeInv /\ ShownInv /\ OwnInv)
  BY <1>1, RewardInitType, RewardStepType, ShownStep, OwnStep, PTL DEF ScanSpec
<1>3. ShownInv /\ OwnInv => RewardsShown
  BY DEF ShownInv, OwnInv, RewardsShown, UpTo, Right
<1>4. QED
  BY <1>2, <1>3, PTL

=============================================================================
