------------------------- MODULE Background_proofs -------------------------
(* Mining tasks keep their rows, and the parts of MCBackground, of which    *)
(* one runs at a time, keep what is proved of each.                         *)
EXTENDS MCBackground, PayScan_proofs, RewardScan_proofs, TaskDeploy_proofs, Placement_proofs,
        SequenceTheorems

-----------------------------------------------------------------------------
(* Mining tasks.                                                           *)

\* The request has an id that no other one gets from here on, but by a race.
Holds(u) == hand[u].at \in {"picked", "checking", "over"}

Own(u) == Holds(u) /\ u \notin racing /\ hand[u].id \notin C2Ids

HandInv ==
    /\ 1 \in Used
    /\ \A u \in Uuids :
           /\ Holds(u) => hand[u].id \in Ids
           /\ Saved(u) => hand[u].id \in Used
           /\ miner[u].at \notin {"none", "gone"} => hand[u].at = "over"

SameIdInv ==
    \A u \in Uuids : \A v \in Uuids \ {u} :
        Holds(u) /\ Holds(v) /\ hand[u].id = hand[v].id => {u, v} \subseteq racing

RowInv ==
    \A u \in Uuids : Own(u) =>
        IF hand[u].at = "picked" THEN hand[u].id \notin Used ELSE rows[hand[u].id].task = u

\* The copies that a goroutine and the cron of overdue rows will save are still of
\* the task that has the id.
MinerInv ==
    \A u \in Uuids : miner[u].at = "saving" =>
        miner[u].row.task # "none" /\ (Own(u) => miner[u].row.task = u)

SettleInv ==
    settle # NoSettle =>
        /\ settle.id \in Used /\ settle.row.task # "none"
        /\ \A u \in Uuids : Own(u) /\ hand[u].id = settle.id => settle.row.task = u

MiningInv == MiningTypeOK /\ HandInv /\ SameIdInv /\ RowInv /\ MinerInv /\ SettleInv

Hands  == [at : {"none", "picked", "unsaved", "checking", "over"}, id : 0 .. MaxId]
Miners == [at : {"none", "starting", "mining", "ended", "saving", "gone"}, row : MiningRows]

\* The id a request is given is greater than any in use.
LEMMA NextIsFree ==
    ASSUME MiningInv
    PROVE  NextId \notin Used /\ NextId \in Nat
<1>1. Used \in SUBSET (1 .. MaxId) /\ 1 \in Used /\ MaxId \in Nat
  BY MiningAssumption DEF Used, Ids, MiningInv, HandInv
<1> HIDE DEF Used
<1> DEFINE below == {n \in Nat : \E i \in Used : n = MaxId - i}
<1>2. PICK n \in below : \A m \in below : n =< m
  <2>1. MaxId - 1 \in below
    BY <1>1
  <2>2. below \in SUBSET Nat /\ below # {}
    BY <2>1
  <2> HIDE DEF below
  <2>3. QED
    BY <2>2, LeastNat
<1>3. PICK i \in Used : n = MaxId - i
  OBVIOUS
<1>4. \A j \in Used : j =< i
  <2> SUFFICES ASSUME NEW j \in Used PROVE j =< i
    OBVIOUS
  <2>1. MaxId - j \in below /\ i \in 1 .. MaxId /\ j \in 1 .. MaxId
    BY <1>1
  <2>2. MaxId - i =< MaxId - j
    BY <1>2, <1>3, <2>1
  <2>3. QED
    BY <1>1, <2>1, <2>2
<1> DEFINE top == CHOOSE k \in Used : \A j \in Used : j =< k
<1>5. top \in Used /\ \A j \in Used : j =< top
  BY <1>4
<1>6. NextId = 1 + top
  BY DEF NextId
<1> HIDE DEF top
<1>7. QED
  BY <1>1, <1>5, <1>6

\* What the types say of the parts of a record.
LEMMA MiningTypes ==
    MiningTypeOK <=>
        /\ host \in Hosts /\ rows \in [Ids -> MiningRows] /\ aged \subseteq Ids
        /\ hand \in [Uuids -> Hands] /\ miner \in [Uuids -> Miners]
        /\ said \in [Uuids -> Final \cup {"unknown", "running"}]
        /\ poll \in [Uuids -> [seen : MiningStatuses \cup {"unlisted"},
                               told : Final \cup {"unknown", "running"}]]
        /\ settle \in [id : 0 .. MaxId, row : MiningRows]
        /\ racing \subseteq Uuids /\ crashes \in 0 .. host.crashes
  BY DEF MiningTypeOK, Hands, Miners

LEMMA MiningTyped ==
    ASSUME host' \in Hosts, rows' \in [Ids -> MiningRows], aged' \subseteq Ids,
           hand' \in [Uuids -> Hands], miner' \in [Uuids -> Miners],
           said' \in [Uuids -> Final \cup {"unknown", "running"}],
           poll' \in [Uuids -> [seen : MiningStatuses \cup {"unlisted"},
                               told : Final \cup {"unknown", "running"}]],
           settle' \in [id : 0 .. MaxId, row : MiningRows],
           racing' \subseteq Uuids, crashes' \in 0 .. host'.crashes
    PROVE  MiningTypeOK'
  BY DEF MiningTypeOK, Hands, Miners

\* A row with another status is a row of the same task.
LEMMA StatusOfRow ==
    ASSUME NEW row \in MiningRows, NEW status \in MiningStatuses
    PROVE  /\ [row EXCEPT !.status = status] \in MiningRows
           /\ [row EXCEPT !.status = status].task = row.task
  BY DEF MiningRows

\* A step that leaves the task of every id: a copy is of a row that is there.
LEMMA TasksStay ==
    ASSUME MiningInv, MiningTypeOK', racing' = racing,
           \A i \in Ids : rows'[i].task = rows[i].task,
           \A u \in Uuids :
               /\ Holds(u)' => Holds(u) /\ hand'[u].id = hand[u].id
               /\ Holds(u)' => (hand'[u].at = "picked" <=> hand[u].at = "picked")
               /\ miner'[u].at = "saving" =>
                     \/ miner'[u] = miner[u]
                     \/ hand[u].at = "over" /\ miner'[u].row = rows[hand[u].id]
               /\ miner'[u].at \notin {"none", "gone"} => hand'[u].at = "over",
           \/ settle' \in {settle, NoSettle}
           \/ settle'.id \in Used /\ settle'.row = rows[settle'.id]
    PROVE  MiningInv'
<1>1. Used' = Used
  BY DEF Used
<1>2. \A u \in Uuids : /\ Saved(u)' => Saved(u) /\ hand'[u].id = hand[u].id
                       /\ Own(u)' => Own(u)
  BY DEF Saved, Holds, Own
<1>3. HandInv'
  BY <1>1, <1>2 DEF MiningInv, HandInv
<1>4. SameIdInv'
  BY DEF MiningInv, SameIdInv
<1>5. ASSUME NEW u \in Uuids, Own(u)'
      PROVE  IF hand'[u].at = "picked" THEN hand'[u].id \notin Used'
             ELSE rows'[hand'[u].id].task = u
  <2>1. Own(u) /\ hand'[u].id = hand[u].id /\ hand[u].id \in Ids
    BY <1>2, <1>5 DEF Own, MiningInv, HandInv
  <2>2. hand'[u].at = "picked" <=> hand[u].at = "picked"
    BY <1>5 DEF Own
  <2>3. QED
    BY <1>1, <2>1, <2>2 DEF MiningInv, RowInv
<1>6. ASSUME NEW u \in Uuids, miner'[u].at = "saving"
      PROVE  miner'[u].row.task # "none" /\ (Own(u)' => miner'[u].row.task = u)
  <2>1. CASE miner'[u] = miner[u]
    BY <1>2, <1>6, <2>1 DEF MiningInv, MinerInv
  <2>2. CASE hand[u].at = "over" /\ miner'[u].row = rows[hand[u].id]
    <3>1. hand[u].id \in Used
      BY <2>2 DEF MiningInv, HandInv, Saved
    <3>2. Own(u) => rows[hand[u].id].task = u
      BY <2>2 DEF MiningInv, RowInv
    <3>3. QED
      BY <1>2, <2>2, <3>1, <3>2 DEF Used
  <2>3. QED
    BY <1>6, <2>1, <2>2
<1>7. SettleInv'
  <2>1. CASE settle' = settle
    BY <1>1, <1>2, <2>1 DEF MiningInv, SettleInv, Own, NoSettle, Empty
  <2>2. CASE settle' = NoSettle
    BY <2>2 DEF SettleInv, NoSettle, Empty
  <2>3. CASE settle'.id \in Used /\ settle'.row = rows[settle'.id]
    <3>1. ASSUME NEW u \in Uuids, Own(u)', hand'[u].id = settle'.id
          PROVE  settle'.row.task = u
      <4>1. Own(u) /\ hand[u].id \in Used
        BY <1>2, <2>3, <3>1 DEF Own
      <4>2. rows[hand[u].id].task = u
        BY <4>1 DEF MiningInv, RowInv
      <4>3. QED
        BY <2>3, <3>1, <4>2 DEF Own
    <3>2. settle'.row.task # "none"
      BY <2>3 DEF Used
    <3>3. QED
      BY <1>1, <2>3, <3>1, <3>2 DEF SettleInv
  <2>4. QED
    BY <2>1, <2>2, <2>3
<1>8. QED
  BY <1>3, <1>4, <1>5, <1>6, <1>7 DEF MiningInv, RowInv, MinerInv

\* A row is saved under an id, as one of the task that has it alone.
LEMMA RowSaved ==
    ASSUME MiningInv, MiningTypeOK', NEW i \in Ids, NEW row \in MiningRows, SaveRow(i, row),
           racing' = racing, row.task # "none", settle' \in {settle, NoSettle},
           \A u \in Uuids :
               /\ hand'[u].id = hand[u].id /\ (Holds(u)' <=> Holds(u))
               /\ hand'[u].at = "picked" => hand[u].at = "picked"
               /\ hand[u].at = "picked" => hand'[u].at = "picked" \/ hand[u].id = i
               /\ Own(u) /\ hand[u].id = i => row.task = u /\ hand'[u].at # "picked"
               /\ miner'[u].at = "saving" => miner'[u] = miner[u]
               /\ miner'[u].at \notin {"none", "gone"} => hand'[u].at = "over"
    PROVE  MiningInv'
<1>1. /\ rows'[i] = row /\ \A k \in Ids \ {i} : rows'[k] = rows[k]
      /\ Used' = Used \cup {i}
  BY MiningTypes DEF SaveRow, Used, MiningInv
<1>2. \A u \in Uuids : Own(u)' <=> Own(u)
  BY DEF Own
<1>3. ASSUME NEW u \in Uuids, Saved(u)' PROVE hand'[u].id \in Used'
  BY <1>1, <1>3 DEF Saved, Holds, MiningInv, HandInv
<1>4. HandInv'
  BY <1>1, <1>3 DEF MiningInv, HandInv
<1>5. SameIdInv'
  BY DEF MiningInv, SameIdInv
<1>6. ASSUME NEW u \in Uuids, Own(u)'
      PROVE  IF hand'[u].at = "picked" THEN hand'[u].id \notin Used'
             ELSE rows'[hand'[u].id].task = u
  <2>1. Own(u) /\ hand'[u].id = hand[u].id /\ hand[u].id \in Ids
    BY <1>2, <1>6 DEF Own, MiningInv, HandInv
  <2>2. CASE hand'[u].at = "picked"
    <3>1. hand[u].id # i /\ hand[u].id \notin Used
      BY <2>1, <2>2 DEF MiningInv, RowInv
    <3>2. QED
      BY <1>1, <2>1, <2>2, <3>1
  <2>3. CASE hand'[u].at # "picked"
    <3>1. CASE hand[u].id = i
      BY <1>1, <2>1, <2>3, <3>1
    <3>2. CASE hand[u].id # i
      <4>1. rows[hand[u].id].task = u
        BY <2>1, <2>3, <3>2 DEF MiningInv, RowInv
      <4>2. QED
        BY <1>1, <2>1, <2>3, <3>2, <4>1
    <3>3. QED
      BY <3>1, <3>2
  <2>4. QED
    BY <2>2, <2>3
<1>7. MinerInv'
  BY <1>2 DEF MiningInv, MinerInv
<1>8. SettleInv'
  <2>1. CASE settle' = settle
    BY <1>1, <1>2, <2>1 DEF MiningInv, SettleInv, NoSettle, Empty
  <2>2. CASE settle' = NoSettle
    BY <2>2 DEF SettleInv, NoSettle, Empty
  <2>3. QED
    BY <2>1, <2>2
<1>9. QED
  BY <1>4, <1>5, <1>6, <1>7, <1>8 DEF MiningInv, RowInv

\* Two requests have an id in common only when one picked it before the other saved.
LEMMA PickKeeps == ASSUME MiningInv, MiningTypeOK', NEW u \in Uuids, PickId(u) PROVE MiningInv'
<1> DEFINE taking == {v \in Uuids : hand[v].at = "picked"}
<1>1. /\ hand[u].at = "none" /\ NextId \in Ids /\ NextId \notin Used
      /\ hand' = [hand EXCEPT ![u] = [at |-> "picked", id |-> NextId]]
      /\ UNCHANGED <<rows, miner, settle>>
      /\ racing' = IF taking = {} THEN racing ELSE racing \cup taking \cup {u}
  BY NextIsFree DEF PickId
<1>2. /\ hand'[u] = [at |-> "picked", id |-> NextId]
      /\ \A v \in Uuids \ {u} : hand'[v] = hand[v]
      /\ racing \subseteq racing' /\ Used' = Used
  BY <1>1, MiningTypes DEF MiningInv, Used
<1>3. \A v \in Uuids \ {u} : Own(v)' => Own(v)
  BY <1>2 DEF Own, Holds
<1>4. ASSUME NEW v \in Uuids, Saved(v)' PROVE v # u /\ hand'[v].id \in Used'
  BY <1>2, <1>4 DEF Saved, MiningInv, HandInv
<1>5. HandInv'
  <2>1. \A v \in Uuids : miner'[v].at \notin {"none", "gone"} => hand'[v].at = "over"
    BY <1>1, <1>2 DEF MiningInv, HandInv
  <2>2. \A v \in Uuids : Holds(v)' => hand'[v].id \in Ids
    BY <1>1, <1>2 DEF MiningInv, HandInv, Holds
  <2>3. QED
    BY <1>2, <1>4, <2>1, <2>2 DEF MiningInv, HandInv
<1>6. ASSUME NEW v \in Uuids \ {u}, Holds(v)', hand'[v].id = NextId
      PROVE  {u, v} \subseteq racing'
  <2>1. Holds(v) /\ hand[v].id = NextId
    BY <1>2, <1>6 DEF Holds
  <2>2. hand[v].at = "picked"
    BY <1>1, <2>1 DEF Holds, Saved, MiningInv, HandInv
  <2>3. v \in taking
    BY <2>2
  <2>4. QED
    BY <1>1, <2>3
<1>7. SameIdInv'
  <2> SUFFICES ASSUME NEW v \in Uuids, NEW w \in Uuids \ {v},
                      Holds(v)', Holds(w)', hand'[v].id = hand'[w].id
               PROVE  {v, w} \subseteq racing'
    BY DEF SameIdInv
  <2>1. CASE v = u
    BY <1>2, <1>6, <2>1
  <2>2. CASE w = u
    BY <1>2, <1>6, <2>2
  <2>3. CASE v # u /\ w # u
    BY <1>2, <2>3 DEF MiningInv, SameIdInv, Holds
  <2>4. QED
    BY <2>1, <2>2, <2>3
<1>8. RowInv'
  BY <1>1, <1>2, <1>3 DEF MiningInv, RowInv
<1>9. MinerInv'
  <2>1. miner[u].at # "saving"
    BY <1>1 DEF MiningInv, HandInv
  <2>2. QED
    BY <1>1, <1>3, <2>1 DEF MiningInv, MinerInv
<1>10. SettleInv'
  BY <1>1, <1>2, <1>3 DEF MiningInv, SettleInv, NoSettle, Empty
<1>11. QED
  BY <1>5, <1>7, <1>8, <1>9, <1>10 DEF MiningInv

\* The steps keep the types.
LEMMA MiningTypeStep == MiningInv /\ [MiningNext]_miningVars => MiningTypeOK'
<1> SUFFICES ASSUME MiningInv, [MiningNext]_miningVars PROVE MiningTypeOK'
  OBVIOUS
<1>0. /\ host \in Hosts /\ rows \in [Ids -> MiningRows] /\ aged \subseteq Ids
      /\ hand \in [Uuids -> Hands] /\ miner \in [Uuids -> Miners]
      /\ said \in [Uuids -> Final \cup {"unknown", "running"}]
      /\ poll \in [Uuids -> [seen : MiningStatuses \cup {"unlisted"},
                             told : Final \cup {"unknown", "running"}]]
      /\ settle \in [id : 0 .. MaxId, row : MiningRows]
      /\ racing \subseteq Uuids /\ crashes \in 0 .. host.crashes
      /\ \A u \in Uuids : Holds(u) => hand[u].id \in Ids
      /\ \A u \in Uuids : miner[u].at \notin {"none", "gone"} => hand[u].at = "over"
  BY MiningTypes DEF MiningInv, HandInv
<1>1. /\ Empty \in MiningRows /\ Ids \subseteq 0 .. MaxId /\ C2Ids \subseteq Ids
      /\ NoSettle \in [id : 0 .. MaxId, row : MiningRows]
      /\ NoPoll \in [Uuids -> [seen : MiningStatuses \cup {"unlisted"},
                              told : Final \cup {"unknown", "running"}]]
      /\ \A u \in Uuids, t \in MiningStatuses : [task |-> u, status |-> t] \in MiningRows
      /\ \A t \in MiningStatuses : [task |-> "c2", status |-> t] \in MiningRows
      /\ {"received", "running", "rejected", "failed", "verified"} \subseteq MiningStatuses
  BY MiningAssumption DEF Empty, MiningRows, MiningStatuses, Waiting, Final, Ids, NoSettle,
     NoPoll, Unasked
<1>2. ASSUME NEW u \in Uuids, PickId(u) PROVE MiningTypeOK'
  <2>1. [at |-> "picked", id |-> NextId] \in Hands
    BY <1>1, <1>2 DEF PickId, Hands
  <2>2. hand' \in [Uuids -> Hands]
    BY <1>0, <1>2, <2>1 DEF PickId
  <2>3. racing' \subseteq Uuids
    BY <1>0, <1>2 DEF PickId
  <2>4. QED
    BY <1>0, <1>2, <2>2, <2>3, MiningTyped DEF PickId
<1>3. ASSUME NEW u \in Uuids, hand' = [hand EXCEPT ![u].at = "over"] \/
                               hand' = [hand EXCEPT ![u].at = "checking"]
      PROVE  hand' \in [Uuids -> Hands]
  <2>1. /\ [hand[u] EXCEPT !.at = "over"] \in Hands
        /\ [hand[u] EXCEPT !.at = "checking"] \in Hands
    BY <1>0 DEF Hands
  <2>2. QED
    BY <1>0, <1>3, <2>1
<1>4. ASSUME NEW i \in Ids, NEW row \in MiningRows, SaveRow(i, row)
      PROVE  rows' \in [Ids -> MiningRows]
  BY <1>0, <1>4 DEF SaveRow
<1>5. ASSUME NEW u \in Uuids, SaveMining(u) PROVE MiningTypeOK'
  <2>1. rows' \in [Ids -> MiningRows]
    BY <1>0, <1>1, <1>4, <1>5 DEF SaveMining, Holds
  <2>2. hand' \in [Uuids -> Hands]
    BY <1>3, <1>5 DEF SaveMining
  <2>3. QED
    BY <1>0, <1>5, <2>1, <2>2, MiningTyped DEF SaveMining
<1>6. ASSUME NEW u \in Uuids, LeaveMining(u) PROVE MiningTypeOK'
  <2>1. hand' \in [Uuids -> Hands]
    BY <1>3, <1>6 DEF LeaveMining
  <2>2. QED
    BY <1>0, <1>6, <2>1, MiningTyped DEF LeaveMining
<1>7. ASSUME NEW u \in Uuids, RefuseMining(u) PROVE MiningTypeOK'
  <2>1. hand' \in [Uuids -> Hands]
    BY <1>3, <1>7 DEF RefuseMining
  <2>2. PICK s \in {"rejected", "failed"} : SaveRow(hand[u].id, [task |-> u, status |-> s])
    BY <1>7 DEF RefuseMining
  <2>3. rows' \in [Ids -> MiningRows]
    BY <1>0, <1>1, <1>4, <1>7, <2>2 DEF RefuseMining, Holds
  <2>4. QED
    BY <1>0, <1>7, <2>1, <2>3, MiningTyped DEF RefuseMining
<1>8. ASSUME NEW u \in Uuids, NEW at \in {"starting", "mining", "ended", "gone"},
             miner' = [miner EXCEPT ![u].at = at]
      PROVE  miner' \in [Uuids -> Miners]
  <2>1. [miner[u] EXCEPT !.at = at] \in Miners
    BY <1>0 DEF Miners
  <2>2. QED
    BY <1>0, <1>8, <2>1
<1>9. ASSUME NEW u \in Uuids, AcceptMining(u) PROVE MiningTypeOK'
  <2>1. hand' \in [Uuids -> Hands]
    BY <1>3, <1>9 DEF AcceptMining
  <2>2. miner' \in [Uuids -> Miners]
    BY <1>8, <1>9 DEF AcceptMining
  <2>3. QED
    BY <1>0, <1>9, <2>1, <2>2, MiningTyped DEF AcceptMining
<1>10. ASSUME NEW i \in C2Ids, SaveC2(i) PROVE MiningTypeOK'
  <2>1. rows' \in [Ids -> MiningRows]
    BY <1>1, <1>4, <1>10 DEF SaveC2
  <2>2. QED
    BY <1>0, <1>10, <2>1, MiningTyped DEF SaveC2
<1>11. ASSUME NEW u \in Uuids, MinerRuns(u) PROVE MiningTypeOK'
  <2>1. miner' \in [Uuids -> Miners]
    BY <1>8, <1>11 DEF MinerRuns
  <2>2. rows' \in [Ids -> MiningRows]
    <3>1. \A i \in Ids : [rows[i] EXCEPT !.status = "running"] \in MiningRows
      BY <1>0, <1>1, StatusOfRow
    <3>2. QED
      BY <1>0, <1>11, <3>1 DEF MinerRuns, StatusByUuid
  <2>3. QED
    BY <1>0, <1>11, <2>1, <2>2, MiningTyped DEF MinerRuns
<1>12. ASSUME NEW u \in Uuids, MinerEnds(u) PROVE MiningTypeOK'
  <2>1. miner' \in [Uuids -> Miners]
    BY <1>8, <1>12 DEF MinerEnds
  <2>2. QED
    BY <1>0, <1>12, <2>1, MiningTyped DEF MinerEnds
<1>13. ASSUME NEW u \in Uuids, MinerReads(u) PROVE MiningTypeOK'
  <2>1. rows[hand[u].id] \in MiningRows
    BY <1>0, <1>13 DEF MinerReads, Holds
  <2>2. [at |-> "saving", row |-> rows[hand[u].id]] \in Miners
    BY <2>1 DEF Miners
  <2>3. miner' \in [Uuids -> Miners]
    BY <1>0, <1>13, <2>2 DEF MinerReads
  <2>4. QED
    BY <1>0, <1>13, <2>3, MiningTyped DEF MinerReads
<1>14. ASSUME NEW u \in Uuids, MinerSaves(u) PROVE MiningTypeOK'
  <2>1. hand[u].id \in Ids /\ miner[u].row \in MiningRows
    BY <1>0, <1>14 DEF MinerSaves, Holds, Miners
  <2>2. [miner[u].row EXCEPT !.status = "failed"] \in MiningRows
    BY <1>1, <2>1, StatusOfRow
  <2>3. rows' \in [Ids -> MiningRows]
    BY <1>4, <1>14, <2>1, <2>2 DEF MinerSaves
  <2>4. [at |-> "gone", row |-> Empty] \in Miners
    BY <1>1 DEF Miners
  <2>5. miner' \in [Uuids -> Miners]
    BY <1>0, <1>14, <2>4 DEF MinerSaves
  <2>6. QED
    BY <1>0, <1>14, <2>3, <2>5, MiningTyped DEF MinerSaves
<1>15. ASSUME NEW u \in Uuids, Says(u) PROVE MiningTypeOK'
  <2>1. said' \in [Uuids -> Final \cup {"unknown", "running"}]
    BY <1>0, <1>15 DEF Says
  <2>2. QED
    BY <1>0, <1>15, <2>1, MiningTyped DEF Says
<1>16. CASE PollAsks
  <2> DEFINE seen(u) == rows[CHOOSE i \in Used : rows[i].task = u].status
  <2>1. ASSUME NEW u \in Listed PROVE seen(u) \in MiningStatuses
    <3>1. \E i \in Used : rows[i].task = u
      BY DEF Listed, HasRow
    <3>2. (CHOOSE i \in Used : rows[i].task = u) \in Ids
      BY <3>1 DEF Used
    <3>3. QED
      BY <1>0, <3>2 DEF MiningRows
  <2>2. poll' = [u \in Uuids |-> IF u \in Listed THEN [seen |-> seen(u), told |-> said[u]]
                                ELSE Unasked]
    BY <1>16 DEF PollAsks
  <2> HIDE DEF seen
  <2>3. poll' \in [Uuids -> [seen : MiningStatuses \cup {"unlisted"},
                            told : Final \cup {"unknown", "running"}]]
    BY <1>0, <2>1, <2>2 DEF Unasked
  <2>4. QED
    BY <1>0, <1>16, <2>3, MiningTyped DEF PollAsks
<1>17. CASE PollWrites
  <2>1. ASSUME NEW i \in Ids, rows[i].task \in Uuids, News(rows[i].task)
        PROVE  [rows[i] EXCEPT !.status = poll[rows[i].task].told] \in MiningRows
    <3>1. poll[rows[i].task].told \in MiningStatuses
      BY <1>0, <2>1 DEF News, MiningStatuses, Waiting
    <3>2. QED
      BY <1>0, <3>1, StatusOfRow
  <2>2. rows' \in [Ids -> MiningRows]
    BY <1>0, <1>17, <2>1 DEF PollWrites
  <2>3. QED
    BY <1>0, <1>1, <1>17, <2>2, MiningTyped DEF PollWrites
<1>18. ASSUME NEW i \in Ids, SettleReads(i) PROVE MiningTypeOK'
  <2>1. settle' \in [id : 0 .. MaxId, row : MiningRows]
    BY <1>0, <1>1, <1>18 DEF SettleReads
  <2>2. QED
    BY <1>0, <1>18, <2>1, MiningTyped DEF SettleReads
<1>19. ASSUME NEW i \in Ids, Ages(i) PROVE MiningTypeOK'
  BY <1>0, <1>19, MiningTyped DEF Ages
<1>20. CASE SettleSaves
  <2>1. settle.id \in Ids /\ settle.row \in MiningRows
    BY <1>0, <1>20 DEF SettleSaves, MiningInv, SettleInv, Used
  <2>2. [settle.row EXCEPT !.status = "failed"] \in MiningRows
    BY <1>1, <2>1, StatusOfRow
  <2>3. rows' \in [Ids -> MiningRows]
    BY <1>4, <1>20, <2>1, <2>2 DEF SettleSaves
  <2>4. QED
    BY <1>0, <1>1, <1>20, <2>3, MiningTyped DEF SettleSaves
<1>21. CASE MiningCrash
  <2>1. \A u \in Uuids : /\ [at |-> "unsaved", id |-> 0] \in Hands
                         /\ [hand[u] EXCEPT !.at = "over"] \in Hands
                         /\ hand[u] \in Hands
    <3>1. \A u \in Uuids : hand[u] \in Hands
      BY <1>0
    <3>2. \A h \in Hands : [h EXCEPT !.at = "over"] \in Hands
      BY DEF Hands
    <3>3. [at |-> "unsaved", id |-> 0] \in Hands
      BY MiningAssumption DEF Hands
    <3>4. QED
      BY <3>1, <3>2, <3>3
  <2>2. hand' \in [Uuids -> Hands]
    <3> DEFINE after(u) == IF hand[u].at \in {"none", "unsaved"} THEN hand[u]
                           ELSE IF hand[u].at = "picked" THEN [at |-> "unsaved", id |-> 0]
                           ELSE [hand[u] EXCEPT !.at = "over"]
    <3>1. \A u \in Uuids : after(u) \in Hands
      BY <2>1
    <3>2. hand' = [u \in Uuids |-> after(u)]
      BY <1>21 DEF MiningCrash
    <3> HIDE DEF after
    <3>3. QED
      BY <3>1, <3>2
  <2>3. [at |-> "gone", row |-> Empty] \in Miners
    BY <1>1 DEF Miners
  <2>4. miner' \in [Uuids -> Miners]
    BY <1>0, <1>21, <2>3 DEF MiningCrash
  <2>5. crashes' \in 0 .. host'.crashes
    <3>1. host.crashes \in Nat
      BY <1>0, MiningAssumption
    <3>2. QED
      BY <1>0, <1>21, <3>1 DEF MiningCrash
  <2>6. QED
    BY <1>0, <1>1, <1>21, <2>2, <2>4, <2>5, MiningTyped DEF MiningCrash
<1>22. CASE UNCHANGED miningVars
  BY <1>0, <1>22, MiningTyped DEF miningVars
<1>23. QED
  BY <1>2, <1>5, <1>6, <1>7, <1>9, <1>10, <1>11, <1>12, <1>13, <1>14, <1>15, <1>16, <1>17,
     <1>18, <1>19, <1>20, <1>21, <1>22 DEF MiningNext

LEMMA MiningStep == MiningInv /\ [MiningNext]_miningVars => MiningInv'
<1> SUFFICES ASSUME MiningInv, [MiningNext]_miningVars PROVE MiningInv'
  OBVIOUS
<1>0. MiningTypeOK'
  BY MiningTypeStep
<1>1. /\ rows \in [Ids -> MiningRows]
      /\ hand \in [Uuids -> Hands] /\ miner \in [Uuids -> Miners]
      /\ settle \in [id : 0 .. MaxId, row : MiningRows]
      /\ \A u \in Uuids : Holds(u) => hand[u].id \in Ids
      /\ \A u \in Uuids : miner[u].at \notin {"none", "gone"} => hand[u].at = "over"
  BY MiningTypes DEF MiningInv, HandInv
<1>2. ASSUME NEW u \in Uuids, NEW at \in {"checking", "over"}, hand' = [hand EXCEPT ![u].at = at]
      PROVE  /\ hand'[u].at = at /\ hand'[u].id = hand[u].id
             /\ \A v \in Uuids \ {u} : hand'[v] = hand[v]
  BY <1>1, <1>2 DEF Hands
<1>3. ASSUME NEW u \in Uuids, NEW at \in {"starting", "mining", "ended", "gone"},
             miner' = [miner EXCEPT ![u].at = at]
      PROVE  /\ miner'[u].at = at
             /\ \A v \in Uuids \ {u} : miner'[v] = miner[v]
  BY <1>1, <1>3 DEF Miners
<1>4. ASSUME NEW u \in Uuids, PickId(u) PROVE MiningInv'
  BY <1>0, <1>4, PickKeeps
<1>5. ASSUME NEW u \in Uuids, NEW status \in MiningStatuses, Holds(u),
             SaveRow(hand[u].id, [task |-> u, status |-> status]),
             NEW at \in {"checking", "over"}, hand' = [hand EXCEPT ![u].at = at],
             hand[u].at # "over", UNCHANGED <<miner, settle, racing>>
      PROVE  MiningInv'
  <2> DEFINE row == [task |-> u, status |-> status]
  <2>1. row \in MiningRows /\ row.task = u /\ u # "none"
    BY MiningAssumption DEF MiningRows
  <2> HIDE DEF row
  <2>2. hand[u].id \in Ids /\ SaveRow(hand[u].id, row)
    BY <1>1, <1>5 DEF row
  <2>3. \A v \in Uuids :
            /\ hand'[v].id = hand[v].id /\ (Holds(v)' <=> Holds(v))
            /\ hand'[v].at = "picked" => hand[v].at = "picked"
            /\ hand[v].at = "picked" => hand'[v].at = "picked" \/ hand[v].id = hand[u].id
    BY <1>2, <1>5 DEF Holds
  <2>4. ASSUME NEW v \in Uuids, Own(v), hand[v].id = hand[u].id
        PROVE  row.task = v /\ hand'[v].at # "picked"
    <3>1. v = u
      BY <1>5, <2>4 DEF MiningInv, SameIdInv, Own
    <3>2. QED
      BY <1>2, <1>5, <2>1, <3>1
  <2>5. \A v \in Uuids : /\ miner'[v].at = "saving" => miner'[v] = miner[v]
                         /\ miner'[v].at \notin {"none", "gone"} => hand'[v].at = "over"
    BY <1>1, <1>2, <1>5
  <2>6. QED
    BY <1>0, <1>5, <2>1, <2>2, <2>3, <2>4, <2>5, RowSaved
<1>6. ASSUME NEW u \in Uuids, SaveMining(u) PROVE MiningInv'
  BY <1>5, <1>6 DEF SaveMining, Holds, MiningStatuses, Waiting
<1>7. ASSUME NEW u \in Uuids, RefuseMining(u) PROVE MiningInv'
  BY <1>5, <1>7 DEF RefuseMining, Holds, MiningStatuses
<1>8. ASSUME NEW i \in Ids, NEW row \in MiningRows, SaveRow(i, row), row.task # "none",
             \A u \in Uuids : Own(u) /\ hand[u].id = i => row.task = u /\ hand[u].at # "picked",
             UNCHANGED <<hand, racing>>, settle' \in {settle, NoSettle},
             \A u \in Uuids : miner'[u] = miner[u] \/ miner'[u].at = "gone"
      PROVE  MiningInv'
  <2>1. \A v \in Uuids :
            /\ hand'[v].id = hand[v].id /\ (Holds(v)' <=> Holds(v))
            /\ hand'[v].at = "picked" <=> hand[v].at = "picked"
            /\ Own(v) /\ hand[v].id = i => row.task = v /\ hand'[v].at # "picked"
            /\ miner'[v].at = "saving" => miner'[v] = miner[v]
            /\ miner'[v].at \notin {"none", "gone"} => hand'[v].at = "over"
    BY <1>1, <1>8 DEF Holds
  <2>2. QED
    BY <1>0, <1>8, <2>1, RowSaved
<1>9. ASSUME NEW i \in C2Ids, SaveC2(i) PROVE MiningInv'
  <2> DEFINE row == [task |-> "c2", status |-> "received"]
  <2>1. row \in MiningRows /\ row.task # "none" /\ i \in Ids
    BY MiningAssumption DEF MiningRows, MiningStatuses, Waiting, Ids
  <2>2. SaveRow(i, row) /\ UNCHANGED <<hand, miner, settle, racing>>
    BY <1>9 DEF SaveC2
  <2> HIDE DEF row
  <2>3. \A u \in Uuids : Own(u) => hand[u].id # i
    BY DEF Own
  <2>4. QED
    BY <1>8, <2>1, <2>2, <2>3
<1>10. ASSUME NEW u \in Uuids, MinerSaves(u) PROVE MiningInv'
  <2> DEFINE row == [miner[u].row EXCEPT !.status = "failed"]
  <2>1. hand[u].at = "over" /\ Holds(u) /\ hand[u].id \in Ids /\ miner[u].row \in MiningRows
    BY <1>1, <1>10 DEF MinerSaves, Holds, Miners
  <2>2. row \in MiningRows /\ row.task = miner[u].row.task
    BY <2>1, StatusOfRow DEF MiningStatuses
  <2>3. SaveRow(hand[u].id, row) /\ UNCHANGED <<hand, settle, racing>> /\ miner[u].at = "saving"
    BY <1>10 DEF MinerSaves
  <2> HIDE DEF row
  <2>4. row.task # "none" /\ (Own(u) => row.task = u)
    BY <2>2, <2>3 DEF MiningInv, MinerInv
  <2>5. \A v \in Uuids : miner'[v] = miner[v] \/ miner'[v].at = "gone"
    BY <1>1, <1>10 DEF MinerSaves
  <2>6. ASSUME NEW v \in Uuids, Own(v), hand[v].id = hand[u].id
        PROVE  row.task = v /\ hand[v].at # "picked"
    <3>1. v = u
      BY <2>1, <2>6 DEF MiningInv, SameIdInv, Own
    <3>2. QED
      BY <2>1, <2>4, <2>6, <3>1
  <2>7. QED
    BY <1>8, <2>1, <2>2, <2>3, <2>4, <2>5, <2>6
<1>11. CASE SettleSaves
  <2> DEFINE row == [settle.row EXCEPT !.status = "failed"]
  <2>1. settle.id \in Used /\ settle.row.task # "none" /\ settle.row \in MiningRows
    BY <1>1, <1>11 DEF SettleSaves, MiningInv, SettleInv
  <2>2. row \in MiningRows /\ row.task = settle.row.task /\ settle.id \in Ids
    BY <2>1, StatusOfRow DEF MiningStatuses, Used
  <2>3. /\ SaveRow(settle.id, row) /\ UNCHANGED <<hand, miner, racing>>
        /\ settle' = NoSettle /\ settle # NoSettle
    BY <1>11 DEF SettleSaves
  <2> HIDE DEF row
  <2>4. ASSUME NEW v \in Uuids, Own(v), hand[v].id = settle.id
        PROVE  row.task = v /\ hand[v].at # "picked"
    BY <2>1, <2>2, <2>3, <2>4 DEF MiningInv, SettleInv, RowInv
  <2>5. QED
    BY <1>8, <2>1, <2>2, <2>3, <2>4
<1>12. ASSUME UNCHANGED <<hand, racing>>, \A i \in Ids : rows'[i].task = rows[i].task,
              \A u \in Uuids :
                  /\ miner'[u].at \notin {"none", "gone"} => hand[u].at = "over"
                  /\ miner'[u].at = "saving" =>
                        \/ miner'[u] = miner[u]
                        \/ hand[u].at = "over" /\ miner'[u].row = rows[hand[u].id],
              \/ settle' = settle
              \/ settle'.id \in Used /\ settle'.row = rows[settle'.id]
       PROVE  MiningInv'
  BY <1>0, <1>12, TasksStay DEF Holds
<1>13. ASSUME NEW u \in Uuids, LeaveMining(u) \/ AcceptMining(u) PROVE MiningInv'
  <2>1. /\ hand[u].at = "checking" /\ hand' = [hand EXCEPT ![u].at = "over"]
        /\ UNCHANGED <<rows, settle, racing>>
        /\ miner' = miner \/ miner' = [miner EXCEPT ![u].at = "starting"]
    BY <1>13 DEF LeaveMining, AcceptMining
  <2>2. \A v \in Uuids : /\ Holds(v)' => Holds(v) /\ hand'[v].id = hand[v].id
                         /\ hand'[v].at = "picked" <=> hand[v].at = "picked"
                         /\ hand[v].at = "over" => hand'[v].at = "over"
    BY <1>2, <2>1 DEF Holds
  <2>3. \A v \in Uuids : miner'[v] = miner[v] \/ (v = u /\ miner'[v].at = "starting")
    BY <1>3, <2>1
  <2>4. \A v \in Uuids : /\ miner'[v].at = "saving" => miner'[v] = miner[v]
                         /\ miner'[v].at \notin {"none", "gone"} => hand'[v].at = "over"
    BY <1>1, <1>2, <2>1, <2>2, <2>3
  <2>5. QED
    BY <1>0, <2>1, <2>2, <2>4, TasksStay
<1>14. ASSUME NEW u \in Uuids, MinerRuns(u) PROVE MiningInv'
  <2>1. \A i \in Ids : rows'[i].task = rows[i].task
    <3>1. \A i \in Ids : [rows[i] EXCEPT !.status = "running"].task = rows[i].task
      BY <1>1, StatusOfRow DEF MiningStatuses, Waiting
    <3>2. QED
      BY <1>1, <1>14, <3>1 DEF MinerRuns, StatusByUuid
  <2>2. \A v \in Uuids : miner'[v] = miner[v] \/ (v = u /\ miner'[v].at = "mining")
    BY <1>3, <1>14 DEF MinerRuns
  <2>3. hand[u].at = "over"
    BY <1>1, <1>14 DEF MinerRuns
  <2>4. QED
    BY <1>1, <1>12, <1>14, <2>1, <2>2, <2>3 DEF MinerRuns
<1>15. ASSUME NEW u \in Uuids, MinerEnds(u) PROVE MiningInv'
  <2>1. \A v \in Uuids : \/ miner'[v] = miner[v]
                         \/ v = u /\ miner'[v].at \in {"ended", "gone"}
    BY <1>3, <1>15 DEF MinerEnds
  <2>2. hand[u].at = "over"
    BY <1>1, <1>15 DEF MinerEnds
  <2>3. QED
    BY <1>1, <1>12, <1>15, <2>1, <2>2 DEF MinerEnds
<1>16. ASSUME NEW u \in Uuids, MinerReads(u) PROVE MiningInv'
  <2>1. /\ miner'[u] = [at |-> "saving", row |-> rows[hand[u].id]]
        /\ \A v \in Uuids \ {u} : miner'[v] = miner[v]
    BY <1>1, <1>16 DEF MinerReads
  <2>2. hand[u].at = "over"
    BY <1>1, <1>16 DEF MinerReads
  <2>3. QED
    BY <1>1, <1>12, <1>16, <2>1, <2>2 DEF MinerReads
<1>17. CASE (\E u \in Uuids : Says(u)) \/ PollAsks \/ (\E i \in Ids : Ages(i)) \/ UNCHANGED miningVars
  <2>1. UNCHANGED <<hand, racing, rows, miner, settle>>
    BY <1>17 DEF Says, PollAsks, Ages, miningVars
  <2>2. QED
    BY <1>1, <1>12, <2>1
<1>18. CASE PollWrites
  <2>1. ASSUME NEW i \in Ids PROVE rows'[i].task = rows[i].task
    <3>1. CASE rows[i].task \in Uuids /\ News(rows[i].task)
      <4>1. poll[rows[i].task].told \in MiningStatuses
        BY <3>1, MiningTypes DEF MiningInv, News, MiningStatuses, Waiting
      <4>2. QED
        BY <1>1, <1>18, <3>1, <4>1, StatusOfRow DEF PollWrites
    <3>2. CASE ~(rows[i].task \in Uuids /\ News(rows[i].task))
      BY <1>18, <3>2 DEF PollWrites
    <3>3. QED
      BY <3>1, <3>2
  <2>2. QED
    BY <1>1, <1>12, <1>18, <2>1 DEF PollWrites
<1>19. ASSUME NEW i \in Ids, SettleReads(i) PROVE MiningInv'
  <2>1. /\ settle'.id \in Used /\ settle'.row = rows[settle'.id]
        /\ UNCHANGED <<hand, racing, rows, miner>>
    BY <1>19 DEF SettleReads
  <2>2. QED
    BY <1>1, <1>12, <2>1
<1>20. CASE MiningCrash
  <2>1. \A u \in Uuids :
            /\ Holds(u)' => Holds(u) /\ hand'[u].id = hand[u].id
            /\ Holds(u)' => (hand'[u].at = "picked" <=> hand[u].at = "picked")
    <3>1. \A u \in Uuids :
              /\ hand[u].at \in {"none", "unsaved"} => hand'[u] = hand[u]
              /\ hand[u].at = "picked" => hand'[u].at = "unsaved"
              /\ hand[u].at \in {"checking", "over"} =>
                     hand'[u].at = "over" /\ hand'[u].id = hand[u].id
      BY <1>1, <1>20 DEF MiningCrash, Hands
    <3>2. \A u \in Uuids : hand[u].at \in {"none", "unsaved", "picked", "checking", "over"}
      BY <1>1 DEF Hands
    <3>3. QED
      BY <3>1, <3>2 DEF Holds
  <2>2. \A u \in Uuids : miner'[u].at \in {"none", "gone"}
    BY <1>20 DEF MiningCrash
  <2>3. UNCHANGED <<rows, racing>> /\ settle' = NoSettle
    BY <1>20 DEF MiningCrash
  <2>4. QED
    BY <1>0, <2>1, <2>2, <2>3, TasksStay
<1>21. QED
  BY <1>4, <1>6, <1>7, <1>9, <1>10, <1>11, <1>13, <1>14, <1>15, <1>16, <1>17, <1>18, <1>19,
     <1>20 DEF MiningNext

LEMMA MiningStarts == MiningInit => MiningInv
<1> SUFFICES ASSUME MiningInit PROVE MiningInv
  OBVIOUS
<1>1. Used = {1} /\ 1 \in Ids
  BY MiningAssumption DEF MiningInit, Used, Empty, Ids
<1>2. MiningTypeOK
  <2>1. Empty \in MiningRows /\ [task |-> "c2", status |-> "verified"] \in MiningRows
    BY DEF Empty, MiningRows, MiningStatuses, Waiting, Final
  <2>2. rows \in [Ids -> MiningRows]
    BY <2>1 DEF MiningInit
  <2>3. host.crashes \in Nat
    BY MiningAssumption DEF MiningInit
  <2>4. hand \in [Uuids -> Hands] /\ miner \in [Uuids -> Miners]
    BY <2>1, MiningAssumption DEF MiningInit, Hands, Miners
  <2>5. NoSettle \in [id : 0 .. MaxId, row : MiningRows]
    BY <2>1, MiningAssumption DEF NoSettle
  <2>6. QED
    BY <2>2, <2>3, <2>4, <2>5, MiningTypes DEF MiningInit, NoPoll, Unasked
<1>3. HandInv /\ SameIdInv /\ RowInv /\ MinerInv /\ SettleInv
  BY <1>1 DEF MiningInit, HandInv, SameIdInv, RowInv, MinerInv, SettleInv, Holds, Own, Saved
<1>4. QED
  BY <1>2, <1>3 DEF MiningInv

\* A mining task keeps its row, unless its request took the id before another one had
\* saved it, or the engine gives the id to a FIL-C2 task (ubi_service.go:67-75).
THEOREM RowsAreKept == MiningSpec => []RowLostOnlyToSameId
<1>1. MiningInv => RowLostOnlyToSameId
  <2> SUFFICES ASSUME MiningInv, NEW u \in Uuids, Saved(u), ~HasRow(u),
                      u \notin racing, hand[u].id \notin C2Ids
               PROVE  FALSE
    BY DEF RowLostOnlyToSameId
  <2>1. Own(u) /\ hand[u].at # "picked" /\ hand[u].id \in Used
    BY DEF Own, Holds, Saved, MiningInv, HandInv
  <2>2. rows[hand[u].id].task = u
    BY <2>1 DEF MiningInv, RowInv
  <2>3. QED
    BY <2>1, <2>2 DEF HasRow
<1>2. QED
  BY <1>1, MiningStarts, MiningStep, PTL DEF MiningSpec

-----------------------------------------------------------------------------
(* Collateral.                                                             *)

WalletTxs == [add : Adds, call : {"approve", "deposit"}, amount : Nat]

AddStates == [at : {"none", "waiting", "approved", "told", "failed"},
              approval : {"none", "pending", "mined", "lost"}]

ApproveOf(a) == [add |-> a, call |-> "approve", amount |-> AddAmount[a]]
DepositOf(a) == [add |-> a, call |-> "deposit", amount |-> AddAmount[a]]

\* The deposit of a command is the next to be mined, and it is allowed.
IsNext(a) == queue # <<>> /\ queue[1] = DepositOf(a) /\ allowance = AddAmount[a]

\* A pending transaction is one of its command's two, and its approval is there once.
EntryInv ==
    /\ \A i \in DOMAIN queue : queue[i] \in {ApproveOf(queue[i].add), DepositOf(queue[i].add)}
    /\ \A i \in DOMAIN queue :
           IF queue[i].call = "approve" THEN add[queue[i].add].approval = "pending"
           ELSE add[queue[i].add].at = "told" \/ queue[i].add \in answerLost
    /\ \A i, j \in DOMAIN queue : queue[i].call = "approve" /\ queue[j] = queue[i] => i = j

PhaseInv ==
    \A a \in Adds :
        /\ add[a].at = "none" => add[a].approval = "none"
        /\ add[a].approval = "pending" => add[a].at \in {"waiting", "failed"}
        /\ a \in deposited => add[a].at = "told" \/ a \in answerLost

AloneInv == \A a \in UnderWay : a \notin met => UnderWay = {a}

Clear(a) == a \notin met \cup unlucky

\* What a command that met no other, and lost no transaction, can rely on.
ClearInv ==
    \A a \in Adds : Clear(a) =>
        /\ add[a].at = "waiting" /\ add[a].approval = "pending" =>
               queue # <<>> /\ queue[Len(queue)] = ApproveOf(a)
        /\ (add[a].at = "waiting" /\ add[a].approval = "mined") \/ add[a].at = "approved" =>
               queue = <<>> /\ allowance = AddAmount[a]
        /\ add[a].at = "told" => a \in deposited \/ IsNext(a)

\* Who has left the allowance, or will leave none.
LeftBy(a) ==
    \/ ~Clear(a)
    \/ add[a].at \in {"waiting", "approved", "failed"}
    \/ add[a].at = "told" /\ IsNext(a)

LeftInv == allowance > 0 => \E a \in Adds : LeftBy(a)

CollInv == CollTypeOK /\ EntryInv /\ PhaseInv /\ AloneInv /\ ClearInv /\ LeftInv

\* r is s without its element k.
Without(s, r, k) ==
    /\ Len(r) = Len(s) - 1
    /\ \A i \in 1 .. Len(r) : r[i] = IF i < k THEN s[i] ELSE s[i + 1]

LEMMA TailIsWithout ==
    ASSUME NEW S, NEW s \in Seq(S), s # <<>>
    PROVE  Tail(s) \in Seq(S) /\ Without(s, Tail(s), 1)
  BY DEF Without

LEMMA RemoveAtIsWithout ==
    ASSUME NEW S, NEW s \in Seq(S), NEW k \in 1 .. Len(s)
    PROVE  RemoveAt(s, k) \in Seq(S) /\ Without(s, RemoveAt(s, k), k)
<1> DEFINE before == SubSeq(s, 1, k - 1)
           after == SubSeq(s, k + 1, Len(s))
<1>1. before \in Seq(S) /\ after \in Seq(S)
  OBVIOUS
<1>2. Len(before) = k - 1 /\ Len(after) = Len(s) - k
  OBVIOUS
<1>3. /\ \A i \in 1 .. k - 1 : before[i] = s[i]
      /\ \A i \in 1 .. Len(s) - k : after[i] = s[k + i]
  OBVIOUS
<1>4. RemoveAt(s, k) = before \o after
  BY DEF RemoveAt
<1> HIDE DEF before, after
<1>5. /\ before \o after \in Seq(S)
      /\ Len(before \o after) = Len(s) - 1
      /\ \A i \in 1 .. Len(s) - 1 : 
             (before \o after)[i] = IF i < k THEN before[i] ELSE after[i - (k - 1)]
  <2>1. Len(before) + Len(after) = Len(s) - 1
    BY <1>2
  <2>2. \A i \in 1 .. Len(s) - 1 : i =< Len(before) <=> i < k
    BY <1>2
  <2> DEFINE all == before \o after
  <2>3. /\ all \in Seq(S) /\ Len(all) = Len(before) + Len(after)
        /\ \A i \in 1 .. Len(before) + Len(after) :
               all[i] = IF i <= Len(before) THEN before[i] ELSE after[i - Len(before)]
    BY <1>1, ConcatProperties
  <2> HIDE DEF all
  <2>4. /\ all \in Seq(S) /\ Len(all) = Len(s) - 1
        /\ \A i \in 1 .. Len(s) - 1 : all[i] = IF i < k THEN before[i] ELSE after[i - (k - 1)]
    BY <1>2, <2>1, <2>2, <2>3
  <2>5. QED
    BY <2>4 DEF all
<1>6. \A i \in 1 .. Len(s) - 1 : (before \o after)[i] = IF i < k THEN s[i] ELSE s[i + 1]
  <2> SUFFICES ASSUME NEW i \in 1 .. Len(s) - 1
               PROVE  (before \o after)[i] = IF i < k THEN s[i] ELSE s[i + 1]
    OBVIOUS
  <2>1. CASE i < k
    BY <1>3, <1>5, <2>1
  <2>2. CASE ~(i < k)
    <3>1. i - (k - 1) \in 1 .. Len(s) - k /\ k + (i - (k - 1)) = i + 1
      BY <2>2
    <3>2. QED
      BY <1>3, <1>5, <2>2, <3>1
  <2>3. QED
    BY <2>1, <2>2
<1>7. QED
  BY <1>4, <1>5, <1>6 DEF Without

LEMMA CollTypes ==
    CollTypeOK <=>
        /\ allowance \in Nat /\ deposited \subseteq Adds /\ met \subseteq Adds
        /\ unlucky \subseteq Adds /\ answerLost \subseteq Adds
        /\ queue \in Seq(WalletTxs) /\ add \in [Adds -> AddStates]
        /\ losses \in 0 .. MaxLosses
  BY DEF CollTypeOK, WalletTxs, AddStates

LEMMA CollTyped ==
    ASSUME allowance' \in Nat, deposited' \subseteq Adds, met' \subseteq Adds,
           unlucky' \subseteq Adds, answerLost' \subseteq Adds,
           queue' \in Seq(WalletTxs), add' \in [Adds -> AddStates], losses' \in 0 .. MaxLosses
    PROVE  CollTypeOK'
  BY DEF CollTypeOK, WalletTxs, AddStates

LEMMA ApproveDeposit ==
    ASSUME NEW a \in Adds
    PROVE  /\ ApproveOf(a) \in WalletTxs /\ DepositOf(a) \in WalletTxs
           /\ ApproveOf(a).add = a /\ ApproveOf(a).call = "approve" /\ ApproveOf(a).amount = AddAmount[a]
           /\ DepositOf(a).add = a /\ DepositOf(a).call = "deposit" /\ DepositOf(a).amount = AddAmount[a]
           /\ AddAmount[a] \in Nat /\ AddAmount[a] > 0
  BY CollateralAssumption DEF ApproveOf, DepositOf, WalletTxs

\* What the queue's element is.
LEMMA Entry ==
    ASSUME CollInv, NEW i \in 1 .. Len(queue)
    PROVE  /\ queue[i] \in WalletTxs /\ queue[i].add \in Adds
           /\ \/ queue[i].call = "approve" /\ queue[i] = ApproveOf(queue[i].add)
                 /\ add[queue[i].add].approval = "pending"
              \/ queue[i].call = "deposit" /\ queue[i] = DepositOf(queue[i].add)
                 /\ (add[queue[i].add].at = "told" \/ queue[i].add \in answerLost)
           /\ queue[i].amount = AddAmount[queue[i].add]
<1>1. queue \in Seq(WalletTxs)
  BY CollTypes DEF CollInv
<1>2. queue[i] \in WalletTxs /\ queue[i].add \in Adds /\ i \in DOMAIN queue
  <2>1. queue[i] \in WalletTxs /\ i \in DOMAIN queue
    BY <1>1
  <2>2. QED
    BY <2>1 DEF WalletTxs
<1>3. queue[i] \in {ApproveOf(queue[i].add), DepositOf(queue[i].add)}
  BY <1>2 DEF CollInv, EntryInv
<1>4. CASE queue[i].call = "approve"
  BY <1>2, <1>3, <1>4, ApproveDeposit DEF CollInv, EntryInv
<1>5. CASE queue[i].call = "deposit"
  BY <1>2, <1>3, <1>5, ApproveDeposit DEF CollInv, EntryInv
<1>6. QED
  BY <1>2, <1>4, <1>5 DEF WalletTxs

\* The queue's entries of one command and call are one.
LEMMA EntryOnce ==
    ASSUME CollInv, NEW i \in 1 .. Len(queue), NEW j \in 1 .. Len(queue), NEW a \in Adds,
           queue[i] = ApproveOf(a), queue[j] = ApproveOf(a)
    PROVE  i = j
<1>1. i \in DOMAIN queue /\ j \in DOMAIN queue
  BY CollTypes DEF CollInv
<1>2. queue[i].call = "approve" /\ queue[j] = queue[i]
  BY ApproveDeposit
<1>3. QED
  BY <1>1, <1>2 DEF CollInv, EntryInv

LEMMA EntriesStay ==
    ASSUME CollInv, CollTypeOK', queue' = queue, answerLost \subseteq answerLost',
           \A a \in Adds : /\ add[a].at = "told" => add'[a].at = "told"
                           /\ add'[a].approval = add[a].approval
    PROVE  EntryInv'
<1>1. DOMAIN queue = 1 .. Len(queue)
  BY CollTypes DEF CollInv
<1>2. \A i \in DOMAIN queue : queue[i].add \in Adds
  BY <1>1, Entry
<1>3. QED
  BY <1>2 DEF CollInv, EntryInv, ApproveOf, DepositOf

\* A transaction at the end of the queue.
LEMMA EntriesGrow ==
    ASSUME CollInv, CollTypeOK', NEW a \in Adds, NEW tx \in {ApproveOf(a), DepositOf(a)},
           queue' = Append(queue, tx), answerLost \subseteq answerLost',
           \A b \in Adds : /\ add[b].at = "told" => add'[b].at = "told"
                           /\ b # a => add'[b].approval = add[b].approval,
           add[a].approval = "pending" => add'[a].approval = "pending",
           tx.call = "approve" => add[a].approval # "pending" /\ add'[a].approval = "pending",
           tx.call = "deposit" => add'[a].at = "told" \/ a \in answerLost'
    PROVE  EntryInv'
<1>1. queue \in Seq(WalletTxs) /\ tx \in WalletTxs /\ tx.add = a /\ tx.call \in {"approve", "deposit"}
  BY CollTypes, ApproveDeposit DEF CollInv
<1>2. /\ DOMAIN queue' = 1 .. Len(queue) + 1 /\ queue'[Len(queue) + 1] = tx
      /\ \A i \in 1 .. Len(queue) : queue'[i] = queue[i]
  BY <1>1
<1>3. ASSUME NEW i \in DOMAIN queue'
      PROVE  /\ queue'[i] \in {ApproveOf(queue'[i].add), DepositOf(queue'[i].add)}
             /\ IF queue'[i].call = "approve" THEN add'[queue'[i].add].approval = "pending"
                ELSE add'[queue'[i].add].at = "told" \/ queue'[i].add \in answerLost'
  <2>1. CASE i = Len(queue) + 1
    BY <1>1, <1>2, <2>1
  <2>2. CASE i \in 1 .. Len(queue)
    BY <1>2, <2>2, Entry
  <2>3. QED
    BY <1>1, <1>2, <2>1, <2>2
<1>4. ASSUME NEW i \in DOMAIN queue', NEW j \in DOMAIN queue',
             queue'[i].call = "approve", queue'[j] = queue'[i]
      PROVE  i = j
  <2>1. CASE i \in 1 .. Len(queue) /\ j \in 1 .. Len(queue)
    BY <1>2, <1>4, <2>1, Entry, EntryOnce
  <2>2. ASSUME NEW k \in 1 .. Len(queue), queue[k] = tx, tx.call = "approve"
        PROVE  FALSE
    BY <1>1, <2>2, Entry
  <2>3. QED
    BY <1>1, <1>2, <1>4, <2>1, <2>2
<1>5. QED
  BY <1>3, <1>4 DEF EntryInv, ApproveOf, DepositOf

\* A transaction leaves the queue.
LEMMA EntriesShrink ==
    ASSUME CollInv, CollTypeOK', NEW k \in 1 .. Len(queue), Without(queue, queue', k),
           answerLost \subseteq answerLost',
           \A a \in Adds : /\ add[a].at = "told" => add'[a].at = "told"
                           /\ queue[k] # ApproveOf(a) => add'[a].approval = add[a].approval
    PROVE  EntryInv'
<1>1. queue \in Seq(WalletTxs) /\ queue' \in Seq(WalletTxs)
  BY CollTypes DEF CollInv, CollTypeOK, WalletTxs
<1> DEFINE old(i) == IF i < k THEN i ELSE i + 1
<1>2. /\ DOMAIN queue' = 1 .. Len(queue) - 1
      /\ \A i \in 1 .. Len(queue) - 1 : /\ old(i) \in 1 .. Len(queue) /\ old(i) # k
                                        /\ queue'[i] = queue[old(i)]
      /\ \A i, j \in 1 .. Len(queue) - 1 : old(i) = old(j) => i = j
  BY <1>1 DEF Without
<1> HIDE DEF old
<1>3. ASSUME NEW i \in DOMAIN queue'
      PROVE  /\ queue'[i] \in {ApproveOf(queue'[i].add), DepositOf(queue'[i].add)}
             /\ IF queue'[i].call = "approve" THEN add'[queue'[i].add].approval = "pending"
                ELSE add'[queue'[i].add].at = "told" \/ queue'[i].add \in answerLost'
  <2>1. old(i) \in 1 .. Len(queue) /\ old(i) # k /\ queue'[i] = queue[old(i)]
    BY <1>2
  <2> DEFINE a == queue[old(i)].add
  <2>2. a \in Adds
    BY <2>1, Entry
  <2>3. queue[old(i)].call = "approve" => queue[k] # ApproveOf(a)
    BY <2>1, <2>2, Entry, EntryOnce
  <2>4. QED
    BY <2>1, <2>2, <2>3, Entry
<1>4. ASSUME NEW i \in DOMAIN queue', NEW j \in DOMAIN queue',
             queue'[i].call = "approve", queue'[j] = queue'[i]
      PROVE  i = j
  <2>1. /\ old(i) \in 1 .. Len(queue) /\ old(j) \in 1 .. Len(queue)
        /\ queue[old(i)] = queue'[i] /\ queue[old(j)] = queue'[i]
    BY <1>2, <1>4
  <2>2. old(i) = old(j)
    BY <1>4, <2>1, Entry, EntryOnce
  <2>3. QED
    BY <1>2, <2>2
<1>5. QED
  BY <1>3, <1>4 DEF EntryInv, ApproveOf, DepositOf

LEMMA CollTypeStep ==
    ASSUME CollInv, CollNext
    PROVE  CollTypeOK'
<1>1. /\ allowance \in Nat /\ deposited \subseteq Adds /\ met \subseteq Adds
      /\ unlucky \subseteq Adds /\ answerLost \subseteq Adds
      /\ queue \in Seq(WalletTxs) /\ add \in [Adds -> AddStates] /\ losses \in 0 .. MaxLosses
  BY CollTypes DEF CollInv
<1>2. \A a \in Adds, at \in {"waiting", "approved", "told", "failed"} :
          Goto(a, at) => add' \in [Adds -> AddStates]
  BY <1>1 DEF Goto, AddStates
<1>3. \A a \in Adds, x \in {"pending", "mined", "lost"} :
          [add EXCEPT ![a].approval = x] \in [Adds -> AddStates]
  BY <1>1 DEF AddStates
<1>4. Loss => losses' \in 0 .. MaxLosses
  BY <1>1, CollateralAssumption DEF Loss
<1>5. UnderWay \subseteq Adds
  BY DEF UnderWay
<1>6. ASSUME NEW a \in Adds, Approve(a)
      PROVE  CollTypeOK'
  <2>1. add' \in [Adds -> AddStates]
    BY <1>1, <1>6 DEF Approve, AddStates
  <2>2. queue' \in Seq(WalletTxs)
    BY <1>1, <1>6, ApproveDeposit DEF Approve, ApproveOf
  <2>3. QED
    BY <1>1, <1>5, <1>6, <2>1, <2>2, CollTyped DEF Approve
<1>7. ASSUME NEW a \in Adds, Approved(a) \/ ApproveEnds(a) \/ DepositFails(a)
      PROVE  CollTypeOK'
  <2>1. add' \in [Adds -> AddStates]
    BY <1>2, <1>7 DEF Approved, ApproveEnds, DepositFails
  <2>2. QED
    BY <1>1, <1>7, <2>1, CollTyped DEF Approved, ApproveEnds, DepositFails
<1>8. ASSUME NEW a \in Adds, Deposit(a) \/ DepositUnseen(a)
      PROVE  CollTypeOK'
  <2>1. add' \in [Adds -> AddStates]
    BY <1>2, <1>8 DEF Deposit, DepositUnseen
  <2>2. queue' \in Seq(WalletTxs)
    <3>1. queue' = Append(queue, DepositOf(a))
      BY <1>8 DEF Deposit, DepositUnseen, DepositOf
    <3>2. QED
      BY <1>1, <3>1, ApproveDeposit
  <2>3. losses' \in 0 .. MaxLosses
    BY <1>1, <1>4, <1>8 DEF Deposit, DepositUnseen
  <2>4. QED
    BY <1>1, <1>8, <2>1, <2>2, <2>3, CollTyped DEF Deposit, DepositUnseen
<1>9. queue # <<>> => /\ Tail(queue) \in Seq(WalletTxs) /\ Head(queue) = queue[1]
                      /\ 1 \in 1 .. Len(queue)
  BY <1>1
<1>10. \A i \in 1 .. Len(queue) : queue[i].add \in Adds /\ queue[i].amount \in Nat
  BY Entry, CollateralAssumption
<1>11. CASE MineApproval
  <2>1. queue' \in Seq(WalletTxs) /\ allowance' \in Nat
    BY <1>9, <1>10, <1>11 DEF MineApproval
  <2>2. add' \in [Adds -> AddStates]
    BY <1>3, <1>9, <1>10, <1>11 DEF MineApproval
  <2>3. QED
    BY <1>1, <1>11, <2>1, <2>2, CollTyped DEF MineApproval
<1>12. CASE MineDeposit
  <2>1. queue' \in Seq(WalletTxs)
    BY <1>9, <1>12 DEF MineDeposit
  <2>2. allowance' \in Nat /\ deposited' \subseteq Adds
    BY <1>1, <1>9, <1>10, <1>12 DEF MineDeposit
  <2>3. QED
    BY <1>1, <1>12, <2>1, <2>2, CollTyped DEF MineDeposit
<1>13. CASE LoseTransaction
  <2>1. PICK i \in DOMAIN queue :
            /\ queue' = RemoveAt(queue, i)
            /\ unlucky' = unlucky \cup {queue[i].add}
            /\ add' = [add EXCEPT ![queue[i].add].approval =
                          IF queue[i].call = "approve" THEN "lost" ELSE @]
    BY <1>13 DEF LoseTransaction
  <2>2. i \in 1 .. Len(queue) /\ queue[i].add \in Adds
    BY <1>1, <1>10
  <2>3. queue' \in Seq(WalletTxs)
    BY <1>1, <2>1, <2>2, RemoveAtIsWithout
  <2>4. add' \in [Adds -> AddStates]
    BY <1>1, <2>1, <2>2 DEF AddStates
  <2>5. QED
    BY <1>1, <1>4, <1>13, <2>1, <2>2, <2>3, <2>4, CollTyped DEF LoseTransaction
<1>14. QED
  BY <1>6, <1>7, <1>8, <1>11, <1>12, <1>13 DEF CollNext

\* What each step leaves of a command's state.
LEMMA EntryStep ==
    ASSUME CollInv, CollNext
    PROVE  EntryInv'
<1>1. CollTypeOK' /\ queue \in Seq(WalletTxs) /\ add \in [Adds -> AddStates]
  BY CollTypeStep, CollTypes DEF CollInv
<1>2. ASSUME NEW a \in Adds, Approve(a)
      PROVE  EntryInv'
  <2>1. add[a].approval = "none"
    BY <1>2 DEF CollInv, PhaseInv, Approve
  <2>2. /\ add'[a].approval = "pending"
        /\ \A b \in Adds \ {a} : add'[b] = add[b]
        /\ add[a].at = "none"
        /\ queue' = Append(queue, ApproveOf(a)) /\ answerLost' = answerLost
    BY <1>1, <1>2 DEF Approve, ApproveOf
  <2>3. QED
    BY <1>1, <2>1, <2>2, ApproveDeposit, EntriesGrow
<1>3. ASSUME NEW a \in Adds, Approved(a) \/ ApproveEnds(a) \/ DepositFails(a)
      PROVE  EntryInv'
  <2>1. \A b \in Adds : /\ add[b].at = "told" => add'[b].at = "told"
                        /\ add'[b].approval = add[b].approval
    BY <1>1, <1>3 DEF Approved, ApproveEnds, DepositFails, Goto, AddStates
  <2>2. queue' = queue /\ answerLost' = answerLost
    BY <1>3 DEF Approved, ApproveEnds, DepositFails
  <2>3. QED
    BY <1>1, <2>1, <2>2, EntriesStay
<1>4. ASSUME NEW a \in Adds, Deposit(a) \/ DepositUnseen(a)
      PROVE  EntryInv'
  <2>1. /\ \A b \in Adds : /\ add[b].at = "told" => add'[b].at = "told"
                           /\ add'[b].approval = add[b].approval
        /\ add'[a].at = "told" \/ a \in answerLost'
    BY <1>1, <1>4 DEF Deposit, DepositUnseen, Goto, AddStates
  <2>2. queue' = Append(queue, DepositOf(a)) /\ answerLost \subseteq answerLost'
    BY <1>4 DEF Deposit, DepositUnseen, DepositOf
  <2>3. QED
    BY <1>1, <2>1, <2>2, ApproveDeposit, EntriesGrow
<1>5. ASSUME queue # <<>>, queue' = Tail(queue)
      PROVE  1 \in 1 .. Len(queue) /\ Without(queue, queue', 1) /\ Head(queue) = queue[1]
  BY <1>1, <1>5, TailIsWithout
<1>6. CASE MineApproval
  <2>1. /\ 1 \in 1 .. Len(queue) /\ Without(queue, queue', 1)
        /\ add' = [add EXCEPT ![queue[1].add].approval = "mined"]
        /\ queue[1].call = "approve" /\ answerLost' = answerLost
    BY <1>5, <1>6 DEF MineApproval
  <2>2. queue[1] = ApproveOf(queue[1].add) /\ queue[1].add \in Adds
    BY <2>1, Entry
  <2>3. \A b \in Adds : /\ add'[b].at = add[b].at
                        /\ b # queue[1].add => add'[b].approval = add[b].approval
    BY <1>1, <2>1, <2>2 DEF AddStates
  <2>4. QED
    BY <1>1, <2>1, <2>2, <2>3, EntriesShrink
<1>7. CASE MineDeposit
  <2>1. /\ 1 \in 1 .. Len(queue) /\ Without(queue, queue', 1)
        /\ add' = add /\ answerLost' = answerLost
    BY <1>5, <1>7 DEF MineDeposit
  <2>2. QED
    BY <1>1, <2>1, EntriesShrink
<1>8. CASE LoseTransaction
  <2>1. PICK i \in DOMAIN queue :
            /\ queue' = RemoveAt(queue, i)
            /\ add' = [add EXCEPT ![queue[i].add].approval =
                          IF queue[i].call = "approve" THEN "lost" ELSE @]
    BY <1>8 DEF LoseTransaction
  <2>2. i \in 1 .. Len(queue) /\ queue[i].add \in Adds
    BY <1>1, Entry
  <2>3. Without(queue, queue', i) /\ answerLost' = answerLost
    BY <1>1, <1>8, <2>1, <2>2, RemoveAtIsWithout DEF LoseTransaction
  <2>4. \A b \in Adds : /\ add'[b].at = add[b].at
                        /\ ~(queue[i].call = "approve" /\ queue[i].add = b) =>
                               add'[b].approval = add[b].approval
    BY <1>1, <2>1, <2>2 DEF AddStates
  <2>5. queue[i].call = "approve" => queue[i] = ApproveOf(queue[i].add)
    BY <2>2, Entry
  <2>6. QED
    BY <1>1, <2>2, <2>3, <2>4, <2>5, EntriesShrink
<1>9. QED
  BY <1>2, <1>3, <1>4, <1>6, <1>7, <1>8 DEF CollNext

\* Which commands are where: a step moves one at most, and mining none.
LEMMA PhaseStep ==
    ASSUME CollInv, CollNext
    PROVE  PhaseInv' /\ AloneInv'
<1>1. CollTypeOK' /\ add \in [Adds -> AddStates] /\ queue \in Seq(WalletTxs)
  BY CollTypeStep, CollTypes DEF CollInv
<1>2. /\ \A b \in Adds : /\ add[b].at = "none" => add[b].approval = "none"
                         /\ add[b].approval = "pending" => add[b].at \in {"waiting", "failed"}
                         /\ b \in deposited => add[b].at = "told" \/ b \in answerLost
      /\ \A b \in UnderWay : b \notin met => UnderWay = {b}
  BY DEF CollInv, PhaseInv, AloneInv
<1>3. ASSUME NEW a \in Adds, Approve(a)
      PROVE  PhaseInv' /\ AloneInv'
  <2>1. /\ add'[a].at = "waiting" /\ add'[a].approval = "pending" /\ add[a].at = "none"
        /\ \A b \in Adds \ {a} : add'[b] = add[b]
        /\ deposited' = deposited /\ answerLost' = answerLost
    BY <1>1, <1>3 DEF Approve
  <2>2. PhaseInv'
    BY <1>2, <2>1 DEF PhaseInv
  <2>3. UnderWay' = UnderWay \cup {a}
    BY <2>1 DEF UnderWay
  <2>4. QED
    BY <1>3, <2>2, <2>3 DEF Approve, AloneInv
<1>4. ASSUME NEW a \in Adds,
             \/ Approved(a) \/ ApproveEnds(a)
             \/ Deposit(a) \/ DepositUnseen(a) \/ DepositFails(a)
      PROVE  PhaseInv' /\ AloneInv'
  <2>1. /\ add[a].at \in {"waiting", "approved"} /\ add'[a].approval = add[a].approval
        /\ add'[a].at \in {"approved", "told", "failed"}
        /\ add[a].approval = "pending" => add'[a].at = "failed" \/ add[a].at = "approved"
        /\ \A b \in Adds \ {a} : add'[b] = add[b]
        /\ deposited' = deposited /\ answerLost \subseteq answerLost' /\ met' = met
    BY <1>1, <1>4 DEF Approved, ApproveEnds, Deposit, DepositUnseen, DepositFails, Goto, AddStates
  <2>2. PhaseInv'
    BY <1>2, <2>1 DEF PhaseInv
  <2>3. a \in UnderWay /\ UnderWay' \subseteq UnderWay
    BY <2>1 DEF UnderWay
  <2>4. QED
    BY <1>2, <2>1, <2>2, <2>3 DEF AloneInv
<1>5. ASSUME \A b \in Adds : /\ add'[b].at = add[b].at
                             /\ add'[b].approval = "pending" => add[b].approval = "pending"
                             /\ add[b].approval = "none" => add'[b].approval = "none",
             answerLost' = answerLost, met' = met,
             \A b \in deposited' : b \in deposited \/ add[b].at = "told" \/ b \in answerLost
      PROVE  PhaseInv' /\ AloneInv'
  <2>1. UnderWay' = UnderWay
    BY <1>5 DEF UnderWay
  <2>2. QED
    BY <1>2, <1>5, <2>1 DEF PhaseInv, AloneInv
<1>6. queue # <<>> => Head(queue) = queue[1] /\ 1 \in 1 .. Len(queue)
  BY <1>1
<1>7. CASE MineApproval
  <2>1. /\ add' = [add EXCEPT ![queue[1].add].approval = "mined"]
        /\ 1 \in 1 .. Len(queue) /\ queue[1].call = "approve"
        /\ UNCHANGED <<answerLost, met, deposited>>
    BY <1>6, <1>7 DEF MineApproval
  <2>2. queue[1].add \in Adds /\ add[queue[1].add].approval = "pending"
    BY <2>1, Entry
  <2>3. \A b \in Adds : /\ add'[b].at = add[b].at
                        /\ add'[b].approval = "pending" => add[b].approval = "pending"
                        /\ add[b].approval = "none" => add'[b].approval = "none"
    BY <1>1, <2>1, <2>2 DEF AddStates
  <2>4. QED
    BY <1>5, <2>1, <2>3
<1>8. CASE MineDeposit
  <2>1. 1 \in 1 .. Len(queue) /\ queue[1].call = "deposit"
    BY <1>6, <1>8 DEF MineDeposit
  <2>2. add[queue[1].add].at = "told" \/ queue[1].add \in answerLost
    BY <2>1, Entry
  <2>3. QED
    BY <1>5, <1>6, <1>8, <2>1, <2>2 DEF MineDeposit
<1>9. CASE LoseTransaction
  <2>1. PICK i \in DOMAIN queue :
            add' = [add EXCEPT ![queue[i].add].approval =
                       IF queue[i].call = "approve" THEN "lost" ELSE @]
    BY <1>9 DEF LoseTransaction
  <2>2. /\ i \in 1 .. Len(queue) /\ queue[i].add \in Adds
        /\ queue[i].call = "approve" => add[queue[i].add].approval = "pending"
    BY <1>1, Entry
  <2>3. \A b \in Adds : /\ add'[b].at = add[b].at
                        /\ add'[b].approval = "pending" => add[b].approval = "pending"
                        /\ add[b].approval = "none" => add'[b].approval = "none"
    BY <1>1, <2>1, <2>2 DEF AddStates
  <2>4. QED
    BY <1>5, <1>9, <2>3 DEF LoseTransaction
<1>10. QED
  BY <1>3, <1>4, <1>7, <1>8, <1>9 DEF CollNext

\* A command that met no other waits alone: its approval is the last transaction,
\* and when it is mined nothing is pending. Its deposit is then the next.
LEMMA ClearStep ==
    ASSUME CollInv, CollNext
    PROVE  ClearInv' /\ LeftInv'
<1>1. /\ CollTypeOK' /\ add \in [Adds -> AddStates] /\ queue \in Seq(WalletTxs)
      /\ allowance \in Nat /\ met \subseteq Adds /\ unlucky \subseteq Adds
  BY CollTypeStep, CollTypes DEF CollInv
<1>2. \A b \in Adds : Clear(b) =>
          /\ add[b].at = "waiting" /\ add[b].approval = "pending" =>
                 queue # <<>> /\ queue[Len(queue)] = ApproveOf(b)
          /\ (add[b].at = "waiting" /\ add[b].approval = "mined") \/ add[b].at = "approved" =>
                 queue = <<>> /\ allowance = AddAmount[b]
          /\ add[b].at = "told" => b \in deposited \/ IsNext(b)
  BY DEF CollInv, ClearInv
<1>3. \A b, c \in Adds : b # c /\ b \notin met /\ add[b].at \in {"waiting", "approved"} =>
          add[c].at \notin {"waiting", "approved"}
  BY DEF CollInv, AloneInv, UnderWay
<1>4. allowance > 0 => \E b \in Adds : LeftBy(b)
  BY DEF CollInv, LeftInv
<1>5. ASSUME NEW a \in Adds, Approve(a)
      PROVE  ClearInv' /\ LeftInv'
  <2>1. /\ add[a].at = "none" /\ add'[a].at = "waiting" /\ add'[a].approval = "pending"
        /\ \A b \in Adds \ {a} : add'[b] = add[b]
        /\ queue' = Append(queue, ApproveOf(a))
        /\ met \subseteq met' /\ unlucky' = unlucky
        /\ deposited' = deposited /\ allowance' = allowance
        /\ UnderWay # {} => UnderWay \subseteq met'
    BY <1>1, <1>5 DEF Approve, ApproveOf
  <2>2. queue' # <<>> /\ queue'[Len(queue')] = ApproveOf(a)
    BY <1>1, <2>1, ApproveDeposit
  <2>3. \A b \in Adds : /\ Clear(b)' => Clear(b)
                        /\ Clear(b)' /\ b # a => add[b].at \notin {"waiting", "approved"}
    BY <2>1 DEF Clear, UnderWay
  <2>4. \A b \in Adds : IsNext(b) => IsNext(b)'
    <3>1. queue # <<>> => queue'[1] = queue[1]
      BY <1>1, <2>1, ApproveDeposit
    <3>2. QED
      BY <2>1, <2>2, <3>1 DEF IsNext, DepositOf
  <2>5. ClearInv'
    BY <1>2, <2>1, <2>2, <2>3, <2>4 DEF ClearInv, ApproveOf
  <2>6. \A b \in Adds : LeftBy(b) => LeftBy(b)'
    BY <2>1, <2>3, <2>4 DEF LeftBy
  <2>7. QED
    BY <1>4, <2>1, <2>5, <2>6 DEF LeftInv
<1>6. ASSUME NEW a \in Adds, Approved(a) \/ ApproveEnds(a) \/ DepositFails(a)
      PROVE  ClearInv' /\ LeftInv'
  <2>1. /\ \/ add[a].at = "waiting" /\ add[a].approval = "mined" /\ add'[a].at = "approved"
           \/ add[a].at \in {"waiting", "approved"} /\ add'[a].at = "failed"
        /\ \A b \in Adds \ {a} : add'[b] = add[b]
        /\ UNCHANGED <<allowance, deposited, queue, met, unlucky>>
    BY <1>1, <1>6 DEF Approved, ApproveEnds, DepositFails, Goto, AddStates
  <2>2. \A b \in Adds : (Clear(b)' <=> Clear(b)) /\ (IsNext(b)' <=> IsNext(b))
    BY <2>1 DEF Clear, IsNext, DepositOf
  <2>3. ClearInv'
    BY <1>2, <2>1, <2>2 DEF ClearInv, ApproveOf
  <2>4. \A b \in Adds : LeftBy(b) => LeftBy(b)'
    BY <2>1, <2>2 DEF LeftBy
  <2>5. QED
    BY <1>4, <2>1, <2>3, <2>4 DEF LeftInv
<1>7. ASSUME NEW a \in Adds, Deposit(a) \/ DepositUnseen(a)
      PROVE  ClearInv' /\ LeftInv'
  <2>1. /\ add[a].at = "approved" /\ add'[a].at \in {"told", "failed"}
        /\ \A b \in Adds \ {a} : add'[b] = add[b]
        /\ queue' = Append(queue, DepositOf(a))
        /\ UNCHANGED <<allowance, deposited, met, unlucky>>
    BY <1>1, <1>7 DEF Deposit, DepositUnseen, Goto, AddStates, DepositOf
  <2>2. \A b \in Adds : (Clear(b)' <=> Clear(b)) /\ (Clear(b) => b \notin met)
    BY <2>1 DEF Clear
  <2>3. /\ queue' # <<>>
        /\ queue # <<>> => queue'[1] = queue[1]
        /\ queue = <<>> => queue'[1] = DepositOf(a)
    BY <1>1, <2>1, ApproveDeposit
  <2>4. \A b \in Adds : IsNext(b) => IsNext(b)'
    BY <2>1, <2>3 DEF IsNext, DepositOf
  <2>5. Clear(a) => IsNext(a)'
    BY <1>2, <2>1, <2>3 DEF IsNext, DepositOf
  <2>6. \A b \in Adds \ {a} : Clear(b) => add[b].at \notin {"waiting", "approved"}
    BY <1>3, <2>1, <2>2
  <2>7. ClearInv'
    BY <1>2, <2>1, <2>2, <2>4, <2>5, <2>6 DEF ClearInv
  <2>8. \A b \in Adds : LeftBy(b) => LeftBy(b)'
    BY <2>1, <2>2, <2>4, <2>5 DEF LeftBy
  <2>9. QED
    BY <1>4, <2>1, <2>7, <2>8 DEF LeftInv
<1>8. queue # <<>> => /\ 1 \in 1 .. Len(queue) /\ Head(queue) = queue[1]
                      /\ Without(queue, Tail(queue), 1) /\ Tail(queue) \in Seq(WalletTxs)
  BY <1>1, TailIsWithout
<1>9. ASSUME NEW k \in 1 .. Len(queue), Without(queue, queue', k), queue' \in Seq(WalletTxs),
             NEW b \in Adds, queue[Len(queue)] = ApproveOf(b), queue[k] # ApproveOf(b)
      PROVE  queue' # <<>> /\ queue'[Len(queue')] = ApproveOf(b)
  <2>1. k # Len(queue) /\ Len(queue) \in Nat
    BY <1>1, <1>9
  <2>2. Len(queue') = Len(queue) - 1 /\ Len(queue') >= 1 /\ ~(Len(queue') < k)
    BY <1>9, <2>1 DEF Without
  <2>3. queue'[Len(queue')] = queue[Len(queue') + 1]
    BY <1>9, <2>1, <2>2 DEF Without
  <2>4. QED
    BY <1>1, <1>9, <2>1, <2>2, <2>3
<1>10. CASE MineApproval
  <2>0. PICK h \in Adds : h = queue[1].add
    BY <1>8, <1>10, Entry DEF MineApproval
  <2>1. /\ 1 \in 1 .. Len(queue) /\ queue # <<>>
        /\ Without(queue, queue', 1) /\ queue' = Tail(queue) /\ queue' \in Seq(WalletTxs)
        /\ queue[1].call = "approve" /\ allowance' = queue[1].amount
        /\ add' = [add EXCEPT ![h].approval = "mined"]
        /\ UNCHANGED <<deposited, met, unlucky>>
    BY <1>8, <1>10, <2>0 DEF MineApproval
  <2>2. /\ h \in Adds /\ queue[1] = ApproveOf(h) /\ allowance' = AddAmount[h]
        /\ add[h].approval = "pending"
    BY <2>0, <2>1, Entry
  <2>3. add[h].at \in {"waiting", "failed"}
    BY <2>2 DEF CollInv, PhaseInv
  <2>4. /\ add'[h].approval = "mined"
        /\ \A b \in Adds : add'[b].at = add[b].at
        /\ \A b \in Adds \ {h} : add'[b] = add[b]
    BY <1>1, <2>1, <2>2 DEF AddStates
  <2>5. \A b \in Adds : ~IsNext(b) /\ (Clear(b)' <=> Clear(b))
    BY <2>1, <2>2, ApproveDeposit DEF IsNext, Clear
  <2>6. ASSUME Clear(h), add[h].at = "waiting"
        PROVE  queue' = <<>>
    <3>1. queue[Len(queue)] = ApproveOf(h)
      BY <1>2, <2>2, <2>6
    <3>2. Len(queue) \in 1 .. Len(queue)
      BY <1>1, <2>1
    <3>3. Len(queue) = 1
      BY <2>1, <2>2, <3>1, <3>2, EntryOnce
    <3>4. QED
      BY <1>1, <2>1, <3>3
  <2>7. ASSUME NEW b \in Adds \ {h}, Clear(b), add[b].at = "waiting", add[b].approval = "pending"
        PROVE  queue' # <<>> /\ queue'[Len(queue')] = ApproveOf(b)
    <3>1. queue[Len(queue)] = ApproveOf(b) /\ queue[1] # ApproveOf(b)
      BY <1>2, <2>2, <2>7, ApproveDeposit
    <3>2. QED
      BY <1>9, <2>1, <3>1
  <2>8. ASSUME NEW b \in Adds, Clear(b)'
        PROVE  /\ add'[b].at = "waiting" /\ add'[b].approval = "pending" =>
                      queue' # <<>> /\ queue'[Len(queue')] = ApproveOf(b)
               /\ (add'[b].at = "waiting" /\ add'[b].approval = "mined") \/ add'[b].at = "approved" =>
                      queue' = <<>> /\ allowance' = AddAmount[b]
               /\ add'[b].at = "told" => b \in deposited'
    <3>1. CASE b = h
      BY <2>1, <2>2, <2>3, <2>4, <2>5, <2>6, <2>8, <3>1
    <3>2. CASE b # h
      BY <1>2, <2>1, <2>4, <2>5, <2>7, <2>8, <3>2
    <3>3. QED
      BY <3>1, <3>2
  <2>9. ClearInv'
    BY <2>8 DEF ClearInv, ApproveOf
  <2>10. LeftBy(h)'
    BY <2>2, <2>3, <2>4 DEF LeftBy
  <2>11. QED
    BY <2>2, <2>9, <2>10 DEF LeftInv
<1>11. CASE MineDeposit
  <2>0. PICK h \in Adds : h = queue[1].add
    BY <1>8, <1>11, Entry DEF MineDeposit
  <2>1. /\ 1 \in 1 .. Len(queue) /\ queue # <<>>
        /\ Without(queue, queue', 1) /\ queue' \in Seq(WalletTxs)
        /\ queue[1].call = "deposit"
        /\ \/ /\ allowance >= queue[1].amount
              /\ allowance' = allowance - queue[1].amount
              /\ deposited' = deposited \cup {h}
           \/ /\ allowance < queue[1].amount
              /\ UNCHANGED <<allowance, deposited>>
        /\ UNCHANGED <<add, met, unlucky>>
    BY <1>8, <1>11, <2>0 DEF MineDeposit
  <2>2. /\ h \in Adds /\ queue[1] = DepositOf(h) /\ queue[1].amount = AddAmount[h]
    BY <2>0, <2>1, Entry
  <2>3. \A b \in Adds : Clear(b)' <=> Clear(b)
    BY <2>1 DEF Clear
  <2>4. AddAmount[h] \in Nat /\ AddAmount[h] > 0
    BY <2>2, ApproveDeposit
  <2>5. \A b \in Adds : IsNext(b) => b = h /\ b \in deposited' /\ allowance' = 0
    <3> SUFFICES ASSUME NEW b \in Adds, IsNext(b)
                 PROVE  b = h /\ b \in deposited' /\ allowance' = 0
      OBVIOUS
    <3>1. b = h
      <4>1. DepositOf(b) = DepositOf(h) /\ DepositOf(b).add = b /\ DepositOf(h).add = h
        BY <2>2, ApproveDeposit DEF IsNext
      <4>2. QED
        BY <4>1
    <3>2. allowance = AddAmount[h]
      BY <3>1 DEF IsNext
    <3>3. allowance' = allowance - AddAmount[h] /\ deposited' = deposited \cup {h}
      BY <1>1, <2>1, <2>2, <2>4, <3>2
    <3>4. QED
      BY <2>4, <3>1, <3>2, <3>3
  <2>6. ASSUME NEW b \in Adds, Clear(b), add[b].at = "waiting", add[b].approval = "pending"
        PROVE  queue' # <<>> /\ queue'[Len(queue')] = ApproveOf(b)
    <3>1. queue[Len(queue)] = ApproveOf(b) /\ queue[1] # ApproveOf(b)
      BY <1>2, <2>2, <2>6, ApproveDeposit
    <3>2. QED
      BY <1>9, <2>1, <3>1
  <2>7. deposited \subseteq deposited'
    BY <2>1
  <2>8. ClearInv'
    BY <1>2, <2>1, <2>3, <2>5, <2>6, <2>7 DEF ClearInv, ApproveOf
  <2>9. ASSUME allowance' > 0
        PROVE  \E b \in Adds : LeftBy(b)'
    <3>1. allowance > 0
      BY <1>1, <2>1, <2>2, <2>4, <2>9
    <3>2. PICK b \in Adds : LeftBy(b)
      BY <1>4, <3>1
    <3>3. ~IsNext(b)
      BY <2>5, <2>9
    <3>4. LeftBy(b)'
      BY <2>1, <2>3, <3>2, <3>3 DEF LeftBy
    <3>5. QED
      BY <3>4
  <2>10. QED
    BY <2>8, <2>9 DEF LeftInv
<1>12. CASE LoseTransaction
  <2>1. PICK k \in DOMAIN queue :
            /\ queue' = RemoveAt(queue, k)
            /\ unlucky' = unlucky \cup {queue[k].add}
            /\ add' = [add EXCEPT ![queue[k].add].approval =
                          IF queue[k].call = "approve" THEN "lost" ELSE @]
    BY <1>12 DEF LoseTransaction
  <2>2. k \in 1 .. Len(queue) /\ queue[k].add \in Adds
    BY <1>1, Entry
  <2>2a. PICK u \in Adds : u = queue[k].add
    BY <2>2
  <2>3. /\ Without(queue, queue', k) /\ queue' \in Seq(WalletTxs)
        /\ UNCHANGED <<allowance, deposited, met>>
    BY <1>1, <1>12, <2>1, <2>2, RemoveAtIsWithout DEF LoseTransaction
  <2>4. \A b \in Adds \ {u} : add'[b] = add[b]
    BY <1>1, <2>1, <2>2, <2>2a
  <2>5. \A b \in Adds : Clear(b)' => Clear(b) /\ b # u
    BY <2>1, <2>3, <2>2a DEF Clear
  <2>6. ASSUME NEW b \in Adds \ {u}
        PROVE  queue[k] # ApproveOf(b) /\ queue[k] # DepositOf(b)
    BY <2>2, <2>6, <2>2a, Entry, ApproveDeposit
  <2>7. ASSUME NEW b \in Adds \ {u}, IsNext(b)
        PROVE  IsNext(b)'
    <3>1. queue[1] = DepositOf(b) /\ allowance = AddAmount[b]
      BY <2>7 DEF IsNext
    <3>2. k # 1
      BY <2>6, <3>1
    <3>3. Len(queue') >= 1 /\ queue'[1] = queue[1]
      BY <1>1, <2>2, <2>3, <3>2 DEF Without
    <3>4. queue' # <<>>
      BY <2>3, <3>3
    <3>5. QED
      BY <2>3, <3>1, <3>3, <3>4 DEF IsNext, DepositOf
  <2>8. ASSUME NEW b \in Adds \ {u}, Clear(b), add[b].at = "waiting", add[b].approval = "pending"
        PROVE  queue' # <<>> /\ queue'[Len(queue')] = ApproveOf(b)
    BY <1>2, <1>9, <2>2, <2>3, <2>6, <2>8
  <2>9. queue # <<>>
    BY <1>1, <2>2
  <2>10. ClearInv'
    BY <1>2, <2>3, <2>4, <2>5, <2>7, <2>8, <2>9 DEF ClearInv, ApproveOf
  <2>11. LeftBy(u)'
    BY <2>1, <2>2a DEF LeftBy, Clear
  <2>12. QED
    BY <2>10, <2>11 DEF LeftInv
<1>13. QED
  BY <1>5, <1>6, <1>7, <1>10, <1>11, <1>12 DEF CollNext

LEMMA CollStep == CollInv /\ [CollNext]_collVars => CollInv'
<1>1. ASSUME CollInv, CollNext
      PROVE  CollInv'
  BY <1>1, CollTypeStep, EntryStep, PhaseStep, ClearStep DEF CollInv
<1>2. ASSUME CollInv, UNCHANGED collVars
      PROVE  CollInv'
  BY <1>2 DEF collVars, CollInv, CollTypeOK, EntryInv, PhaseInv, AloneInv, ClearInv, LeftInv,
              LeftBy, Clear, IsNext, UnderWay, ApproveOf, DepositOf
<1>3. QED
  BY <1>1, <1>2

LEMMA CollStarts == CollInit => CollInv
<1> SUFFICES ASSUME CollInit PROVE CollInv
  OBVIOUS
<1>1. CollTypeOK
  BY CollateralAssumption DEF CollInit, CollTypeOK
<1>2. EntryInv /\ PhaseInv /\ AloneInv /\ ClearInv /\ LeftInv
  BY DEF CollInit, EntryInv, PhaseInv, AloneInv, ClearInv, LeftInv, UnderWay
<1>3. QED
  BY <1>1, <1>2 DEF CollInv

\* When nothing is pending, a command given alone has deposited what its operator
\* was told, and no allowance is left but by one that ended with an error, or met
\* another (wallet.go:296-400).
THEOREM DepositsAreAsTold == CollSpec => []AddsAsTold
<1>1. CollInv => AddsAsTold
  <2> SUFFICES ASSUME CollInv, queue = <<>> PROVE AddsAsTold
    BY DEF AddsAsTold
  <2>1. \A a \in Adds : ~IsNext(a)
    BY DEF IsNext
  <2>2. \A a \in Adds : add[a].at = "told" /\ a \notin met \cup unlucky => a \in deposited
    BY <2>1 DEF CollInv, ClearInv, Clear
  <2>3. \A a \in Adds : add[a].at = "failed" /\ a \in deposited => a \in answerLost
    BY DEF CollInv, PhaseInv
  <2>4. allowance > 0 =>
            \E a \in Adds : \/ a \in met \cup unlucky
                            \/ add[a].at \in {"waiting", "approved", "failed"}
    BY <2>1 DEF CollInv, LeftInv, LeftBy, Clear
  <2>5. QED
    BY <2>2, <2>3, <2>4 DEF AddsAsTold
<1>2. QED
  BY <1>1, CollStarts, CollStep, PTL DEF CollSpec

-----------------------------------------------------------------------------
(* The account and its copy.                                               *)

FieldOf(c) == cmd[c].change.field

ValueOf(c) == cmd[c].change.value

\* The last pending change of the field, and what the field will be at the end.
LastAt(f, i) ==
    /\ FieldOf(pending[i]) = f
    /\ \A j \in DOMAIN pending : j > i => FieldOf(pending[j]) # f

EndsAs(f, v) ==
    IF PendingFor(f) THEN \E i \in DOMAIN pending : LastAt(f, i) /\ v = ValueOf(pending[i])
    ELSE v = account[f]

PendingInv ==
    /\ \A i \in DOMAIN pending : cmd[pending[i]].tx = "pending"
    /\ \A i, j \in DOMAIN pending : pending[i] = pending[j] => i = j
    /\ \A c \in Commands :
           IF cmd[c].at = "none" THEN cmd[c].tx = "none"
           ELSE cmd[c].tx # "none" /\ cmd[c].change \in Changes[c]

\* A command that has met no other one has sent the last change of its field.
SentInv ==
    \A c \in Commands : cmd[c].at = "sent" /\ ~cmd[c].met =>
        /\ \A d \in Commands \ {c} : cmd[d].at = "sent" => FieldOf(d) # FieldOf(c)
        /\ cmd[c].tx = "pending" => \E i \in DOMAIN pending : pending[i] = c /\ LastAt(FieldOf(c), i)
        /\ cmd[c].tx = "mined" => ~PendingFor(FieldOf(c)) /\ account[FieldOf(c)] = ValueOf(c)

SyncInv ==
    \A s \in Syncs : sync[s].at \in {"read", "deleted"} /\ ~sync[s].met =>
        /\ \A t \in Syncs \ {s} : sync[t].at \notin {"read", "deleted"}
        /\ sync[s].at = "deleted" /\ ~sync[s].kept => copy = <<>>

\* A field of the copy that nothing has spoilt, and that no command is about to write,
\* is what that of the account will be.
Follows(f) ==
    \/ blame[f] # {}
    \/ \E c \in Commands : cmd[c].at = "sent" /\ FieldOf(c) = f
    \/ EndsAs(f, copy[1][f])

CopyInv == copy # <<>> => \A f \in Fields : Follows(f)

InfoInv == InfoTypeOK /\ PendingInv /\ SentInv /\ SyncInv /\ CopyInv

AnyChange == {NoChange} \cup UNION {Changes[c] : c \in Commands}

Cmds == [at : {"none", "sent", "over"}, change : AnyChange,
         tx : {"none", "pending", "mined", "undone"}, met : BOOLEAN]

SyncStates == [at : {"none", "read", "deleted", "over"}, read : Accounts,
               met : BOOLEAN, kept : BOOLEAN]

Blames == SUBSET {"crossed", "undone", "unsaved", "kept", "met", "stale"}

LEMMA InfoTypes ==
    InfoTypeOK <=>
        /\ account \in Accounts /\ pending \in Seq(Commands) /\ copy \in Seq(Accounts)
        /\ cmd \in [Commands -> Cmds] /\ sync \in [Syncs -> SyncStates]
        /\ blame \in [Fields -> Blames] /\ mishaps \in 0 .. MaxMishaps
  BY DEF InfoTypeOK, AnyChange, Cmds, SyncStates, Blames

LEMMA InfoTyped ==
    ASSUME account' \in Accounts, pending' \in Seq(Commands), copy' \in Seq(Accounts),
           cmd' \in [Commands -> Cmds], sync' \in [Syncs -> SyncStates],
           blame' \in [Fields -> Blames], mishaps' \in 0 .. MaxMishaps
    PROVE  InfoTypeOK'
  BY DEF InfoTypeOK, AnyChange, Cmds, SyncStates, Blames

\* A change is of a field, and its value one of the field's.
LEMMA ChangeOf ==
    ASSUME NEW c \in Commands, NEW change \in Changes[c]
    PROVE  /\ change \in AnyChange /\ change.field \in Fields
           /\ change.value \in Values(change.field) /\ change.value \in STRING
<1>1. change \in [field : Fields, value : STRING]
  BY CpInfoAssumption DEF Fields
<1>2. change \in UNION {Changes[d] : d \in Commands}
  OBVIOUS
<1>3. change.value \in Values(change.field)
  BY <1>2 DEF Values
<1>4. QED
  BY <1>1, <1>2, <1>3 DEF AnyChange

LEMMA AccountChanged ==
    ASSUME NEW c \in Commands, NEW change \in Changes[c], NEW a \in Accounts
    PROVE  /\ [a EXCEPT ![change.field] = change.value] \in Accounts
           /\ \A f \in Fields : [a EXCEPT ![change.field] = change.value][f] =
                  IF f = change.field THEN change.value ELSE a[f]
  BY ChangeOf DEF Accounts

\* What the steps that change neither the account nor what is pending leave.
LEMMA EndsStay ==
    ASSUME pending \in Seq(Commands), pending' = pending, account' = account,
           \A c \in Commands : cmd'[c].change = cmd[c].change
    PROVE  /\ \A f : PendingFor(f)' <=> PendingFor(f)
           /\ \A f, i : i \in DOMAIN pending => (LastAt(f, i)' <=> LastAt(f, i))
           /\ \A f, v : EndsAs(f, v)' <=> EndsAs(f, v)
<1>1. \A i \in DOMAIN pending : pending[i] \in Commands
  OBVIOUS
<1>2. \A f : PendingFor(f)' <=> PendingFor(f)
  BY <1>1 DEF PendingFor
<1>3. \A f, i : i \in DOMAIN pending => (LastAt(f, i)' <=> LastAt(f, i))
  BY <1>1 DEF LastAt, FieldOf
<1>4. \A f, v : EndsAs(f, v)' <=> EndsAs(f, v)
  BY <1>1, <1>2, <1>3 DEF EndsAs, ValueOf
<1>5. QED
  BY <1>2, <1>3, <1>4

\* What remains when a pending change is mined or dropped.
LEMMA EndsWithout ==
    ASSUME pending \in Seq(Commands), pending' \in Seq(Commands), NEW k \in DOMAIN pending,
           Without(pending, pending', k), \A c \in Commands : cmd'[c].change = cmd[c].change
    PROVE  /\ \A f : PendingFor(f)' => PendingFor(f)
           /\ \A f : PendingFor(f) /\ f # FieldOf(pending[k]) => PendingFor(f)'
           /\ \A f, i : i \in DOMAIN pending \ {k} /\ LastAt(f, i) =>
                  \E j \in DOMAIN pending' : pending'[j] = pending[i] /\ LastAt(f, j)'
           /\ \A j \in DOMAIN pending' : \E i \in DOMAIN pending \ {k} : pending'[j] = pending[i]
           /\ (\A i, j \in DOMAIN pending : pending[i] = pending[j] => i = j) =>
                  \A i, j \in DOMAIN pending' : pending'[i] = pending'[j] => i = j
<1> DEFINE old(i) == IF i < k THEN i ELSE i + 1
           new(i) == IF i < k THEN i ELSE i - 1
<1>1. /\ DOMAIN pending = 1 .. Len(pending) /\ DOMAIN pending' = 1 .. Len(pending) - 1
      /\ \A j \in DOMAIN pending' :
             old(j) \in DOMAIN pending \ {k} /\ pending'[j] = pending[old(j)]
      /\ \A i \in DOMAIN pending \ {k} : new(i) \in DOMAIN pending' /\ old(new(i)) = i
      /\ \A i, j \in DOMAIN pending' : old(i) = old(j) => i = j
      /\ \A i \in DOMAIN pending \ {k}, j \in DOMAIN pending' : j > new(i) => old(j) > i
  BY DEF Without
<1>2. \A j \in DOMAIN pending' : cmd'[pending'[j]].change.field = FieldOf(pending[old(j)])
  BY <1>1 DEF FieldOf
<1> HIDE DEF old, new
<1>3. \A f : PendingFor(f)' => PendingFor(f)
  BY <1>1, <1>2 DEF PendingFor, FieldOf
<1>4. \A f : PendingFor(f) /\ f # FieldOf(pending[k]) => PendingFor(f)'
  <2> SUFFICES ASSUME NEW f, PendingFor(f), f # FieldOf(pending[k])
               PROVE  PendingFor(f)'
    OBVIOUS
  <2>1. PICK i \in DOMAIN pending : FieldOf(pending[i]) = f
    BY DEF PendingFor, FieldOf
  <2>2. new(i) \in DOMAIN pending' /\ cmd'[pending'[new(i)]].change.field = f
    BY <1>1, <1>2, <2>1
  <2>3. QED
    BY <2>2 DEF PendingFor, FieldOf
<1>5. ASSUME NEW f, NEW i \in DOMAIN pending \ {k}, LastAt(f, i)
      PROVE  \E j \in DOMAIN pending' : pending'[j] = pending[i] /\ LastAt(f, j)'
  <2>1. new(i) \in DOMAIN pending' /\ pending'[new(i)] = pending[i]
    BY <1>1
  <2>2. cmd'[pending'[new(i)]].change.field = f
    BY <1>1, <1>2, <1>5 DEF LastAt
  <2>3. \A j \in DOMAIN pending' : j > new(i) => cmd'[pending'[j]].change.field # f
    BY <1>1, <1>2, <1>5 DEF LastAt
  <2>4. PICK n \in DOMAIN pending' : n = new(i)
    BY <2>1
  <2>5. LastAt(f, n)'
    BY <2>2, <2>3, <2>4 DEF LastAt, FieldOf
  <2>6. QED
    BY <2>1, <2>4, <2>5
<1>6. \A j \in DOMAIN pending' : \E i \in DOMAIN pending \ {k} : pending'[j] = pending[i]
  BY <1>1
<1>7. (\A i, j \in DOMAIN pending : pending[i] = pending[j] => i = j) =>
          \A i, j \in DOMAIN pending' : pending'[i] = pending'[j] => i = j
  BY <1>1
<1>8. QED
  BY <1>3, <1>4, <1>5, <1>6, <1>7

\* Who has asked for a change has asked for one of his.
LEMMA Asks ==
    ASSUME InfoInv, NEW c \in Commands, cmd[c].at # "none"
    PROVE  /\ cmd[c].change \in Changes[c] /\ FieldOf(c) \in Fields
           /\ \A a \in Accounts :
                  /\ [a EXCEPT ![FieldOf(c)] = ValueOf(c)] \in Accounts
                  /\ \A f \in Fields : [a EXCEPT ![FieldOf(c)] = ValueOf(c)][f] =
                         IF f = FieldOf(c) THEN ValueOf(c) ELSE a[f]
<1>1. cmd[c].change \in Changes[c]
  BY DEF InfoInv, PendingInv
<1>2. QED
  BY <1>1, ChangeOf, AccountChanged DEF FieldOf, ValueOf

LEMMA PendingAsks ==
    ASSUME InfoInv, NEW i \in DOMAIN pending
    PROVE  pending[i] \in Commands /\ cmd[pending[i]].at # "none"
<1>1. pending[i] \in Commands
  BY InfoTypes DEF InfoInv
<1>2. QED
  BY <1>1 DEF InfoInv, PendingInv

\* The types, step by step.
LEMMA InfoTypeStep ==
    ASSUME InfoInv, InfoNext
    PROVE  InfoTypeOK'
<1>1. /\ account \in Accounts /\ pending \in Seq(Commands) /\ copy \in Seq(Accounts)
      /\ cmd \in [Commands -> Cmds] /\ sync \in [Syncs -> SyncStates]
      /\ blame \in [Fields -> Blames] /\ mishaps \in 0 .. MaxMishaps
  BY InfoTypes DEF InfoInv
<1>2. Mishap => mishaps' \in 0 .. MaxMishaps
  BY <1>1, CpInfoAssumption DEF Mishap
<1>3. \A c \in Commands : [cmd EXCEPT ![c].at = "over"] \in [Commands -> Cmds]
  BY <1>1 DEF Cmds
<1>4. \A c \in Commands, tx \in {"mined", "undone"} : [cmd EXCEPT ![c].tx = tx] \in [Commands -> Cmds]
  BY <1>1 DEF Cmds
<1>5. \A f, x : x \in Blames => [blame EXCEPT ![f] = x] \in [Fields -> Blames]
  BY <1>1
<1>6. \A f \in Fields : blame[f] \in Blames
  BY <1>1
<1>7. ASSUME NEW c \in Commands, SendChange(c)
      PROVE  InfoTypeOK'
  <2>1. PICK change \in Changes[c] :
            LET rivals == {d \in Commands : cmd[d].at = "sent" /\ cmd[d].change.field = change.field}
            IN  cmd' = [d \in Commands |->
                    IF d = c THEN [at |-> "sent", change |-> change, tx |-> "pending",
                                   met |-> rivals # {}]
                    ELSE [cmd[d] EXCEPT !.met = @ \/ d \in rivals]]
    BY <1>7 DEF SendChange
  <2>2. change \in AnyChange
    BY ChangeOf
  <2>3. \A b : [at |-> "sent", change |-> change, tx |-> "pending", met |-> b # {}] \in Cmds
    BY <2>2 DEF Cmds
  <2>4. \A d \in Commands : \A b : [cmd[d] EXCEPT !.met = @ \/ d \in b] \in Cmds
    BY <1>1 DEF Cmds
  <2>5. cmd' \in [Commands -> Cmds]
    BY <2>1, <2>3, <2>4
  <2>6. pending' \in Seq(Commands)
    BY <1>1, <1>7 DEF SendChange
  <2>7. QED
    BY <1>1, <1>7, <2>5, <2>6, InfoTyped DEF SendChange
<1>8. ASSUME NEW c \in Commands, UpdateCpInfo(c)
      PROVE  InfoTypeOK'
  <2>1. \A i \in DOMAIN copy : copy[i] \in Accounts
    BY <1>1
  <2>2. \A i \in DOMAIN copy : [copy[i] EXCEPT ![FieldOf(c)] = ValueOf(c)] \in Accounts
    BY <1>8, <2>1, Asks DEF UpdateCpInfo
  <2>3. copy' = [i \in 1 .. Len(copy) |-> [copy[i] EXCEPT ![FieldOf(c)] = ValueOf(c)]]
    BY <1>1, <1>8 DEF UpdateCpInfo, FieldOf, ValueOf
  <2>4. copy' \in Seq(Accounts)
    BY <1>1, <2>2, <2>3
  <2>5. blame' \in [Fields -> Blames]
    <3>1. {cause \in {"crossed"} : cmd[c].met} \cup {cause \in {"undone"} : cmd[c].tx = cause} \in Blames
      BY DEF Blames
    <3>2. QED
      BY <1>5, <1>8, <3>1 DEF UpdateCpInfo
  <2>6. QED
    BY <1>1, <1>3, <1>8, <2>4, <2>5, InfoTyped DEF UpdateCpInfo
<1>9. ASSUME NEW c \in Commands, UpdateCpInfoFails(c)
      PROVE  InfoTypeOK'
  <2>1. blame[FieldOf(c)] \cup {"unsaved"} \in Blames
    BY <1>6, <1>9, Asks DEF UpdateCpInfoFails, Blames
  <2>2. blame' \in [Fields -> Blames]
    BY <1>5, <1>9, <2>1 DEF UpdateCpInfoFails, FieldOf
  <2>3. QED
    BY <1>1, <1>2, <1>3, <1>9, <2>2, InfoTyped DEF UpdateCpInfoFails
<1>10. ASSUME NEW s \in Syncs, ReadAccount(s)
       PROVE  InfoTypeOK'
  <2>1. sync' \in [Syncs -> SyncStates]
    BY <1>1, <1>10 DEF ReadAccount, SyncStates
  <2>2. QED
    BY <1>1, <1>10, <2>1, InfoTyped DEF ReadAccount
<1>11. ASSUME NEW s \in Syncs, DeleteRows(s) \/ DeleteRowsFails(s)
       PROVE  InfoTypeOK'
  <2>0. /\ [sync[s] EXCEPT !.at = "deleted"] \in SyncStates
        /\ [[sync[s] EXCEPT !.at = "deleted"] EXCEPT !.kept = TRUE] \in SyncStates
    BY <1>1 DEF SyncStates
  <2>1. sync' \in [Syncs -> SyncStates]
    BY <1>1, <1>11, <2>0 DEF DeleteRows, DeleteRowsFails
  <2>2. copy' \in Seq(Accounts) /\ mishaps' \in 0 .. MaxMishaps
    <3>1. CASE DeleteRows(s)
      BY <1>1, <3>1 DEF DeleteRows
    <3>2. CASE DeleteRowsFails(s)
      BY <1>1, <1>2, <3>2 DEF DeleteRowsFails
    <3>3. QED
      BY <1>11, <3>1, <3>2
  <2>3. QED
    BY <1>1, <1>11, <2>1, <2>2, InfoTyped DEF DeleteRows, DeleteRowsFails
<1>12. ASSUME NEW s \in Syncs, InsertRow(s)
       PROVE  InfoTypeOK'
  <2>1. sync' \in [Syncs -> SyncStates]
    BY <1>1, <1>12 DEF InsertRow, SyncStates
  <2>2. sync[s].read \in Accounts
    BY <1>1 DEF SyncStates
  <2>3. copy' \in Seq(Accounts)
    BY <1>1, <1>12, <2>2 DEF InsertRow
  <2>4. \A f \in Fields :
            (IF sync[s].kept THEN blame[f] \cup {"kept"} ELSE {})
                \cup {cause \in {"met"} : sync[s].met}
                \cup {cause \in {"stale"} : PendingFor(f) \/ sync[s].read[f] # account[f]} \in Blames
    BY <1>6 DEF Blames
  <2>5. blame' \in [Fields -> Blames]
    BY <1>12, <2>4 DEF InsertRow
  <2>6. QED
    BY <1>1, <1>12, <2>1, <2>3, <2>5, InfoTyped DEF InsertRow
<1>13. ASSUME NEW s \in Syncs, InsertRowFails(s)
       PROVE  InfoTypeOK'
  <2>1. sync' \in [Syncs -> SyncStates]
    BY <1>1, <1>13 DEF InsertRowFails, SyncStates
  <2>2. QED
    BY <1>1, <1>2, <1>13, <2>1, InfoTyped DEF InsertRowFails
<1>14. ASSUME NEW i \in DOMAIN pending, Undo(pending[i])
       PROVE  cmd' \in [Commands -> Cmds] /\ blame' \in [Fields -> Blames]
  <2>1. PICK c \in Commands : c = pending[i] /\ FieldOf(c) \in Fields
    BY PendingAsks, Asks
  <2>2. blame[FieldOf(c)] \cup {cause \in {"undone"} : cmd[c].at = "over"} \in Blames
    BY <1>6, <2>1 DEF Blames
  <2>3. QED
    BY <1>4, <1>5, <1>14, <2>1, <2>2 DEF Undo, FieldOf
<1>15. CASE MineChange
  <2>1. 1 \in DOMAIN pending /\ Head(pending) = pending[1] /\ pending' = Tail(pending)
    BY <1>1, <1>15 DEF MineChange
  <2>2. pending' \in Seq(Commands)
    BY <1>1, <1>15 DEF MineChange
  <2>3. PICK c \in Commands : c = pending[1] /\ cmd[c].at # "none"
    BY <2>1, PendingAsks
  <2>4. cmd' \in [Commands -> Cmds] /\ blame' \in [Fields -> Blames]
    <3>1. \/ cmd' = [cmd EXCEPT ![c].tx = "mined"] /\ blame' = blame
          \/ Undo(pending[1])
      BY <1>15, <2>1, <2>3 DEF MineChange
    <3>2. QED
      BY <1>1, <1>4, <1>14, <2>1, <3>1
  <2>5. account' \in Accounts
    <3>1. \/ account' = account
          \/ account' = [account EXCEPT ![FieldOf(c)] = ValueOf(c)]
      BY <1>15, <2>1, <2>3 DEF MineChange, FieldOf, ValueOf
    <3>2. QED
      BY <1>1, <2>3, <3>1, Asks
  <2>6. QED
    BY <1>1, <1>15, <2>2, <2>4, <2>5, InfoTyped DEF MineChange
<1>16. CASE DropChange
  <2>1. PICK i \in DOMAIN pending : pending' = RemoveAt(pending, i) /\ Undo(pending[i])
    BY <1>16 DEF DropChange
  <2>2. pending' \in Seq(Commands)
    BY <1>1, <2>1, RemoveAtIsWithout
  <2>3. QED
    BY <1>1, <1>2, <1>14, <1>16, <2>1, <2>2, InfoTyped DEF DropChange
<1>17. QED
  BY <1>7, <1>8, <1>9, <1>10, <1>11, <1>12, <1>13, <1>15, <1>16 DEF InfoNext

\* A command sends a change: what it has sent is the last of its field.
LEMMA SendStep ==
    ASSUME InfoInv, InfoTypeOK', NEW c \in Commands, SendChange(c)
    PROVE  PendingInv' /\ SentInv' /\ CopyInv'
<1>1. /\ InfoTypeOK' /\ pending \in Seq(Commands) /\ copy \in Seq(Accounts)
      /\ cmd \in [Commands -> Cmds] /\ sync \in [Syncs -> SyncStates]
      /\ blame \in [Fields -> Blames] /\ pending' \in Seq(Commands)
  BY InfoTypes DEF InfoInv, InfoTypeOK
<1>2. /\ \A i \in DOMAIN pending : cmd[pending[i]].tx = "pending"
      /\ \A i, j \in DOMAIN pending : pending[i] = pending[j] => i = j
      /\ \A e \in Commands :
             IF cmd[e].at = "none" THEN cmd[e].tx = "none"
             ELSE cmd[e].tx # "none" /\ cmd[e].change \in Changes[e]
  BY DEF InfoInv, PendingInv
<1>3. \A e \in Commands : cmd[e].at = "sent" /\ ~cmd[e].met =>
          /\ \A d \in Commands \ {e} : cmd[d].at = "sent" => FieldOf(d) # FieldOf(e)
          /\ cmd[e].tx = "pending" => \E i \in DOMAIN pending : pending[i] = e /\ LastAt(FieldOf(e), i)
          /\ cmd[e].tx = "mined" => ~PendingFor(FieldOf(e)) /\ account[FieldOf(e)] = ValueOf(e)
  BY DEF InfoInv, SentInv
<1>4. copy # <<>> => \A f \in Fields : Follows(f)
  BY DEF InfoInv, CopyInv
<1>5. \A i \in DOMAIN pending : pending[i] \in Commands
  BY <1>1
<1>6. copy # <<>> => 1 \in DOMAIN copy /\ copy[1] \in Accounts
  BY <1>1
<1>7. PICK change \in Changes[c] :
          LET rivals == {d \in Commands : cmd[d].at = "sent" /\ cmd[d].change.field = change.field}
          IN  cmd' = [d \in Commands |->
                  IF d = c THEN [at |-> "sent", change |-> change, tx |-> "pending",
                                 met |-> rivals # {}]
                  ELSE [cmd[d] EXCEPT !.met = @ \/ d \in rivals]]
  BY DEF SendChange
<1> DEFINE f == change.field
<1>8. /\ cmd'[c].at = "sent" /\ cmd'[c].change = change /\ cmd'[c].tx = "pending"
      /\ ~cmd'[c].met => \A d \in Commands : ~(cmd[d].at = "sent" /\ FieldOf(d) = f)
  BY <1>1, <1>7 DEF Cmds, FieldOf
<1>9. \A d \in Commands \ {c} :
          /\ cmd'[d].at = cmd[d].at /\ cmd'[d].change = cmd[d].change /\ cmd'[d].tx = cmd[d].tx
          /\ ~cmd'[d].met => ~cmd[d].met /\ ~(cmd[d].at = "sent" /\ FieldOf(d) = f)
  BY <1>1, <1>7 DEF Cmds, FieldOf
<1>10. /\ cmd[c].at = "none" /\ cmd[c].tx = "none"
       /\ pending' = Append(pending, c) /\ UNCHANGED <<account, copy, blame>>
  BY <1>2 DEF SendChange
<1>11. \A i \in DOMAIN pending : pending[i] # c
  BY <1>2, <1>10
<1> DEFINE newest == Len(pending) + 1
<1>12. /\ DOMAIN pending' = DOMAIN pending \cup {newest} /\ pending'[newest] = c
       /\ \A i \in DOMAIN pending : pending'[i] = pending[i] /\ i < newest /\ ~(i > newest)
       /\ newest \notin DOMAIN pending /\ ~(newest > newest)
  BY <1>1, <1>10
<1> HIDE DEF newest
<1>13. \A i \in DOMAIN pending : cmd'[pending[i]].change = cmd[pending[i]].change
  BY <1>5, <1>9, <1>11
<1>14. PendingInv'
  BY <1>2, <1>5, <1>8, <1>9, <1>11, <1>12 DEF PendingInv
<1>15. \A g, i : i \in DOMAIN pending /\ g # f /\ LastAt(g, i) => LastAt(g, i)'
  BY <1>8, <1>12, <1>13 DEF LastAt, FieldOf
<1>16. \A g : g # f => (PendingFor(g)' <=> PendingFor(g))
  BY <1>8, <1>12, <1>13 DEF PendingFor
<1>17. PICK n \in DOMAIN pending' : n = newest
  BY <1>12
<1>18. pending'[n] = c /\ LastAt(f, n)'
  BY <1>8, <1>12, <1>17 DEF LastAt, FieldOf
<1> HIDE DEF f
<1>19. FieldOf(c)' = f /\ \A d \in Commands \ {c} : FieldOf(d)' = FieldOf(d) /\ ValueOf(d)' = ValueOf(d)
  BY <1>8, <1>9 DEF FieldOf, ValueOf, f
<1>20. SentInv'
  <2> SUFFICES ASSUME NEW d \in Commands, cmd'[d].at = "sent", ~cmd'[d].met
               PROVE  /\ \A e \in Commands \ {d} : cmd'[e].at = "sent" => FieldOf(e)' # FieldOf(d)'
                      /\ cmd'[d].tx = "pending" =>
                             \E i \in DOMAIN pending' : pending'[i] = d /\ LastAt(FieldOf(d), i)'
                      /\ cmd'[d].tx = "mined" =>
                             ~PendingFor(FieldOf(d))' /\ account'[FieldOf(d)'] = ValueOf(d)'
    BY DEF SentInv
  <2>1. CASE d = c
    <3>1. \A e \in Commands \ {d} : cmd'[e].at = "sent" => FieldOf(e)' # FieldOf(d)'
      BY <1>8, <1>9, <1>19, <2>1
    <3>2. LastAt(FieldOf(d), n)'
      BY <1>18, <1>19, <2>1 DEF LastAt
    <3>3. QED
      BY <1>8, <1>18, <2>1, <3>1, <3>2
  <2>2. CASE d # c
    <3>1. cmd[d].at = "sent" /\ ~cmd[d].met /\ FieldOf(d) # f /\ cmd'[d].tx = cmd[d].tx
      BY <1>9, <2>2
    <3>2. \A e \in Commands \ {d} : cmd'[e].at = "sent" => FieldOf(e)' # FieldOf(d)'
      BY <1>3, <1>9, <1>19, <2>2, <3>1
    <3>3. PICK g : g = FieldOf(d)
      OBVIOUS
    <3>4. g = FieldOf(d)' /\ g # f
      BY <1>19, <2>2, <3>1, <3>3
    <3>5. ASSUME cmd[d].tx = "pending"
          PROVE  \E i \in DOMAIN pending' : pending'[i] = d /\ LastAt(g, i)'
      <4>1. PICK i \in DOMAIN pending : pending[i] = d /\ LastAt(FieldOf(d), i)
        BY <1>3, <3>1, <3>5
      <4>2. LastAt(g, i)
        BY <3>3, <4>1
      <4>3. LastAt(g, i)' /\ i \in DOMAIN pending' /\ pending'[i] = d
        BY <1>12, <1>15, <3>4, <4>1, <4>2
      <4>4. QED
        BY <4>3
    <3>6. cmd[d].tx = "mined" => ~PendingFor(g)' /\ account'[g] = ValueOf(d)'
      BY <1>3, <1>10, <1>16, <1>19, <2>2, <3>1, <3>3, <3>4
    <3>7. QED
      BY <3>1, <3>2, <3>4, <3>5, <3>6 DEF LastAt, PendingFor
  <2>3. QED
    BY <2>1, <2>2
<1>21. ASSUME copy' # <<>>, NEW g \in Fields
       PROVE  Follows(g)'
  <2>1. CASE g = f
    BY <1>8, <1>19, <2>1 DEF Follows
  <2>2. CASE g # f /\ \E d \in Commands : cmd[d].at = "sent" /\ FieldOf(d) = g
    <3>1. PICK d \in Commands : cmd[d].at = "sent" /\ FieldOf(d) = g
      BY <2>2
    <3>2. d # c
      BY <1>10, <3>1
    <3>3. QED
      BY <1>9, <1>19, <3>1, <3>2 DEF Follows
  <2>3. CASE g # f /\ EndsAs(g, copy[1][g])
    <3>1. EndsAs(g, copy[1][g])'
      <4>1. CASE PendingFor(g)
        <5>1. PICK i \in DOMAIN pending : LastAt(g, i) /\ copy[1][g] = ValueOf(pending[i])
          BY <2>3, <4>1 DEF EndsAs
        <5>2. LastAt(g, i)' /\ ValueOf(pending[i]) = cmd'[pending'[i]].change.value /\ i \in DOMAIN pending'
          BY <1>12, <1>13, <1>15, <2>3, <5>1 DEF ValueOf
        <5>3. QED
          BY <1>10, <1>16, <2>3, <4>1, <5>1, <5>2 DEF EndsAs, ValueOf
      <4>2. CASE ~PendingFor(g)
        BY <1>10, <1>16, <2>3, <4>2 DEF EndsAs
      <4>3. QED
        BY <4>1, <4>2
    <3>2. QED
      BY <3>1 DEF Follows
  <2>4. CASE blame[g] # {}
    BY <1>10, <2>4 DEF Follows
  <2>5. QED
    BY <1>4, <1>10, <1>21, <2>1, <2>2, <2>3, <2>4 DEF Follows
<1>22. QED
  BY <1>14, <1>20, <1>21 DEF CopyInv

\* A command writes the copy, or cannot: what it writes is what the field will be.
LEMMA UpdateStep ==
    ASSUME InfoInv, InfoTypeOK', NEW c \in Commands, UpdateCpInfo(c) \/ UpdateCpInfoFails(c)
    PROVE  PendingInv' /\ SentInv' /\ CopyInv'
<1>1. /\ pending \in Seq(Commands) /\ copy \in Seq(Accounts)
      /\ cmd \in [Commands -> Cmds] /\ blame \in [Fields -> Blames]
  BY InfoTypes DEF InfoInv
<1>2. /\ cmd[c].at = "sent" /\ cmd'[c].at = "over" /\ account' = account /\ pending' = pending
      /\ \A d \in Commands \ {c} : cmd'[d] = cmd[d]
      /\ \A d \in Commands : /\ cmd'[d].change = cmd[d].change /\ cmd'[d].tx = cmd[d].tx
                             /\ cmd'[d].at = "none" => cmd[d].at = "none"
                             /\ cmd[d].at = "none" => cmd'[d].at = "none"
  BY <1>1 DEF UpdateCpInfo, UpdateCpInfoFails, Cmds
<1>3. /\ \A g : PendingFor(g)' <=> PendingFor(g)
      /\ \A g, i : i \in DOMAIN pending => (LastAt(g, i)' <=> LastAt(g, i))
      /\ \A g, v : EndsAs(g, v)' <=> EndsAs(g, v)
  BY <1>1, <1>2, EndsStay
<1>4. \A d \in Commands : FieldOf(d)' = FieldOf(d) /\ ValueOf(d)' = ValueOf(d)
  BY <1>2 DEF FieldOf, ValueOf
<1>5. \A i \in DOMAIN pending : pending[i] \in Commands
  BY <1>1
<1>6. PendingInv'
  BY <1>2, <1>5 DEF InfoInv, PendingInv
<1>7. SentInv'
  <2> SUFFICES ASSUME NEW d \in Commands, cmd'[d].at = "sent", ~cmd'[d].met
               PROVE  /\ \A e \in Commands \ {d} : cmd'[e].at = "sent" => FieldOf(e)' # FieldOf(d)'
                      /\ cmd'[d].tx = "pending" =>
                             \E i \in DOMAIN pending' : pending'[i] = d /\ LastAt(FieldOf(d), i)'
                      /\ cmd'[d].tx = "mined" =>
                             ~PendingFor(FieldOf(d))' /\ account'[FieldOf(d)'] = ValueOf(d)'
    BY DEF SentInv
  <2>1. d # c /\ cmd[d] = cmd'[d]
    BY <1>2
  <2>2. /\ \A e \in Commands \ {d} : cmd[e].at = "sent" => FieldOf(e) # FieldOf(d)
        /\ cmd[d].tx = "pending" => \E i \in DOMAIN pending : pending[i] = d /\ LastAt(FieldOf(d), i)
        /\ cmd[d].tx = "mined" => ~PendingFor(FieldOf(d)) /\ account[FieldOf(d)] = ValueOf(d)
    BY <2>1 DEF InfoInv, SentInv
  <2>3. \A e \in Commands \ {d} : cmd'[e].at = "sent" => FieldOf(e)' # FieldOf(d)'
    BY <1>2, <1>4, <2>2
  <2>4. PICK g : g = FieldOf(d)
    OBVIOUS
  <2>5. g = FieldOf(d)'
    BY <1>4, <2>4
  <2>6. ASSUME cmd[d].tx = "pending"
        PROVE  \E i \in DOMAIN pending' : pending'[i] = d /\ LastAt(g, i)'
    <3>1. PICK i \in DOMAIN pending : pending[i] = d /\ LastAt(FieldOf(d), i)
      BY <2>2, <2>6
    <3>2. LastAt(g, i)
      BY <2>4, <3>1
    <3>3. QED
      BY <1>2, <1>3, <3>1, <3>2
  <2>7. cmd[d].tx = "mined" => ~PendingFor(g)' /\ account'[g] = ValueOf(d)'
    BY <1>2, <1>3, <1>4, <2>2, <2>4
  <2>8. QED
    BY <2>1, <2>3, <2>5, <2>6, <2>7 DEF LastAt, PendingFor
<1>8. ASSUME copy' # <<>>, NEW g \in Fields
      PROVE  Follows(g)'
  <2>1. /\ copy # <<>> /\ 1 \in DOMAIN copy /\ copy[1] \in Accounts
        /\ copy' = copy \/ UpdateCpInfo(c)
    BY <1>1, <1>8 DEF UpdateCpInfo, UpdateCpInfoFails
  <2>2. FieldOf(c) \in Fields /\ \A a \in Accounts : \A f \in Fields :
            [a EXCEPT ![FieldOf(c)] = ValueOf(c)][f] = IF f = FieldOf(c) THEN ValueOf(c) ELSE a[f]
    BY <1>2, Asks
  <2>3. copy'[1][g] = IF UpdateCpInfo(c) /\ g = FieldOf(c) THEN ValueOf(c) ELSE copy[1][g]
    <3>1. CASE UpdateCpInfo(c)
      <4>1. copy'[1] = [copy[1] EXCEPT ![FieldOf(c)] = ValueOf(c)]
        BY <2>1, <3>1 DEF UpdateCpInfo, FieldOf, ValueOf
      <4>2. QED
        BY <2>1, <2>2, <3>1, <4>1
    <3>2. CASE ~UpdateCpInfo(c)
      BY <2>1, <3>2
    <3>3. QED
      BY <3>1, <3>2
  <2>4. CASE g # FieldOf(c)
    <3>1. blame'[g] = blame[g]
      BY <1>1, <2>4 DEF UpdateCpInfo, UpdateCpInfoFails, FieldOf
    <3>2. copy'[1][g] = copy[1][g]
      BY <2>3, <2>4
    <3>3. Follows(g)
      BY <2>1 DEF InfoInv, CopyInv
    <3>4. CASE EndsAs(g, copy[1][g])
      <4>1. PICK v : v = copy[1][g]
        OBVIOUS
      <4>2. EndsAs(g, v)' /\ v = copy'[1][g]
        BY <1>3, <3>2, <3>4, <4>1
      <4>3. QED
        BY <4>2 DEF Follows, EndsAs
    <3>5. CASE \E d \in Commands : cmd[d].at = "sent" /\ FieldOf(d) = g
      BY <1>2, <1>4, <2>4, <3>5 DEF Follows
    <3>6. CASE blame[g] # {}
      BY <3>1, <3>6 DEF Follows
    <3>7. QED
      BY <3>3, <3>4, <3>5, <3>6 DEF Follows
  <2>5. CASE g = FieldOf(c) /\ UpdateCpInfoFails(c)
    <3>1. "unsaved" \in blame'[g]
      BY <1>1, <2>5 DEF UpdateCpInfoFails, FieldOf
    <3>2. QED
      BY <3>1 DEF Follows
  <2>6. CASE g = FieldOf(c) /\ UpdateCpInfo(c)
    <3>1. blame'[g] = {cause \in {"crossed"} : cmd[c].met} \cup {cause \in {"undone"} : cmd[c].tx = cause}
      BY <1>1, <2>6 DEF UpdateCpInfo, FieldOf
    <3>2. CASE cmd[c].met \/ cmd[c].tx = "undone"
      <4>1. "crossed" \in blame'[g] \/ "undone" \in blame'[g]
        BY <3>1, <3>2
      <4>2. QED
        BY <4>1 DEF Follows
    <3>3. CASE ~cmd[c].met /\ cmd[c].tx # "undone"
      <4>1. cmd[c].tx \in {"pending", "mined"}
        BY <1>1, <1>2, <3>3 DEF InfoInv, PendingInv, Cmds
      <4>2. EndsAs(g, ValueOf(c))
        <5>1. CASE cmd[c].tx = "pending"
          <6>1. PICK i \in DOMAIN pending : pending[i] = c /\ LastAt(FieldOf(c), i)
            BY <1>2, <3>3, <5>1 DEF InfoInv, SentInv
          <6>2. LastAt(g, i) /\ PendingFor(g)
            BY <2>6, <6>1 DEF LastAt, PendingFor, FieldOf
          <6>3. QED
            BY <6>1, <6>2 DEF EndsAs
        <5>2. CASE cmd[c].tx = "mined"
          <6>1. ~PendingFor(FieldOf(c)) /\ account[FieldOf(c)] = ValueOf(c)
            BY <1>2, <3>3, <5>2 DEF InfoInv, SentInv
          <6>2. QED
            BY <2>6, <6>1 DEF EndsAs
        <5>3. QED
          BY <4>1, <5>1, <5>2
      <4>3. PICK v : v = ValueOf(c)
        OBVIOUS
      <4>4. EndsAs(g, v)' /\ v = copy'[1][g]
        BY <1>3, <2>3, <2>6, <4>2, <4>3
      <4>5. QED
        BY <4>4 DEF Follows, EndsAs
    <3>4. QED
      BY <3>2, <3>3
  <2>7. QED
    BY <2>4, <2>5, <2>6
<1>9. QED
  BY <1>6, <1>7, <1>8 DEF CopyInv

\* The chain takes a change, or it is refused or dropped.
LEMMA ChainStep ==
    ASSUME InfoInv, InfoTypeOK', NEW k \in DOMAIN pending, Without(pending, pending', k),
           copy' = copy, NEW h \in Commands, h = pending[k],
           \/ /\ k = 1
              /\ cmd' = [cmd EXCEPT ![h].tx = "mined"]
              /\ account' = [account EXCEPT ![FieldOf(h)] = ValueOf(h)]
              /\ blame' = blame
           \/ Undo(h) /\ account' = account
    PROVE  PendingInv' /\ SentInv' /\ CopyInv'
<1>1. /\ pending \in Seq(Commands) /\ pending' \in Seq(Commands) /\ account \in Accounts
      /\ cmd \in [Commands -> Cmds] /\ blame \in [Fields -> Blames]
  BY InfoTypes DEF InfoInv, InfoTypeOK
<1>2. cmd[h].at # "none" /\ FieldOf(h) \in Fields
  BY PendingAsks, Asks
<1>3. /\ \A d \in Commands \ {h} : cmd'[d] = cmd[d]
      /\ \A d \in Commands : /\ cmd'[d].at = cmd[d].at /\ cmd'[d].change = cmd[d].change
                             /\ cmd'[d].met = cmd[d].met
      /\ cmd'[h].tx \in {"mined", "undone"}
      /\ cmd'[h].tx = "mined" =>
             k = 1 /\ account' = [account EXCEPT ![FieldOf(h)] = ValueOf(h)]
      /\ cmd'[h].tx = "undone" =>
             blame' = [blame EXCEPT ![FieldOf(h)] = @ \cup {cause \in {"undone"} : cmd[h].at = "over"}]
      /\ \A g \in Fields \ {FieldOf(h)} : account'[g] = account[g] /\ blame'[g] = blame[g]
      /\ \A g \in Fields : blame[g] # {} => blame'[g] # {}
  <2>1. CASE Undo(h) /\ account' = account
    BY <1>1, <1>2, <2>1 DEF Undo, Cmds, FieldOf
  <2>2. CASE /\ k = 1
             /\ cmd' = [cmd EXCEPT ![h].tx = "mined"]
             /\ account' = [account EXCEPT ![FieldOf(h)] = ValueOf(h)]
             /\ blame' = blame
    <3>1. \A g \in Fields \ {FieldOf(h)} : account'[g] = account[g]
      BY <1>1, <1>2, <2>2, Asks
    <3>2. /\ \A d \in Commands \ {h} : cmd'[d] = cmd[d]
          /\ \A d \in Commands : /\ cmd'[d].at = cmd[d].at /\ cmd'[d].change = cmd[d].change
                                 /\ cmd'[d].met = cmd[d].met
          /\ cmd'[h].tx = "mined"
      BY <1>1, <2>2 DEF Cmds
    <3>3. QED
      BY <2>2, <3>1, <3>2
  <2>3. QED
    BY <2>1, <2>2
<1>4. /\ \A g : PendingFor(g)' => PendingFor(g)
      /\ \A g : PendingFor(g) /\ g # FieldOf(h) => PendingFor(g)'
      /\ \A g, i : i \in DOMAIN pending \ {k} /\ LastAt(g, i) =>
             \E j \in DOMAIN pending' : pending'[j] = pending[i] /\ LastAt(g, j)'
      /\ \A j \in DOMAIN pending' : \E i \in DOMAIN pending \ {k} : pending'[j] = pending[i]
      /\ \A i, j \in DOMAIN pending' : pending'[i] = pending'[j] => i = j
  BY <1>1, <1>3, EndsWithout DEF InfoInv, PendingInv
<1>5. \A d \in Commands : FieldOf(d)' = FieldOf(d) /\ ValueOf(d)' = ValueOf(d)
  BY <1>3 DEF FieldOf, ValueOf
<1>6. \A j \in DOMAIN pending' : pending'[j] \in Commands \ {h} /\ cmd[pending'[j]].tx = "pending"
  BY <1>1, <1>4 DEF InfoInv, PendingInv
<1>7. PendingInv'
  BY <1>2, <1>3, <1>4, <1>6 DEF InfoInv, PendingInv
<1>8. PendingFor(FieldOf(h))
  BY DEF PendingFor, FieldOf
<1>9. ASSUME k = 1, LastAt(FieldOf(h), k), NEW g, g = FieldOf(h)
      PROVE  ~PendingFor(g)'
  <2>1. SUFFICES ASSUME NEW j \in DOMAIN pending', cmd'[pending'[j]].change.field = g
                 PROVE  FALSE
    BY DEF PendingFor
  <2>2. PICK i \in DOMAIN pending \ {k} : pending'[j] = pending[i]
    BY <1>4
  <2>3. FieldOf(pending[i]) = g /\ i > k
    BY <1>1, <1>3, <1>6, <1>9, <2>1, <2>2 DEF FieldOf
  <2>4. QED
    BY <1>9, <2>3 DEF LastAt
<1>10. SentInv'
  <2> SUFFICES ASSUME NEW d \in Commands, cmd'[d].at = "sent", ~cmd'[d].met
               PROVE  /\ \A e \in Commands \ {d} : cmd'[e].at = "sent" => FieldOf(e)' # FieldOf(d)'
                      /\ cmd'[d].tx = "pending" =>
                             \E i \in DOMAIN pending' : pending'[i] = d /\ LastAt(FieldOf(d), i)'
                      /\ cmd'[d].tx = "mined" =>
                             ~PendingFor(FieldOf(d))' /\ account'[FieldOf(d)'] = ValueOf(d)'
    BY DEF SentInv
  <2>1. cmd[d].at = "sent" /\ ~cmd[d].met
    BY <1>3
  <2>2. /\ \A e \in Commands \ {d} : cmd[e].at = "sent" => FieldOf(e) # FieldOf(d)
        /\ cmd[d].tx = "pending" => \E i \in DOMAIN pending : pending[i] = d /\ LastAt(FieldOf(d), i)
        /\ cmd[d].tx = "mined" => ~PendingFor(FieldOf(d)) /\ account[FieldOf(d)] = ValueOf(d)
    BY <2>1 DEF InfoInv, SentInv
  <2>3. \A e \in Commands \ {d} : cmd'[e].at = "sent" => FieldOf(e)' # FieldOf(d)'
    BY <1>3, <1>5, <2>2
  <2>4. PICK g : g = FieldOf(d)
    OBVIOUS
  <2>5. g = FieldOf(d)'
    BY <1>5, <2>4
  <2>6. ASSUME cmd'[d].tx = "pending"
        PROVE  \E i \in DOMAIN pending' : pending'[i] = d /\ LastAt(g, i)'
    <3>1. d # h /\ cmd[d].tx = "pending"
      BY <1>3, <2>6
    <3>2. PICK i \in DOMAIN pending : pending[i] = d /\ LastAt(FieldOf(d), i)
      BY <2>2, <3>1
    <3>3. LastAt(g, i) /\ i # k
      BY <2>4, <3>1, <3>2
    <3>4. QED
      BY <1>4, <3>2, <3>3
  <2>7. ASSUME cmd'[d].tx = "mined"
        PROVE  ~PendingFor(g)' /\ account'[g] = ValueOf(d)'
    <3>1. CASE d = h
      <4>1. PICK i \in DOMAIN pending : pending[i] = h /\ LastAt(FieldOf(h), i)
        BY <2>2, <3>1 DEF InfoInv, PendingInv
      <4>2. i = k
        BY <4>1 DEF InfoInv, PendingInv
      <4>3. LastAt(FieldOf(h), k)
        BY <4>1, <4>2
      <4>4. k = 1 /\ account' = [account EXCEPT ![FieldOf(h)] = ValueOf(h)]
        BY <1>3, <2>7, <3>1
      <4>5. account'[g] = ValueOf(h)
        BY <1>1, <1>2, <2>4, <3>1, <4>4, Asks
      <4>6. ~PendingFor(g)'
        BY <1>9, <2>4, <3>1, <4>3, <4>4
      <4>7. QED
        BY <1>5, <3>1, <4>5, <4>6
    <3>2. CASE d # h
      <4>1. ~PendingFor(FieldOf(d)) /\ account[FieldOf(d)] = ValueOf(d) /\ FieldOf(d) \in Fields
        BY <1>3, <2>1, <2>2, <2>7, <3>2, Asks
      <4>2. g # FieldOf(h) /\ g \in Fields
        BY <1>8, <2>4, <4>1
      <4>3. QED
        BY <1>3, <1>4, <1>5, <2>4, <4>1, <4>2
    <3>3. QED
      BY <3>1, <3>2
  <2>8. QED
    BY <2>3, <2>5, <2>6, <2>7 DEF LastAt, PendingFor
<1>11. ASSUME copy' # <<>>, NEW g \in Fields
       PROVE  Follows(g)'
  <2>1. Follows(g)
    BY <1>11 DEF InfoInv, CopyInv
  <2>2. CASE blame[g] # {}
    BY <1>3, <2>2 DEF Follows
  <2>3. CASE \E d \in Commands : cmd[d].at = "sent" /\ FieldOf(d) = g
    BY <1>3, <1>5, <2>3 DEF Follows
  <2>4. PICK v : v = copy[1][g]
    OBVIOUS
  <2>5. CASE EndsAs(g, v) /\ g # FieldOf(h)
    <3>1. EndsAs(g, v)'
      <4>1. CASE PendingFor(g)
        <5>1. PICK i \in DOMAIN pending : LastAt(g, i) /\ v = ValueOf(pending[i])
          BY <2>5, <4>1 DEF EndsAs
        <5>2. i # k
          BY <2>5, <5>1 DEF LastAt
        <5>3. PICK j \in DOMAIN pending' : pending'[j] = pending[i] /\ LastAt(g, j)'
          BY <1>4, <5>1, <5>2
        <5>4. v = cmd'[pending'[j]].change.value
          BY <1>3, <1>6, <5>1, <5>3 DEF ValueOf
        <5>5. QED
          BY <1>4, <2>5, <4>1, <5>3, <5>4 DEF EndsAs, ValueOf
      <4>2. CASE ~PendingFor(g)
        BY <1>3, <1>4, <2>5, <4>2 DEF EndsAs
      <4>3. QED
        BY <4>1, <4>2
    <3>2. QED
      BY <2>4, <3>1 DEF Follows, EndsAs
  <2>6. CASE EndsAs(g, v) /\ g = FieldOf(h) /\ cmd'[h].tx = "undone"
    <3>1. CASE cmd[h].at = "over"
      <4>1. "undone" \in blame'[g]
        BY <1>1, <1>3, <2>6, <3>1
      <4>2. QED
        BY <4>1 DEF Follows
    <3>2. CASE cmd[h].at = "sent"
      BY <1>3, <1>5, <2>6, <3>2 DEF Follows
    <3>3. QED
      BY <1>1, <1>2, <3>1, <3>2 DEF Cmds
  <2>7. CASE EndsAs(g, v) /\ g = FieldOf(h) /\ cmd'[h].tx = "mined"
    <3>1. k = 1 /\ account'[g] = ValueOf(h)
      BY <1>1, <1>2, <1>3, <2>7, Asks
    <3>2. PICK i \in DOMAIN pending : LastAt(g, i) /\ v = ValueOf(pending[i])
      BY <1>8, <2>7 DEF EndsAs
    <3>3. CASE i = k
      <4>1. LastAt(FieldOf(h), k)
        BY <2>7, <3>2, <3>3
      <4>2. ~PendingFor(g)'
        BY <1>9, <2>7, <3>1, <4>1
      <4>3. v = account'[g]
        BY <3>1, <3>2, <3>3
      <4>4. EndsAs(g, v)'
        BY <4>2, <4>3 DEF EndsAs
      <4>5. QED
        BY <2>4, <4>4 DEF Follows, EndsAs
    <3>4. CASE i # k
      <4>1. PICK j \in DOMAIN pending' : pending'[j] = pending[i] /\ LastAt(g, j)'
        BY <1>4, <3>2, <3>4
      <4>2. v = cmd'[pending'[j]].change.value /\ PendingFor(g)'
        BY <1>3, <1>6, <3>2, <4>1 DEF ValueOf, PendingFor, LastAt, FieldOf
      <4>3. EndsAs(g, v)'
        BY <4>1, <4>2 DEF EndsAs, ValueOf
      <4>4. QED
        BY <2>4, <4>3 DEF Follows, EndsAs
    <3>5. QED
      BY <3>3, <3>4
  <2>8. QED
    BY <1>3, <2>1, <2>2, <2>3, <2>4, <2>5, <2>6, <2>7 DEF Follows
<1>12. QED
  BY <1>7, <1>10, <1>11 DEF CopyInv

\* A sync that has met no other one finds the rows it has deleted gone.
LEMMA SyncStep ==
    ASSUME InfoInv, InfoNext
    PROVE  SyncInv'
<1>1. sync \in [Syncs -> SyncStates] /\ copy \in Seq(Accounts)
  BY InfoTypes DEF InfoInv
<1>2. \A s \in Syncs : sync[s].at \in {"read", "deleted"} /\ ~sync[s].met =>
          /\ \A t \in Syncs \ {s} : sync[t].at \notin {"read", "deleted"}
          /\ sync[s].at = "deleted" /\ ~sync[s].kept => copy = <<>>
  BY DEF InfoInv, SyncInv
<1>3. ASSUME sync' = sync, copy = <<>> => copy' = <<>>
      PROVE  SyncInv'
  BY <1>2, <1>3 DEF SyncInv
<1>4. ASSUME NEW s \in Syncs, ReadAccount(s)
      PROVE  SyncInv'
  <2>1. /\ sync'[s].at = "read" /\ copy' = copy
        /\ ~sync'[s].met => \A t \in Syncs : sync[t].at \notin {"read", "deleted"}
        /\ \A t \in Syncs \ {s} :
               /\ sync'[t].at = sync[t].at /\ sync'[t].kept = sync[t].kept
               /\ ~sync'[t].met => ~sync[t].met /\ sync[t].at \notin {"read", "deleted"}
    BY <1>1, <1>4 DEF ReadAccount, SyncStates
  <2>2. QED
    BY <1>2, <2>1 DEF SyncInv
<1>5. ASSUME NEW s \in Syncs, DeleteRows(s) \/ DeleteRowsFails(s)
      PROVE  SyncInv'
  <2>1. /\ sync[s].at = "read" /\ sync'[s].at = "deleted" /\ sync'[s].met = sync[s].met
        /\ copy' = <<>> \/ (copy' = copy /\ sync'[s].kept)
        /\ \A t \in Syncs \ {s} : sync'[t] = sync[t]
    <3>1. CASE DeleteRows(s)
      BY <1>1, <3>1 DEF DeleteRows, SyncStates
    <3>2. CASE DeleteRowsFails(s)
      BY <1>1, <3>2 DEF DeleteRowsFails, SyncStates
    <3>3. QED
      BY <1>5, <3>1, <3>2
  <2>2. QED
    BY <1>2, <2>1 DEF SyncInv
<1>6. ASSUME NEW s \in Syncs, InsertRow(s) \/ InsertRowFails(s)
      PROVE  SyncInv'
  <2>1. /\ sync[s].at = "deleted" /\ sync'[s].at = "over"
        /\ \A t \in Syncs \ {s} : sync'[t] = sync[t]
    BY <1>1, <1>6 DEF InsertRow, InsertRowFails, SyncStates
  <2>2. QED
    BY <1>2, <2>1 DEF SyncInv
<1>7. ASSUME NEW c \in Commands, UpdateCpInfo(c)
      PROVE  SyncInv'
  <2>1. sync' = sync /\ DOMAIN copy' = DOMAIN copy /\ copy' \in Seq(Accounts)
    BY <1>7, InfoTypeStep, InfoTypes DEF UpdateCpInfo, InfoTypeOK, InfoInv
  <2>2. QED
    BY <1>1, <1>3, <2>1
<1>8. CASE \E c \in Commands : SendChange(c) \/ UpdateCpInfoFails(c)
  BY <1>3, <1>8 DEF SendChange, UpdateCpInfoFails
<1>9. CASE MineChange \/ DropChange
  BY <1>3, <1>9 DEF MineChange, DropChange
<1>10. QED
  BY <1>4, <1>5, <1>6, <1>7, <1>8, <1>9 DEF InfoNext

\* A sync changes the copy only when it deletes it or puts the new row.
LEMMA ReplaceStep ==
    ASSUME InfoInv, InfoTypeOK', NEW s \in Syncs,
           \/ ReadAccount(s) \/ DeleteRows(s) \/ DeleteRowsFails(s)
           \/ InsertRow(s) \/ InsertRowFails(s)
    PROVE  PendingInv' /\ SentInv' /\ CopyInv'
<1>1. /\ pending \in Seq(Commands) /\ copy \in Seq(Accounts)
      /\ sync \in [Syncs -> SyncStates] /\ blame \in [Fields -> Blames]
  BY InfoTypes DEF InfoInv
<1>2. UNCHANGED <<account, pending, cmd>>
  BY DEF ReadAccount, DeleteRows, DeleteRowsFails, InsertRow, InsertRowFails
<1>3. PendingInv' /\ SentInv'
  BY <1>2 DEF InfoInv, PendingInv, SentInv, PendingFor, LastAt, FieldOf, ValueOf
<1>4. ASSUME copy' = copy \/ copy' = <<>>, blame' = blame
      PROVE  CopyInv'
  BY <1>2, <1>4 DEF InfoInv, CopyInv, Follows, EndsAs, PendingFor, LastAt, FieldOf, ValueOf
<1>5. ASSUME InsertRow(s), NEW f \in Fields
      PROVE  Follows(f)'
  <2>1. /\ blame'[f] = (IF sync[s].kept THEN blame[f] \cup {"kept"} ELSE {})
            \cup {cause \in {"met"} : sync[s].met}
            \cup {cause \in {"stale"} : PendingFor(f) \/ sync[s].read[f] # account[f]}
        /\ copy' = Append(copy, sync[s].read) /\ sync[s].at = "deleted"
    BY <1>5 DEF InsertRow
  <2>2. CASE sync[s].kept
    <3>1. "kept" \in blame'[f]
      BY <2>1, <2>2
    <3>2. QED
      BY <3>1 DEF Follows
  <2>3. CASE sync[s].met
    <3>1. "met" \in blame'[f]
      BY <2>1, <2>3
    <3>2. QED
      BY <3>1 DEF Follows
  <2>4. CASE PendingFor(f) \/ sync[s].read[f] # account[f]
    <3>1. "stale" \in blame'[f]
      BY <2>1, <2>4
    <3>2. QED
      BY <3>1 DEF Follows
  <2>5. CASE ~sync[s].kept /\ ~sync[s].met /\ ~PendingFor(f) /\ sync[s].read[f] = account[f]
    <3>1. copy = <<>>
      BY <2>1, <2>5 DEF InfoInv, SyncInv
    <3>2. copy'[1] = sync[s].read
      BY <1>1, <2>1, <3>1
    <3>3. ~PendingFor(f)' /\ copy'[1][f] = account'[f]
      BY <1>2, <2>5, <3>2 DEF PendingFor
    <3>4. QED
      BY <3>3 DEF Follows, EndsAs
  <2>6. QED
    BY <2>2, <2>3, <2>4, <2>5
<1>6. CASE InsertRow(s)
  BY <1>3, <1>5, <1>6 DEF CopyInv
<1>7. CASE ~InsertRow(s)
  BY <1>3, <1>4, <1>7 DEF ReadAccount, DeleteRows, DeleteRowsFails, InsertRowFails
<1>8. QED
  BY <1>6, <1>7

LEMMA InfoStep == InfoInv /\ [InfoNext]_infoVars => InfoInv'
<1>1. ASSUME InfoInv, InfoNext
      PROVE  InfoInv'
  <2>1. InfoTypeOK' /\ SyncInv'
    BY <1>1, InfoTypeStep, SyncStep
  <2>2. pending \in Seq(Commands)
    BY <1>1, InfoTypes DEF InfoInv
  <2>3. ASSUME NEW c \in Commands, SendChange(c) \/ UpdateCpInfo(c) \/ UpdateCpInfoFails(c)
        PROVE  InfoInv'
    BY <1>1, <2>1, <2>3, SendStep, UpdateStep DEF InfoInv
  <2>4. ASSUME NEW s \in Syncs,
               \/ ReadAccount(s) \/ DeleteRows(s) \/ DeleteRowsFails(s)
               \/ InsertRow(s) \/ InsertRowFails(s)
        PROVE  InfoInv'
    <3>1. PendingInv' /\ SentInv' /\ CopyInv'
      BY <1>1, <2>1, <2>4, ReplaceStep
    <3>2. QED
      BY <2>1, <3>1 DEF InfoInv
  <2>5. CASE MineChange
    <3>1. /\ 1 \in DOMAIN pending /\ Head(pending) = pending[1] /\ pending # <<>>
          /\ pending' = Tail(pending) /\ copy' = copy
      BY <2>2, <2>5 DEF MineChange
    <3>2. Without(pending, pending', 1)
      BY <2>2, <3>1, TailIsWithout
    <3>3. PICK h \in Commands : h = pending[1]
      BY <2>2, <3>1
    <3>4. \/ /\ cmd' = [cmd EXCEPT ![h].tx = "mined"]
             /\ account' = [account EXCEPT ![FieldOf(h)] = ValueOf(h)]
             /\ blame' = blame
          \/ Undo(h) /\ account' = account
      BY <2>5, <3>1, <3>3 DEF MineChange, FieldOf, ValueOf
    <3>5. PICK k \in DOMAIN pending : k = 1
      BY <3>1
    <3>6. PendingInv' /\ SentInv' /\ CopyInv'
      BY <1>1, <2>1, <3>1, <3>2, <3>3, <3>4, <3>5, ChainStep
    <3>7. QED
      BY <2>1, <3>6 DEF InfoInv
  <2>6. CASE DropChange
    <3>1. PICK k \in DOMAIN pending : pending' = RemoveAt(pending, k) /\ Undo(pending[k])
      BY <2>6 DEF DropChange
    <3>2. Without(pending, pending', k) /\ pending[k] \in Commands
      BY <2>2, <3>1, RemoveAtIsWithout
    <3>3. copy' = copy /\ account' = account
      BY <2>6 DEF DropChange
    <3>4. PendingInv' /\ SentInv' /\ CopyInv'
      BY <1>1, <2>1, <3>1, <3>2, <3>3, ChainStep
    <3>5. QED
      BY <2>1, <3>4 DEF InfoInv
  <2>7. QED
    BY <1>1, <2>3, <2>4, <2>5, <2>6 DEF InfoNext
<1>2. ASSUME InfoInv, UNCHANGED infoVars
      PROVE  InfoInv'
  BY <1>2 DEF infoVars, InfoInv, InfoTypeOK, PendingInv, SentInv, SyncInv, CopyInv, Follows,
              EndsAs, PendingFor, LastAt, FieldOf, ValueOf
<1>3. QED
  BY <1>1, <1>2

LEMMA InfoStarts == InfoInit => InfoInv
<1> SUFFICES ASSUME InfoInit PROVE InfoInv
  OBVIOUS
<1>1. Account0 \in Accounts
  BY CpInfoAssumption DEF Accounts, Fields, Values
<1>2. InfoTypeOK
  <2>1. NoChange \in AnyChange
    BY DEF AnyChange
  <2>2. cmd \in [Commands -> Cmds] /\ sync \in [Syncs -> SyncStates]
    BY <1>1, <2>1 DEF InfoInit, Cmds, SyncStates
  <2>3. copy \in Seq(Accounts) /\ pending \in Seq(Commands)
    <3>1. <<>> \in Seq(Accounts) /\ <<Account0>> \in Seq(Accounts)
      BY <1>1
    <3>2. copy \in Seq(Accounts)
      BY <3>1 DEF InfoInit
    <3>3. pending \in Seq(Commands)
      BY DEF InfoInit
    <3>4. QED
      BY <3>2, <3>3
  <2>4. blame \in [Fields -> Blames] /\ mishaps \in 0 .. MaxMishaps
    BY CpInfoAssumption DEF InfoInit, Blames
  <2>5. QED
    BY <1>1, <2>2, <2>3, <2>4, InfoTypes DEF InfoInit
<1>3. PendingInv /\ SentInv /\ SyncInv
  BY DEF InfoInit, PendingInv, SentInv, SyncInv
<1>4. CopyInv
  <2>1. \A f : ~PendingFor(f)
    BY DEF InfoInit, PendingFor
  <2>2. copy # <<>> => copy[1] = account
    BY DEF InfoInit
  <2>3. QED
    BY <2>1, <2>2 DEF CopyInv, Follows, EndsAs
<1>5. QED
  BY <1>2, <1>3, <1>4 DEF InfoInv

\* At rest the copy says what the chain says, field by field, unless something that can
\* be named has spoilt the field (run.go:836-850, entity_service.go:210-213).
THEOREM CopyFollowsChain == InfoSpec => []InfoIsChain
<1>1. InfoInv => InfoIsChain
  <2> SUFFICES ASSUME InfoInv, InfoAtRest, copy # <<>>, NEW f \in Fields
               PROVE  copy[1][f] = account[f] \/ blame[f] # {}
    BY DEF InfoIsChain
  <2>1. Follows(f) /\ ~PendingFor(f) /\ \A c \in Commands : cmd[c].at # "sent"
    BY DEF InfoInv, CopyInv, InfoAtRest, PendingFor
  <2>2. QED
    BY <2>1 DEF Follows, EndsAs
<1>2. QED
  BY <1>1, InfoStarts, InfoStep, PTL DEF InfoSpec

-----------------------------------------------------------------------------
(* Logs.                                                                   *)

Messages == Seq({"line", "ping"})

LinesOf(m) == {i \in 1 .. Len(m) : m[i] = "line"}

\* The lines among the messages, and the one the writer has taken.
LinesIn(m) == Cardinality(LinesOf(m))

One(x) == IF x = "line" THEN 1 ELSE 0

\* No line is written that was not sent, and none is sent that is not there.
WsInv ==
    /\ WsTypeOK
    /\ scanner = "send" => sent < lines
    /\ written + LinesIn(message) + One(writer) =< sent

LEMMA LinesFinite ==
    ASSUME NEW m \in Messages
    PROVE  IsFiniteSet(LinesOf(m)) /\ LinesIn(m) \in Nat
<1>1. IsFiniteSet(1 .. Len(m)) /\ LinesOf(m) \in SUBSET (1 .. Len(m))
  BY FS_Interval DEF LinesOf, Messages
<1>2. QED
  BY <1>1, FS_Subset, FS_CardinalityType DEF LinesIn

LEMMA LinesAppend ==
    ASSUME NEW m \in Messages, NEW x \in {"line", "ping"}
    PROVE  Append(m, x) \in Messages /\ LinesIn(Append(m, x)) = LinesIn(m) + One(x)
<1>1. Append(m, x) \in Messages /\ Len(m) \in Nat
  BY DEF Messages
<1>2. LinesOf(Append(m, x)) = IF x = "line" THEN LinesOf(m) \cup {Len(m) + 1} ELSE LinesOf(m)
  BY DEF LinesOf, Messages
<1>3. Len(m) + 1 \notin LinesOf(m)
  BY <1>1 DEF LinesOf
<1>4. CASE x = "line"
  <2>1. Cardinality(LinesOf(m) \cup {Len(m) + 1}) = LinesIn(m) + 1
    BY <1>3, LinesFinite, FS_AddElement DEF LinesIn
  <2>2. QED
    BY <1>1, <1>2, <1>4, <2>1 DEF LinesIn, One
<1>5. CASE x # "line"
  BY <1>1, <1>2, <1>5, LinesFinite DEF LinesIn, One
<1>6. QED
  BY <1>4, <1>5

LEMMA LinesTail ==
    ASSUME NEW m \in Messages, m # <<>>
    PROVE  /\ Tail(m) \in Messages /\ Head(m) \in {"line", "ping"}
           /\ LinesIn(m) = LinesIn(Tail(m)) + One(Head(m)) /\ LinesIn(Tail(m)) \in Nat
<1>1. /\ Tail(m) \in Messages /\ Head(m) = m[1] /\ Head(m) \in {"line", "ping"}
      /\ Len(m) \in Nat /\ Len(m) >= 1 /\ Len(Tail(m)) = Len(m) - 1
      /\ \A i \in 1 .. Len(m) - 1 : Tail(m)[i] = m[i + 1]
  BY DEF Messages
<1> DEFINE rest == LinesOf(m) \ {1}
           shift == [i \in LinesOf(Tail(m)) |-> i + 1]
<1>2. shift \in Bijection(LinesOf(Tail(m)), rest)
  <2>1. \A i \in LinesOf(Tail(m)) : i + 1 \in rest
    BY <1>1 DEF LinesOf
  <2>2. \A j \in rest : j - 1 \in LinesOf(Tail(m)) /\ shift[j - 1] = j
    BY <1>1 DEF LinesOf
  <2>3. \A i, j \in LinesOf(Tail(m)) : shift[i] = shift[j] => i = j
    BY DEF LinesOf
  <2> HIDE DEF rest
  <2>4. shift \in [LinesOf(Tail(m)) -> rest]
    BY <2>1
  <2> HIDE DEF shift
  <2>5. QED
    BY <2>2, <2>3, <2>4 DEF Bijection, Injection, Surjection, IsInjective
<1>3. /\ IsFiniteSet(LinesOf(Tail(m))) /\ LinesIn(Tail(m)) \in Nat
      /\ IsFiniteSet(LinesOf(m)) /\ LinesIn(m) \in Nat
  BY <1>1, LinesFinite
<1> HIDE DEF shift
<1>4. Cardinality(rest) = LinesIn(Tail(m))
  <2> HIDE DEF rest
  <2>1. ExistsBijection(LinesOf(Tail(m)), rest)
    BY <1>2 DEF ExistsBijection
  <2>2. QED
    BY <1>3, <2>1, FS_Bijection DEF LinesIn
<1>5. Cardinality(rest) = IF 1 \in LinesOf(m) THEN LinesIn(m) - 1 ELSE LinesIn(m)
  BY <1>3, FS_RemoveElement DEF LinesIn
<1>6. 1 \in LinesOf(m) <=> Head(m) = "line"
  BY <1>1 DEF LinesOf
<1> HIDE DEF rest
<1>7. QED
  BY <1>1, <1>3, <1>4, <1>5, <1>6 DEF One

LEMMA WsStep == WsInv /\ [WsNext]_wsVars => WsInv'
<1> SUFFICES ASSUME WsInv, [WsNext]_wsVars
             PROVE  WsInv'
  OBVIOUS
<1>1. /\ lines \in 0 .. MaxLines /\ sent \in 0 .. lines /\ written \in 0 .. sent
      /\ scanner \in {"scan", "send", "over"} /\ ticker \in {"wait", "send", "over"}
      /\ writer \in {"wait", "line", "ping", "over"}
      /\ reader \in {"read", "failing", "close", "over"}
      /\ message \in Messages /\ Len(message) =< ChanCap
      /\ messageClosed \in BOOLEAN /\ stopCh \in BOOLEAN /\ pinged \in BOOLEAN
      /\ conn \in {"open", "closed", "lost"}
      /\ scanner = "send" => sent < lines
      /\ written + LinesIn(message) + One(writer) =< sent
  BY DEF WsInv, WsTypeOK, Messages
<1>2. lines \in Nat /\ sent \in Nat /\ written \in Nat /\ LinesIn(message) \in Nat
      /\ MaxLines \in Nat /\ ChanCap \in Nat
  BY <1>1, LinesFinite, WsLogAssumption
<1>3. ASSUME lines' = lines, sent' \in 0 .. lines, written' \in Nat,
             scanner' \in {"scan", "send", "over"}, ticker' \in {"wait", "send", "over"},
             writer' \in {"wait", "line", "ping", "over"},
             reader' \in {"read", "failing", "close", "over"},
             message' \in Messages, Len(message') =< ChanCap,
             messageClosed' \in BOOLEAN, stopCh' \in BOOLEAN, pinged' \in BOOLEAN,
             conn' \in {"open", "closed", "lost"},
             scanner' = "send" => sent' < lines,
             written' + LinesIn(message') + One(writer') =< sent'
      PROVE  WsInv'
  <2>1. LinesIn(message') \in Nat /\ One(writer') \in Nat
    BY <1>3, LinesFinite DEF One
  <2>2. written' \in 0 .. sent'
    BY <1>2, <1>3, <2>1
  <2>3. QED
    BY <1>1, <1>3, <2>2 DEF WsInv, WsTypeOK, Messages
<1>4. ASSUME message' = message, sent' = sent, written' = written, lines' = lines,
             writer' = writer \/ (writer' = "over" /\ writer # "over"),
             scanner' # "send" \/ scanner' = scanner,
             scanner' \in {"scan", "send", "over"}, ticker' \in {"wait", "send", "over"},
             reader' \in {"read", "failing", "close", "over"},
             messageClosed' \in BOOLEAN, stopCh' \in BOOLEAN, pinged' \in BOOLEAN,
             conn' \in {"open", "closed", "lost"}
      PROVE  WsInv'
  <2>1. written' + LinesIn(message') + One(writer') =< sent'
    BY <1>1, <1>2, <1>4 DEF One
  <2>2. QED
    BY <1>1, <1>2, <1>3, <1>4, <2>1
<1>5. CASE ScanLine
  BY <1>1, <1>2, <1>3, <1>5 DEF ScanLine
<1>6. CASE ScanStops \/ LogEnds \/ Tick \/ TickerStops
  BY <1>1, <1>4, <1>6 DEF ScanStops, LogEnds, Tick, TickerStops
<1>7. CASE WriteFails \/ WriterCloses \/ WriterStops
  BY <1>1, <1>4, <1>7 DEF WriteFails, WriterCloses, WriterStops
<1>8. CASE ReadClose \/ CloseMessage \/ ReadFails \/ ReaderStops \/ ReaderHears \/ ConnEnds
  BY <1>1, <1>4, <1>8 DEF ReadClose, CloseMessage, ReadFails, ReaderStops, ReaderHears, ConnEnds
<1>9. ASSUME NEW x \in {"line", "ping"}, HasRoom, message' = Append(message, x)
      PROVE  /\ message' \in Messages /\ Len(message') =< ChanCap
             /\ LinesIn(message') = LinesIn(message) + One(x)
  <2>1. Len(message') = Len(message) + 1 /\ Len(message) \in Nat
    BY <1>1, <1>9 DEF Messages
  <2>2. Len(message') =< ChanCap
    BY <1>2, <1>9, <2>1 DEF HasRoom
  <2>3. QED
    BY <1>1, <1>9, <2>2, LinesAppend
<1>10. CASE SendLine
  <2>1. CASE messageClosed
    BY <1>1, <1>4, <1>10, <2>1 DEF SendLine
  <2>2. CASE ~messageClosed
    <3>1. /\ HasRoom /\ message' = Append(message, "line") /\ scanner' = "scan"
          /\ sent' = sent + 1 /\ sent < lines
          /\ UNCHANGED <<lines, written, ticker, writer, reader, messageClosed, stopCh, pinged, conn>>
      BY <1>1, <1>10, <2>2 DEF SendLine
    <3>2. LinesIn(message') = LinesIn(message) + 1 /\ message' \in Messages /\ Len(message') =< ChanCap
      BY <1>9, <3>1 DEF One
    <3>3. One(writer) \in Nat
      BY DEF One
    <3>4. written' + LinesIn(message') + One(writer') =< sent' /\ sent' \in 0 .. lines
      BY <1>1, <1>2, <3>1, <3>2, <3>3
    <3>5. QED
      BY <1>1, <1>2, <1>3, <3>1, <3>2, <3>4
  <2>3. QED
    BY <2>1, <2>2
<1>11. CASE SendPing
  <2>1. CASE messageClosed
    BY <1>1, <1>4, <1>11, <2>1 DEF SendPing
  <2>2. CASE ~messageClosed
    <3>1. /\ HasRoom /\ message' = Append(message, "ping") /\ ticker' = "wait"
          /\ UNCHANGED <<lines, sent, written, scanner, writer, reader, messageClosed, stopCh,
                         pinged, conn>>
      BY <1>11, <2>2 DEF SendPing
    <3>2. LinesIn(message') = LinesIn(message) /\ message' \in Messages /\ Len(message') =< ChanCap
      BY <1>2, <1>9, <3>1 DEF One
    <3>3. written' + LinesIn(message') + One(writer') =< sent'
      BY <1>1, <3>1, <3>2
    <3>4. QED
      BY <1>1, <1>2, <1>3, <3>1, <3>2, <3>3
  <2>3. QED
    BY <2>1, <2>2
<1>12. CASE TakeMessage
  <2>1. /\ message # <<>> /\ message' = Tail(message) /\ writer' = Head(message) /\ writer = "wait"
        /\ UNCHANGED <<lines, sent, written, scanner, ticker, reader, messageClosed, stopCh,
                       pinged, conn>>
    BY <1>12 DEF TakeMessage
  <2>2. /\ message' \in Messages /\ writer' \in {"line", "ping"}
        /\ LinesIn(message) = LinesIn(message') + One(writer') /\ LinesIn(message') \in Nat
    BY <1>1, <2>1, LinesTail
  <2>3. Len(message') =< ChanCap
    BY <1>1, <1>2, <2>1 DEF Messages
  <2>4. One(writer) = 0 /\ One(writer') \in Nat
    BY <2>1 DEF One
  <2>5. written' + LinesIn(message') + One(writer') =< sent'
    BY <1>1, <1>2, <2>1, <2>2, <2>4
  <2>6. QED
    BY <1>1, <1>2, <1>3, <2>1, <2>2, <2>3, <2>5
<1>13. CASE WriteMessage
  <2>1. /\ writer' = "wait" /\ written' = written + One(writer) /\ One(writer) \in Nat
        /\ One(writer') = 0
        /\ UNCHANGED <<lines, sent, scanner, ticker, reader, message, messageClosed, stopCh, conn>>
    BY <1>2, <1>13 DEF WriteMessage, One
  <2>2. pinged' \in BOOLEAN
    BY <1>13 DEF WriteMessage
  <2>3. written' + LinesIn(message') + One(writer') =< sent' /\ written' \in Nat
    BY <1>1, <1>2, <2>1
  <2>4. QED
    BY <1>1, <1>2, <1>3, <2>1, <2>2, <2>3
<1>14. CASE UNCHANGED wsVars
  BY <1>14 DEF WsInv, WsTypeOK, LinesIn, LinesOf, One, wsVars
<1>15. QED
  BY <1>5, <1>6, <1>7, <1>8, <1>10, <1>11, <1>12, <1>13, <1>14
     DEF WsNext, Handler, Ticker, Writer, Reader

LEMMA WsStarts == WsInit => WsInv
<1> SUFFICES ASSUME WsInit PROVE WsInv
  OBVIOUS
<1>1. LinesOf(message) = {}
  BY DEF WsInit, LinesOf
<1>2. LinesIn(message) = 0 /\ One(writer) = 0
  BY <1>1, FS_EmptySet DEF WsInit, LinesIn, One
<1>3. WsTypeOK
  <2>1. message \in Seq({"line", "ping"}) /\ Len(message) = 0
    BY DEF WsInit
  <2>2. Len(message) =< ChanCap
    BY <2>1, WsLogAssumption
  <2>3. /\ lines \in 0 .. MaxLines /\ sent = 0 /\ written = 0 /\ scanner = "scan"
        /\ ticker = "wait" /\ writer = "wait" /\ reader = "read" /\ messageClosed = FALSE
        /\ stopCh = FALSE /\ pinged = FALSE /\ conn = "open"
    BY DEF WsInit
  <2>4. sent \in 0 .. lines /\ written \in 0 .. sent
    BY <2>3, WsLogAssumption
  <2>5. QED
    BY <2>1, <2>2, <2>3, <2>4 DEF WsTypeOK
<1>4. QED
  BY <1>2, <1>3 DEF WsInit, WsInv

-----------------------------------------------------------------------------
(* Keys.                                                                   *)

UserStates == [at : {"none", "setup", "open", "find", "signed"}, tries : 0 .. MaxTries]

LEMMA KeyStarts == KeyInit => KeyTypeOK
  BY KeystoreAssumption DEF KeyInit, KeyTypeOK, Away

LEMMA KeyStep == KeyTypeOK /\ [KeyNext]_keyVars => KeyTypeOK'
<1> SUFFICES ASSUME KeyTypeOK, [KeyNext]_keyVars
             PROVE  KeyTypeOK'
  OBVIOUS
<1> USE KeystoreAssumption
<1>1. /\ opener \in Users \cup {"nobody", "leaked"} /\ user \in [Users -> UserStates]
      /\ tokenCache \in {"none", "good", "old"} /\ imports \in 0 .. MaxImports
      /\ renewals \in 0 .. MaxRenewals /\ reboots \in 0 .. MaxReboots
  BY DEF KeyTypeOK, UserStates
<1>2. ASSUME opener' \in Users \cup {"nobody", "leaked"}, user' \in [Users -> UserStates],
             tokenCache' \in {"none", "good", "old"}, imports' \in 0 .. MaxImports,
             renewals' \in 0 .. MaxRenewals, reboots' \in 0 .. MaxReboots
      PROVE  KeyTypeOK'
  BY <1>2 DEF KeyTypeOK, UserStates
<1>3. Away \in UserStates /\ [at |-> "open", tries |-> 0] \in UserStates
  BY DEF Away, UserStates
<1>4. \A u \in Users : Leave(u) => user' \in [Users -> UserStates]
  BY <1>1, <1>3 DEF Leave
<1>5. \A u \in Users, at \in {"setup", "find", "signed"} :
          [user EXCEPT ![u].at = at] \in [Users -> UserStates]
  BY <1>1 DEF UserStates
<1>6. ASSUME NEW u \in Users, NeedsKey(u) \/ GetToken(u)
      PROVE  KeyTypeOK'
  <2>1. imports' \in 0 .. MaxImports
    BY <1>1, <1>6 DEF NeedsKey, GetToken
  <2>2. QED
    BY <1>1, <1>2, <1>5, <1>6, <2>1 DEF NeedsKey, GetToken
<1>7. ASSUME NEW u \in Users, SetupWallet(u)
      PROVE  KeyTypeOK'
  BY <1>1, <1>2, <1>3, <1>7 DEF SetupWallet
<1>8. ASSUME NEW u \in Users, SetupWalletAgain(u)
      PROVE  KeyTypeOK'
  <2>1. CASE user[u].tries < MaxTries /\ user' = [user EXCEPT ![u].tries = @ + 1]
    <3>1. user[u].tries + 1 \in 0 .. MaxTries
      BY <1>1, <2>1 DEF UserStates
    <3>2. user' \in [Users -> UserStates]
      BY <1>1, <2>1, <3>1 DEF UserStates
    <3>3. QED
      BY <1>1, <1>2, <1>8, <3>2 DEF SetupWalletAgain
  <2>2. CASE Leave(u)
    BY <1>1, <1>2, <1>4, <1>8, <2>2 DEF SetupWalletAgain
  <2>3. QED
    BY <1>8, <2>1, <2>2 DEF SetupWalletAgain
<1>9. ASSUME NEW u \in Users,
             \/ GetWorkerAddress(u) \/ GetWorkerAddressFails(u)
             \/ WalletImport(u) \/ PostToken(u) \/ PostTokenFails(u)
      PROVE  KeyTypeOK'
  BY <1>1, <1>2, <1>4, <1>5, <1>9
     DEF GetWorkerAddress, GetWorkerAddressFails, WalletImport, PostToken, PostTokenFails
<1>10. ASSUME NEW u \in Users, FindKey(u)
       PROVE  KeyTypeOK'
  <2>1. user' \in [Users -> UserStates]
    BY <1>4, <1>5, <1>10 DEF FindKey
  <2>2. QED
    BY <1>1, <1>2, <1>10, <2>1 DEF FindKey
<1>11. CASE TokenExpires
  BY <1>1, <1>2, <1>11 DEF TokenExpires
<1>12. CASE Reboot
  <2>1. user' \in [Users -> UserStates]
    BY <1>1, <1>3, <1>12 DEF Reboot
  <2>2. opener' \in Users \cup {"nobody", "leaked"}
    BY <1>1, <1>12 DEF Reboot, Users
  <2>3. QED
    BY <1>1, <1>2, <1>12, <2>1, <2>2 DEF Reboot
<1>13. CASE UNCHANGED keyVars
  BY <1>13 DEF keyVars, KeyTypeOK
<1>14. QED
  BY <1>6, <1>7, <1>8, <1>9, <1>10, <1>11, <1>12, <1>13 DEF KeyNext

-----------------------------------------------------------------------------
(* The parts together.                                                     *)

\* A step of the whole is a step of one part, and leaves the others as they are.
LEMMA PartSteps ==
    ASSUME [BackgroundNext]_allVars
    PROVE  /\ [Next]_vars /\ [ScanNext]_scanVars /\ [MiningNext]_miningVars
           /\ [DeployNext]_deployVars /\ [WsNext]_wsVars /\ [PlaceNext]_placeVars
           /\ [HostNext]_hostVars /\ [KeyNext]_keyVars /\ [InfoNext]_infoVars
           /\ [CollNext]_collVars
<1>1. CASE OnlyPay /\ Next
  BY <1>1 DEF OnlyPay, nodeVars
<1>2. CASE OnlyReward /\ ScanNext
  BY <1>2 DEF OnlyReward, nodeVars
<1>3. CASE OnlyMining /\ MiningNext
  BY <1>3 DEF OnlyMining, nodeVars
<1>4. CASE OnlyDeploy /\ DeployNext
  BY <1>4 DEF OnlyDeploy, nodeVars
<1>5. CASE OnlyLog /\ WsNext
  BY <1>5 DEF OnlyLog, nodeVars
<1>6. CASE OnlyPlace /\ PlaceNext
  BY <1>6 DEF OnlyPlace, nodeVars
<1>7. CASE OnlyPorts /\ HostNext
  BY <1>7 DEF OnlyPorts, daemonVars
<1>8. CASE OnlyKeys /\ KeyNext
  BY <1>8 DEF OnlyKeys, daemonVars
<1>9. CASE OnlyInfo /\ InfoNext
  BY <1>9 DEF OnlyInfo, daemonVars
<1>10. CASE OnlyCollateral /\ CollNext
  BY <1>10 DEF OnlyCollateral, daemonVars
<1>11. CASE UNCHANGED allVars
  BY <1>11 DEF allVars, daemonVars, nodeVars
<1>12. QED
  BY <1>1, <1>2, <1>3, <1>4, <1>5, <1>6, <1>7, <1>8, <1>9, <1>10, <1>11 DEF BackgroundNext

LEMMA PartInits ==
    BackgroundInit =>
        /\ Init /\ ScanInit /\ MiningInit /\ DeployInit /\ WsInit /\ PlaceInit
        /\ HostInit /\ KeyInit /\ InfoInit /\ CollInit
  BY DEF BackgroundInit

\* Each part behaves as its own specification says, and so what is proved of it holds
\* when it is checked with the others (MCBackground).
LEMMA PartsBehave ==
    BackgroundSpec =>
        /\ Spec /\ ScanSpec /\ MiningSpec /\ DeploySpec /\ WsSpec /\ PlaceSpec
        /\ HostSpec /\ KeySpec /\ InfoSpec /\ CollSpec
  BY PartInits, PartSteps, PTL
     DEF BackgroundSpec, Spec, ScanSpec, MiningSpec, DeploySpec, WsSpec, PlaceSpec,
         HostSpec, KeySpec, InfoSpec, CollSpec

\* Every variable of every part has its type: no line of a log is written that was not
\* sent, no transaction is pending of a command that has not sent it, and no counter
\* leaves its bounds.
THEOREM BackgroundTypes == BackgroundSpec => []BackgroundTypeOK
<1>1. MiningInv => MiningTypeOK
  BY DEF MiningInv
<1>2. WsInv => WsTypeOK
  BY DEF WsInv
<1>3. HostInit => HostInv
  BY DEF HostInit, HostInv, HostTypeOK
<1>4. HostInv => HostTypeOK
  BY DEF HostInv
<1>5. InfoInv => InfoTypeOK
  BY DEF InfoInv
<1>6. CollInv => CollTypeOK
  BY DEF CollInv
<1>7. (/\ TypeOK /\ ScanTypeOK /\ MiningTypeOK /\ DeployTypeOK /\ WsTypeOK /\ PlaceTypeOK
       /\ HostTypeOK /\ KeyTypeOK /\ InfoTypeOK /\ CollTypeOK) => BackgroundTypeOK
  BY DEF BackgroundTypeOK
<1>8. MiningSpec => []MiningTypeOK
  BY <1>1, MiningStarts, MiningStep, PTL DEF MiningSpec
<1>9. WsSpec => []WsTypeOK
  BY <1>2, WsStarts, WsStep, PTL DEF WsSpec
<1>10. HostSpec => []HostTypeOK
  BY <1>3, <1>4, HostStep, PTL DEF HostSpec
<1>11. KeySpec => []KeyTypeOK
  BY KeyStarts, KeyStep, PTL DEF KeySpec
<1>12. InfoSpec => []InfoTypeOK
  BY <1>5, InfoStarts, InfoStep, PTL DEF InfoSpec
<1>13. CollSpec => []CollTypeOK
  BY <1>6, CollStarts, CollStep, PTL DEF CollSpec
<1>14. QED
  BY <1>7, <1>8, <1>9, <1>10, <1>11, <1>12, <1>13, PartsBehave, TypeCorrect,
     RewardTypeCorrect, DeployTypeCorrect, PlacementTypeCorrect, PTL

\* A port is answered as it was asked for, in the cluster and on a docker host
\* (space_service.go:1003-1022, ecp_image_service.go:672-690).
THEOREM PortsAreAnswered == BackgroundSpec => []PortsAsAnswered
<1>1. PortRefusedOnlyByRace /\ HostPortsAsAnswered => PortsAsAnswered
  BY DEF PortsAsAnswered
<1>2. QED
  BY <1>1, PartsBehave, PortsAreRefused, HostPortsAnswered, PTL

\* The other invariants of the ten parts, and the two promises they keep.
THEOREM PartsKeep ==
    BackgroundSpec =>
        /\ [](ReplayedOnlyIfBroken /\ RewardsShown /\ RowLostOnlyToSameId)
        /\ [](DuplicatesHaveCause /\ NoNonceGap /\ GpuSharedOnlyByRace)
        /\ [](CacheCountsDeploying /\ InfoIsChain /\ AddsAsTold)
        /\ BooksEveryPayment /\ DeploysAsPromised
  BY PartsBehave, ReplaysAreBounded, RewardsAreShown, RowsAreKept, DuplicatesAreBounded,
     NoncesWithoutGap, GpusAreShared, CacheCounts, CopyFollowsChain, DepositsAreAsTold,
     ScanImplementsLedger, DeployImplementsPromise, PTL

=============================================================================
