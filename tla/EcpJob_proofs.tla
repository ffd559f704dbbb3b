---------------------------- MODULE EcpJob_proofs ----------------------------
(***************************************************************************)
(* Proofs about EcpJob, for any requests, uuids, GPUs and ways to remove a *)
(* job, with or without failures of docker and crashes.                    *)
(***************************************************************************)
EXTENDS EcpJob, TLAPS

Rows == [st : Statuses, name : Names]

\* The database calls write rows.
LEMMA StatusRows ==
    ASSUME row \in [Requests -> Rows], NEW j \in Jobs, NEW st \in Statuses,
           UpdateEcpJobEntity(j, st)
    PROVE  row' \in [Requests -> Rows]
<1>1. \A r \in Requests : Written(r, j, st) \in Rows
  BY DEF Written, Rows
<1>2. QED
  BY <1>1 DEF UpdateEcpJobEntity

LEMMA NameRows ==
    ASSUME row \in [Requests -> Rows], NEW j \in Jobs, NEW name \in Names,
           UpdateEcpJobEntityContainerName(j, name)
    PROVE  row' \in [Requests -> Rows]
<1>1. \A r \in Requests : [row[r] EXCEPT !.name = name] \in Rows
  BY DEF Rows
<1>2. QED
  BY <1>1 DEF UpdateEcpJobEntityContainerName

LEMMA NotSyncedType ==
    NotSynced \in [at : {"off", "listed", "seen"}, rows : SUBSET Requests,
                   name : [Requests -> Names], st : [Requests -> Statuses]]
BY DEF NotSynced, Names, Statuses

LEMMA MarkType ==
    ASSUME NEW e, e \in [at : {"off", "remove", "only", "mark"}, name : Names]
    PROVE  [e EXCEPT !.at = "mark"] \in [at : {"off", "remove", "only", "mark"},
                                         name : Names]
OBVIOUS

\* Every step keeps the types.
LEMMA DeployTypes ==
    ASSUME TypeOK, NEW r \in Requests, Deploy(r)
    PROVE  TypeOK'
<1> USE EcpJobAssumption DEF TypeOK, Step, Pcs, Starting
<1>0. row \in [Requests -> Rows] /\ Uuid[r] \in Jobs /\ "terminated" \in Statuses
  BY DEF Rows, Statuses
<1>1. CASE Receive(r)
  BY <1>1 DEF Receive
<1>2. CASE Refuse(r)
  <2>1. row' \in [Requests -> Rows]
    BY <1>0, <1>2, StatusRows DEF Refuse, Statuses
  <2>2. QED
    BY <1>2, <2>1 DEF Refuse, Rows
<1>3. CASE Drop(r)
  BY <1>3 DEF Drop
<1>4. CASE Pick(r)
  BY <1>4 DEF Pick
<1>5. CASE Save(r)
  <2>1. [st |-> "created", name |-> NoName] \in Rows
    BY DEF Rows, Statuses, Names
  <2>2. row' \in [Requests -> Rows]
    BY <1>0, <1>5, <2>1 DEF Save
  <2>3. raced' \in [Requests -> BOOLEAN]
    BY <1>5 DEF Save
  <2>4. QED
    BY <1>5, <2>2, <2>3 DEF Save, Rows
<1>6. CASE GetImage(r)
  BY <1>6 DEF GetImage
<1>7. CASE PullFails(r)
  <2>1. row' \in [Requests -> Rows]
    BY <1>0, <1>7, StatusRows DEF PullFails, Terminate
  <2>2. QED
    BY <1>7, <2>1 DEF PullFails, Rows
<1>8. CASE BuildFails(r)
  <2>1. row' \in [Requests -> Rows]
    BY <1>0, <1>8, StatusRows DEF BuildFails, Terminate
  <2>2. QED
    BY <1>8, <2>1 DEF BuildFails, Rows
<1>9. CASE ContainerCreateAndStart(r)
  BY <1>9 DEF ContainerCreateAndStart, Container
<1>10. CASE ContainerFails(r)
  <2>1. row' \in [Requests -> Rows]
    BY <1>0, <1>10, StatusRows DEF ContainerFails, Terminate
  <2>2. ctr' \in [Requests -> Container]
    BY <1>10 DEF ContainerFails, Container
  <2>3. QED
    BY <1>10, <2>1, <2>2 DEF ContainerFails, Rows
<1>11. CASE Confirm(r)
  <2>1. row' \in [Requests -> Rows]
    BY <1>0, <1>11, StatusRows DEF Confirm, Terminate
  <2>2. QED
    BY <1>11, <2>1 DEF Confirm, Rows
<1>12. CASE Name(r)
  <2>1. row' \in [Requests -> Rows]
    BY <1>0, <1>12, NameRows DEF Name, Names
  <2>2. QED
    BY <1>12, <2>1 DEF Name, Rows
<1>13. QED
  BY <1>1, <1>2, <1>3, <1>4, <1>5, <1>6, <1>7, <1>8, <1>9, <1>10, <1>11, <1>12
  DEF Deploy

LEMMA SyncTypes ==
    ASSUME TypeOK, Sync
    PROVE  TypeOK'
<1> USE EcpJobAssumption DEF TypeOK
<1>0. row \in [Requests -> Rows]
  BY DEF Rows
<1>1. CASE SyncList
  <2>1. ASSUME NEW rows \in SUBSET Requests, SyncReads(rows)
        PROVE  TypeOK'
    <3>1. [r \in Requests |-> IF r \in rows THEN row[r].name ELSE NoName]
             \in [Requests -> Names]
      BY DEF Names
    <3>2. sync' \in [at : {"off", "listed", "seen"}, rows : SUBSET Requests,
                     name : [Requests -> Names], st : [Requests -> Statuses]]
      BY <2>1, <3>1, NotSyncedType DEF SyncReads
    <3>3. QED
      BY <2>1, <3>2 DEF SyncReads
  <2>2. QED
    BY <1>1, <2>1 DEF SyncList
<1>2. CASE SyncInspect
  <2>1. \A name \in Names : State(name) \in Statuses
    BY DEF State, Names, Container, Statuses
  <2>2. [r \in Requests |-> IF r \in sync.rows THEN State(sync.name[r]) ELSE "none"]
           \in [Requests -> Statuses]
    BY <2>1 DEF Statuses
  <2>3. sync' \in [at : {"off", "listed", "seen"}, rows : SUBSET Requests,
                   name : [Requests -> Names], st : [Requests -> Statuses]]
    BY <1>2, <2>2, NotSyncedType DEF SyncInspect
  <2>4. QED
    BY <1>2, <2>3 DEF SyncInspect
<1>3. ASSUME NEW r \in Requests, SyncWrite(r)
      PROVE  TypeOK'
  <2>1. row' \in [Requests -> Rows]
    BY <1>0, <1>3, StatusRows DEF SyncWrite
  <2>2. sync' \in [at : {"off", "listed", "seen"}, rows : SUBSET Requests,
                   name : [Requests -> Names], st : [Requests -> Statuses]]
    BY <1>3, NotSyncedType DEF SyncWrite, SyncNext, Names, Statuses
  <2>3. revived' \in [Requests -> BOOLEAN]
    BY <1>3 DEF SyncWrite, SyncNext
  <2>4. QED
    BY <1>3, <2>1, <2>2, <2>3 DEF SyncWrite, SyncNext, Rows
<1>4. QED
  BY <1>1, <1>2, <1>3 DEF Sync

LEMMA RemoveTypes ==
    ASSUME TypeOK, NEW j \in Jobs, NEW a \in Removers, Remove(j, a)
    PROVE  TypeOK'
<1> USE EcpJobAssumption DEF TypeOK
<1> DEFINE Entry == [at : {"off", "remove", "only", "mark"}, name : Names]
<1>0. row \in [Requests -> Rows] /\ "terminated" \in Statuses /\ Idle \in Entry
  BY DEF Rows, Statuses, Idle, Names
<1>a. ASSUME NEW e \in Entry, rmv' = [rmv EXCEPT ![j][a] = e]
      PROVE  rmv' \in [Jobs -> [Removers -> Entry]]
  BY <1>a
<1>1. CASE RemoveRead(j, a)
  <2>1. \A r \in Requests : [at |-> "remove", name |-> row[r].name] \in Entry
    BY DEF Names
  <2>2. [at |-> "only", name |-> NoName] \in Entry
    BY DEF Names
  <2>3. rmv' \in [Jobs -> [Removers -> Entry]]
    BY <1>1, <1>a, <2>1, <2>2 DEF RemoveRead, RowsOf
  <2>4. QED
    BY <1>1, <2>3 DEF RemoveRead
<1>2. CASE RemoveContainerByName(j, a)
  <2>1. ctr' \in [Requests -> Container]
    BY <1>2 DEF RemoveContainerByName, Container
  <2>2. [rmv[j][a] EXCEPT !.at = "mark"] \in Entry
    <3>1. rmv[j][a] \in Entry
      OBVIOUS
    <3>2. QED
      BY <3>1, MarkType
  <2>3. rmv' \in [Jobs -> [Removers -> Entry]]
    BY <1>0, <1>2, <1>a, <2>2 DEF RemoveContainerByName
  <2>4. QED
    BY <1>2, <2>1, <2>3 DEF RemoveContainerByName
<1>3. CASE RemoveFails(j, a)
  <2>1. rmv' \in [Jobs -> [Removers -> Entry]]
    BY <1>0, <1>3, <1>a DEF RemoveFails
  <2>2. QED
    BY <1>3, <2>1 DEF RemoveFails
<1>4. CASE DeleteContainerByUuid(j, a)
  <2>1. rmv' \in [Jobs -> [Removers -> Entry]]
    BY <1>0, <1>4, <1>a DEF DeleteContainerByUuid
  <2>2. row' \in [Requests -> Rows]
    BY <1>0, <1>4, StatusRows DEF DeleteContainerByUuid, Terminate
  <2>3. QED
    BY <1>4, <2>1, <2>2 DEF DeleteContainerByUuid, Rows
<1>5. QED
  BY <1>1, <1>2, <1>3, <1>4 DEF Remove

LEMMA NextTypes ==
    ASSUME TypeOK, [Next]_vars
    PROVE  TypeOK'
<1>1. CASE \E r \in Requests : Deploy(r)
  BY <1>1, DeployTypes
<1>2. ASSUME NEW r \in Requests, Exits(r) \/ ContainersPrune(r) \/ Age(r)
      PROVE  TypeOK'
  BY <1>2 DEF TypeOK, Exits, ContainersPrune, Age, Container
<1>3. CASE \E j \in Jobs, a \in Removers : Remove(j, a)
  BY <1>3, RemoveTypes
<1>4. CASE Sync
  BY <1>4, SyncTypes
<1>5. CASE Crash
  <2>1. Idle \in [at : {"off", "remove", "only", "mark"}, name : Names]
    BY DEF Idle, Names
  <2>2. rmv' \in [Jobs -> [Removers -> [at : {"off", "remove", "only", "mark"},
                                        name : Names]]]
    BY <1>5, <2>1 DEF Crash, TypeOK
  <2>3. QED
    BY <1>5, <2>2, NotSyncedType DEF Crash, TypeOK, Pcs
<1>6. CASE UNCHANGED vars
  BY <1>6 DEF TypeOK, vars
<1>7. QED
  BY <1>1, <1>2, <1>3, <1>4, <1>5, <1>6 DEF Next

\* Type correctness: whatever the handler, the goroutine, the cron and the
\* removers write, every variable keeps its type.
THEOREM EcpTypeCorrect == Spec => []TypeOK
<1>1. Init => TypeOK
  BY EcpJobAssumption, NotSyncedType
  DEF Init, TypeOK, Pcs, NoRow, Idle, Names, Statuses, Container
<1>2. TypeOK /\ [Next]_vars => TypeOK'
  BY NextTypes
<1>3. QED
  BY <1>1, <1>2, PTL DEF Spec

-----------------------------------------------------------------------------
\* Who reserves which GPU.

\* Before its row is saved a request has none to write to.
UnsavedInv == \A r \in Requests : pc[r] \in {"none", "checking", "picked"}
                                     => row[r].st = "none"

RaceInv == TypeOK /\ SharedOnlyByRace /\ PickedInv /\ UnsavedInv

\* No request picks a GPU, and no row reserves any, except by being revived.
NothingTaken ==
    /\ gpus' = gpus
    /\ \A r \in Requests :
         /\ pc'[r] = "picked" => pc[r] = "picked"
         /\ pc'[r] \in {"none", "checking", "picked"}
               => pc[r] \in {"none", "checking", "picked"}
         /\ row[r].st = "none" => row'[r].st = "none"
         /\ Reserved(r)' => Reserved(r) \/ revived'[r]
         /\ raced[r] => raced'[r]
         /\ revived[r] => revived'[r]

LEMMA NothingTakenKeeps ==
    ASSUME RaceInv, TypeOK', NothingTaken
    PROVE  RaceInv'
<1>1. SharedOnlyByRace'
  <2> SUFFICES ASSUME NEW q \in Requests, NEW r \in Requests, q # r,
                      Reserved(q)', Reserved(r)', gpus[q] \cap gpus[r] # {}
               PROVE  \E p \in {q, r} : raced'[p] \/ revived'[p]
    BY DEF SharedOnlyByRace, NothingTaken
  <2>1. CASE Reserved(q) /\ Reserved(r)
    <3>1. PICK p \in {q, r} : raced[p] \/ revived[p]
      BY <2>1 DEF RaceInv, SharedOnlyByRace
    <3>2. QED
      BY <3>1 DEF NothingTaken
  <2>2. CASE ~Reserved(q) \/ ~Reserved(r)
    BY <2>2 DEF NothingTaken
  <2>3. QED
    BY <2>1, <2>2
<1>2. PickedInv'
  <2> SUFFICES ASSUME NEW q \in Requests, NEW r \in Requests, q # r,
                      Reserved(q)', pc'[r] = "picked", gpus[q] \cap gpus[r] # {}
               PROVE  raced'[r] \/ revived'[q]
    BY DEF PickedInv, NothingTaken
  <2>1. CASE Reserved(q)
    BY <2>1 DEF RaceInv, PickedInv, NothingTaken
  <2>2. CASE ~Reserved(q)
    BY <2>2 DEF NothingTaken
  <2>3. QED
    BY <2>1, <2>2
<1>3. UnsavedInv'
  BY DEF UnsavedInv, RaceInv, NothingTaken
<1>4. QED
  BY <1>1, <1>2, <1>3 DEF RaceInv

\* A write that ends rows, and the write of a name, reserve nothing.
LEMMA EndingWrite ==
    ASSUME TypeOK, NEW j \in Jobs, NEW st \in {"terminated", "rejected", "failed"},
           UpdateEcpJobEntity(j, st), NEW r \in Requests
    PROVE  /\ row[r].st = "none" => row'[r].st = "none"
           /\ Reserved(r)' => Reserved(r)
<1>1. row'[r] = IF r \in RowsOf(j) THEN [row[r] EXCEPT !.st = st] ELSE row[r]
  BY DEF UpdateEcpJobEntity, Written
<1>2. row[r] \in [st : Statuses, name : Names]
  BY DEF TypeOK
<1>3. CASE r \in RowsOf(j)
  <2>1. row'[r].st = st
    BY <1>1, <1>2, <1>3
  <2>2. QED
    BY <1>3, <2>1 DEF RowsOf, Reserved
<1>4. CASE r \notin RowsOf(j)
  BY <1>1, <1>4 DEF Reserved
<1>5. QED
  BY <1>3, <1>4

LEMMA NamingWrite ==
    ASSUME TypeOK, NEW j \in Jobs, NEW name \in Names,
           UpdateEcpJobEntityContainerName(j, name), NEW r \in Requests
    PROVE  row'[r].st = row[r].st
<1>1. row'[r] = IF r \in RowsOf(j) THEN [row[r] EXCEPT !.name = name] ELSE row[r]
  BY DEF UpdateEcpJobEntityContainerName
<1>2. row[r] \in [st : Statuses, name : Names]
  BY DEF TypeOK
<1>3. QED
  BY <1>1, <1>2

\* Every step of a request's handler and goroutine.
LEMMA DeployRace ==
    ASSUME RaceInv, TypeOK', NEW r \in Requests, Deploy(r)
    PROVE  RaceInv'
<1> USE EcpJobAssumption DEF Step
<1>0. TypeOK /\ Uuid[r] \in Jobs
  BY DEF RaceInv
<1>1. CASE Receive(r)
  <2>1. NothingTaken
    BY <1>0, <1>1 DEF Receive, NothingTaken, Reserved, TypeOK
  <2>2. QED
    BY <2>1, NothingTakenKeeps
<1>2. CASE Refuse(r)
  <2>1. NothingTaken
    BY <1>0, <1>2, EndingWrite DEF Refuse, NothingTaken, TypeOK
  <2>2. QED
    BY <2>1, NothingTakenKeeps
<1>3. CASE Drop(r)
  <2>1. NothingTaken
    BY <1>0, <1>3 DEF Drop, NothingTaken, Reserved, TypeOK
  <2>2. QED
    BY <2>1, NothingTakenKeeps
<1>4. CASE Pick(r)
  <2>1. PICK free \in SUBSET (Gpus \ Taken) : gpus' = [gpus EXCEPT ![r] = free]
    BY <1>4 DEF Pick
  <2>2. \A q \in Requests : Reserved(q) => gpus[q] \cap free = {}
    BY <2>1 DEF Taken
  <2>3. \A q \in Requests : q # r => gpus'[q] = gpus[q] /\ pc'[q] = pc[q]
    BY <1>0, <1>4, <2>1 DEF Pick, TypeOK
  <2>4. gpus'[r] = free /\ row' = row /\ raced' = raced /\ revived' = revived
    BY <1>0, <1>4, <2>1 DEF Pick, TypeOK
  <2>5. ~Reserved(r)
    BY <1>4 DEF RaceInv, UnsavedInv, Pick, Reserved
  <2>6. SharedOnlyByRace'
    BY <2>3, <2>4, <2>5 DEF RaceInv, SharedOnlyByRace, Reserved
  <2>7. PickedInv'
    BY <2>2, <2>3, <2>4, <2>5 DEF RaceInv, PickedInv, Reserved
  <2>8. UnsavedInv'
    BY <1>4, <2>3, <2>4 DEF RaceInv, UnsavedInv, Pick
  <2>9. QED
    BY <2>6, <2>7, <2>8 DEF RaceInv
<1>5. CASE Save(r)
  <2>1. /\ gpus' = gpus /\ revived' = revived
        /\ \A q \in Requests : raced[q] => raced'[q]
        /\ \A q \in Requests : q # r /\ pc[q] = "picked" => raced'[q]
        /\ \A q \in Requests : q # r => Reserved(q)' = Reserved(q) /\ pc'[q] = pc[q]
        /\ pc[r] = "picked" /\ pc'[r] = "image"
    BY <1>0, <1>5 DEF Save, TypeOK, Reserved
  <2>2. SharedOnlyByRace'
    <3> SUFFICES ASSUME NEW q \in Requests, NEW p \in Requests, q # p,
                        Reserved(q)', Reserved(p)', gpus[q] \cap gpus[p] # {}
                 PROVE  \E o \in {q, p} : raced'[o] \/ revived'[o]
      BY <2>1 DEF SharedOnlyByRace
    <3>1. CASE q # r /\ p # r
      <4>1. PICK o \in {q, p} : raced[o] \/ revived[o]
        BY <2>1, <3>1 DEF RaceInv, SharedOnlyByRace
      <4>2. QED
        BY <2>1, <4>1
    <3>2. CASE q = r
      <4>1. raced[r] \/ revived[p]
        BY <2>1, <3>2 DEF RaceInv, PickedInv
      <4>2. QED
        BY <2>1, <3>2, <4>1
    <3>3. CASE p = r
      <4>1. raced[r] \/ revived[q]
        BY <2>1, <3>3 DEF RaceInv, PickedInv
      <4>2. QED
        BY <2>1, <3>3, <4>1
    <3>4. QED
      BY <3>1, <3>2, <3>3
  <2>3. PickedInv'
    BY <2>1 DEF RaceInv, PickedInv
  <2>4. UnsavedInv'
    BY <1>0, <1>5, <2>1 DEF RaceInv, UnsavedInv, Save, TypeOK
  <2>5. QED
    BY <2>2, <2>3, <2>4 DEF RaceInv
<1>6. CASE GetImage(r) \/ ContainerCreateAndStart(r)
  <2>1. NothingTaken
    BY <1>0, <1>6
    DEF GetImage, ContainerCreateAndStart, NothingTaken, Reserved, TypeOK
  <2>2. QED
    BY <2>1, NothingTakenKeeps
<1>7. CASE PullFails(r) \/ BuildFails(r) \/ ContainerFails(r)
  <2>1. NothingTaken
    BY <1>0, <1>7, EndingWrite
    DEF PullFails, BuildFails, ContainerFails, Terminate, NothingTaken, TypeOK
  <2>2. QED
    BY <2>1, NothingTakenKeeps
<1>8. CASE Confirm(r)
  <2>1. NothingTaken
    BY <1>0, <1>8, EndingWrite
    DEF Confirm, Terminate, NothingTaken, TypeOK, Reserved
  <2>2. QED
    BY <2>1, NothingTakenKeeps
<1>9. CASE Name(r)
  <2>1. NothingTaken
    BY <1>0, <1>9, NamingWrite DEF Name, Names, NothingTaken, TypeOK, Reserved
  <2>2. QED
    BY <2>1, NothingTakenKeeps
<1>10. QED
  BY <1>1, <1>2, <1>3, <1>4, <1>5, <1>6, <1>7, <1>8, <1>9 DEF Deploy

LEMMA NextRace ==
    ASSUME RaceInv, [Next]_vars
    PROVE  RaceInv'
<1> USE EcpJobAssumption
<1>0. TypeOK /\ TypeOK'
  BY NextTypes DEF RaceInv
<1>1. CASE \E r \in Requests : Deploy(r)
  BY <1>0, <1>1, DeployRace
<1>2. ASSUME NEW r \in Requests, Exits(r) \/ ContainersPrune(r) \/ Age(r)
      PROVE  NothingTaken
  BY <1>2 DEF Exits, ContainersPrune, Age, NothingTaken, Reserved
<1>3. ASSUME NEW j \in Jobs, NEW a \in Removers, Remove(j, a)
      PROVE  NothingTaken
  <2>1. CASE DeleteContainerByUuid(j, a)
    BY <1>0, <2>1, EndingWrite DEF DeleteContainerByUuid, Terminate, NothingTaken
  <2>2. CASE RemoveRead(j, a) \/ RemoveContainerByName(j, a) \/ RemoveFails(j, a)
    BY <2>2
    DEF RemoveRead, RemoveContainerByName, RemoveFails, NothingTaken, Reserved
  <2>3. QED
    BY <1>3, <2>1, <2>2 DEF Remove
<1>4. CASE SyncList \/ SyncInspect
  <2>1. NothingTaken
    BY <1>4 DEF SyncList, SyncReads, SyncInspect, NothingTaken, Reserved
  <2>2. QED
    BY <1>0, <2>1, NothingTakenKeeps
<1>5. ASSUME NEW r \in Requests, SyncWrite(r)
      PROVE  NothingTaken
  <2>1. \A q \in Requests : row[q].st = "none" => row'[q].st = "none"
    BY <1>5 DEF SyncWrite, UpdateEcpJobEntity, Written, RowsOf
  <2>2. \A q \in Requests : Reserved(q)' => Reserved(q) \/ revived'[q]
    BY <1>5 DEF SyncWrite, SyncNext
  <2>3. QED
    BY <1>5, <2>1, <2>2 DEF SyncWrite, SyncNext, NothingTaken
<1>6. CASE Crash
  <2>1. NothingTaken
    BY <1>0, <1>6 DEF Crash, NothingTaken, Reserved, TypeOK
  <2>2. QED
    BY <1>0, <2>1, NothingTakenKeeps
<1>7. CASE UNCHANGED vars
  <2>1. NothingTaken
    BY <1>7 DEF vars, NothingTaken, Reserved
  <2>2. QED
    BY <1>0, <2>1, NothingTakenKeeps
<1>8. QED
  BY <1>0, <1>1, <1>2, <1>3, <1>4, <1>5, <1>6, <1>7, NothingTakenKeeps DEF Next, Sync

LEMMA RaceStarts == Init => RaceInv
<1>1. Init => TypeOK
  BY EcpJobAssumption, NotSyncedType
  DEF Init, TypeOK, Pcs, NoRow, Idle, Names, Statuses, Container
<1>2. QED
  BY <1>1 DEF Init, RaceInv, SharedOnlyByRace, PickedInv, UnsavedInv, NoRow, Reserved

\* However many requests compete for however many GPUs, two rows reserve the
\* same one only after another row was saved between the check and the save of
\* one of them, or after the cron revived one of them (DeployJob,
\* checkResourceForImageAndMutilGpu, updateEcpTaskStatus).
THEOREM GpuSharedOnlyByRace == Spec => []SharedOnlyByRace
<1>1. Init => RaceInv
  BY RaceStarts
<1>2. RaceInv /\ [Next]_vars => RaceInv'
  BY NextRace
<1>3. RaceInv => SharedOnlyByRace
  BY DEF RaceInv
<1>4. QED
  BY <1>1, <1>2, <1>3, PTL DEF Spec

-----------------------------------------------------------------------------
\* Whose container a remover removes.

NameInv == TypeOK /\ NamesInv

\* Neither the names of the rows nor what the removers have read changes.
NamesKept ==
    /\ \A r \in Requests : row'[r].name \in {row[r].name, NoName}
    /\ \A j \in Jobs, a \in Removers : rmv'[j][a] \in {rmv[j][a], Idle}

LEMMA NamesKeptKeeps ==
    ASSUME NameInv, NamesKept
    PROVE  NamesInv'
<1>1. \A r \in Requests : row'[r].name # NoName => Uuid[row'[r].name] = Uuid[r]
  BY DEF NameInv, NamesInv, NamesKept
<1>2. \A j \in Jobs, a \in Removers :
         rmv'[j][a].name # NoName => Uuid[rmv'[j][a].name] = j
  BY DEF NameInv, NamesInv, NamesKept, Idle
<1>3. \A j \in Jobs : rmv'[j]["api"].at # "off" => rmv'[j]["api"].name # NoName
  BY DEF NameInv, NamesInv, NamesKept, Idle, Removers
<1>4. QED
  BY <1>1, <1>2, <1>3 DEF NamesInv

\* Writing a status leaves the names.
LEMMA StatusKeepsNames ==
    ASSUME TypeOK, NEW j \in Jobs, NEW st \in Statuses, UpdateEcpJobEntity(j, st),
           NEW r \in Requests
    PROVE  row'[r].name = row[r].name
<1>1. row'[r] = IF r \in RowsOf(j) THEN [row[r] EXCEPT !.st = st] ELSE row[r]
  BY DEF UpdateEcpJobEntity, Written
<1>2. row[r] \in [st : Statuses, name : Names]
  BY DEF TypeOK
<1>3. QED
  BY <1>1, <1>2

LEMMA DeployNames ==
    ASSUME NameInv, NEW r \in Requests, Deploy(r)
    PROVE  NamesInv'
<1> USE EcpJobAssumption
<1>0. TypeOK /\ Uuid[r] \in Jobs /\ {"terminated", "rejected", "failed"} \subseteq Statuses
  BY DEF NameInv, TypeOK, Statuses
<1>1. CASE Receive(r) \/ Drop(r) \/ Pick(r) \/ GetImage(r) \/ ContainerCreateAndStart(r)
  <2>1. NamesKept
    BY <1>1
    DEF Receive, Drop, Pick, GetImage, ContainerCreateAndStart, NamesKept
  <2>2. QED
    BY <2>1, NamesKeptKeeps
<1>2. CASE Refuse(r) \/ PullFails(r) \/ BuildFails(r) \/ ContainerFails(r) \/ Confirm(r)
  <2>1. \A q \in Requests : row'[q].name = row[q].name
    BY <1>0, <1>2, StatusKeepsNames
    DEF Refuse, PullFails, BuildFails, ContainerFails, Confirm, Terminate
  <2>2. rmv' = rmv
    BY <1>2 DEF Refuse, PullFails, BuildFails, ContainerFails, Confirm
  <2>3. QED
    BY <2>1, <2>2, NamesKeptKeeps DEF NamesKept
<1>3. CASE Save(r)
  <2>1. \A q \in Requests : row'[q].name \in {row[q].name, NoName}
    BY <1>0, <1>3 DEF Save, TypeOK
  <2>2. QED
    BY <1>3, <2>1, NamesKeptKeeps DEF Save, NamesKept
<1>4. CASE Name(r)
  <2>1. \A q \in Requests : \/ row'[q].name = row[q].name
                            \/ row'[q].name = r /\ Uuid[q] = Uuid[r]
    <3> SUFFICES ASSUME NEW q \in Requests
                 PROVE  \/ row'[q].name = row[q].name
                        \/ row'[q].name = r /\ Uuid[q] = Uuid[r]
      OBVIOUS
    <3>1. row'[q] = IF q \in RowsOf(Uuid[r]) THEN [row[q] EXCEPT !.name = r] ELSE row[q]
      BY <1>4 DEF Name, UpdateEcpJobEntityContainerName
    <3>2. row[q] \in [st : Statuses, name : Names]
      BY <1>0 DEF TypeOK
    <3>3. CASE q \in RowsOf(Uuid[r])
      <4>1. row'[q].name = r
        BY <3>1, <3>2, <3>3
      <4>2. QED
        BY <3>3, <4>1 DEF RowsOf
    <3>4. CASE q \notin RowsOf(Uuid[r])
      <4>1. row'[q] = row[q]
        BY <3>1, <3>4, Zenon
      <4>2. QED
        BY <4>1
    <3>5. QED
      BY <3>3, <3>4
  <2>2. rmv' = rmv
    BY <1>4 DEF Name
  <2>3. QED
    BY <2>1, <2>2 DEF NameInv, NamesInv
<1>5. QED
  BY <1>1, <1>2, <1>3, <1>4 DEF Deploy

LEMMA RemoveNames ==
    ASSUME NameInv, NEW j \in Jobs, NEW a \in Removers, Remove(j, a)
    PROVE  NamesInv'
<1> USE EcpJobAssumption
<1>0. TypeOK /\ "terminated" \in Statuses
  BY DEF NameInv, Statuses
<1>1. CASE RemoveRead(j, a)
  <2>0. row' = row
    BY <1>1 DEF RemoveRead
  <2>1. \A i \in Jobs, b \in Removers : rmv'[i][b] = rmv[i][b] \/ (i = j /\ b = a)
    BY <1>0, <1>1 DEF RemoveRead, TypeOK
  <2>2. CASE RowsOf(j) = {} /\ a # "api"
    <3>1. rmv'[j][a] = [at |-> "only", name |-> NoName]
      BY <1>0, <1>1, <2>2 DEF RemoveRead, TypeOK
    <3>2. QED
      BY <2>0, <2>1, <2>2, <3>1 DEF NameInv, NamesInv, Removers
  <2>3. CASE ~(RowsOf(j) = {} /\ a # "api")
    <3>1. PICK r \in RowsOf(j) :
             /\ a = "api" => row[r].name # NoName
             /\ rmv' = [rmv EXCEPT ![j][a] = [at |-> "remove", name |-> row[r].name]]
      BY <1>1, <2>3 DEF RemoveRead
    <3>2. rmv'[j][a] = [at |-> "remove", name |-> row[r].name]
      BY <1>0, <3>1 DEF TypeOK
    <3>3. r \in Requests /\ Uuid[r] = j
      BY DEF RowsOf
    <3>4. QED
      BY <2>0, <2>1, <3>1, <3>2, <3>3 DEF NameInv, NamesInv, Removers
  <2>4. QED
    BY <2>2, <2>3
<1>2. CASE RemoveContainerByName(j, a)
  <2>1. \A i \in Jobs, b \in Removers : rmv'[i][b] = rmv[i][b] \/ (i = j /\ b = a)
    BY <1>0, <1>2 DEF RemoveContainerByName, TypeOK
  <2>2. rmv'[j][a] = Idle \/ rmv'[j][a].name = rmv[j][a].name
    BY <1>0, <1>2 DEF RemoveContainerByName, TypeOK
  <2>3. row' = row /\ rmv[j][a].at \in {"remove", "only"}
    BY <1>2 DEF RemoveContainerByName
  <2>4. QED
    BY <2>1, <2>2, <2>3 DEF NameInv, NamesInv, Idle, Removers
<1>3. CASE RemoveFails(j, a)
  <2>1. NamesKept
    BY <1>0, <1>3 DEF RemoveFails, NamesKept, TypeOK
  <2>2. QED
    BY <2>1, NamesKeptKeeps
<1>4. CASE DeleteContainerByUuid(j, a)
  <2>1. \A q \in Requests : row'[q].name = row[q].name
    BY <1>0, <1>4, StatusKeepsNames DEF DeleteContainerByUuid, Terminate
  <2>2. NamesKept
    BY <1>0, <1>4, <2>1 DEF DeleteContainerByUuid, NamesKept, TypeOK
  <2>3. QED
    BY <2>2, NamesKeptKeeps
<1>5. QED
  BY <1>1, <1>2, <1>3, <1>4 DEF Remove

LEMMA NextNames ==
    ASSUME NameInv, [Next]_vars
    PROVE  NameInv'
<1> USE EcpJobAssumption
<1>0. TypeOK /\ TypeOK'
  BY NextTypes DEF NameInv
<1>1. CASE \E r \in Requests : Deploy(r)
  BY <1>0, <1>1, DeployNames DEF NameInv
<1>2. ASSUME NEW r \in Requests, Exits(r) \/ ContainersPrune(r) \/ Age(r)
      PROVE  NamesKept
  BY <1>2 DEF Exits, ContainersPrune, Age, NamesKept
<1>3. CASE \E j \in Jobs, a \in Removers : Remove(j, a)
  BY <1>0, <1>3, RemoveNames DEF NameInv
<1>4. CASE SyncList \/ SyncInspect
  <2>1. NamesKept
    BY <1>4 DEF SyncList, SyncReads, SyncInspect, NamesKept
  <2>2. QED
    BY <1>0, <2>1, NamesKeptKeeps DEF NameInv
<1>5. ASSUME NEW r \in Requests, SyncWrite(r)
      PROVE  NamesKept
  <2>1. sync.st[r] \in Statuses /\ Uuid[r] \in Jobs
    BY <1>0 DEF TypeOK
  <2>2. \A q \in Requests : row'[q].name = row[q].name
    BY <1>0, <1>5, <2>1, StatusKeepsNames DEF SyncWrite
  <2>3. QED
    BY <1>5, <2>2 DEF SyncWrite, SyncNext, NamesKept
<1>6. CASE Crash
  <2>1. NamesKept
    BY <1>0, <1>6 DEF Crash, NamesKept, TypeOK
  <2>2. QED
    BY <1>0, <2>1, NamesKeptKeeps DEF NameInv
<1>7. CASE UNCHANGED vars
  <2>1. NamesKept
    BY <1>7 DEF vars, NamesKept
  <2>2. QED
    BY <1>0, <2>1, NamesKeptKeeps DEF NameInv
<1>8. QED
  BY <1>0, <1>1, <1>2, <1>3, <1>4, <1>5, <1>6, <1>7, NamesKeptKeeps
  DEF Next, Sync, NameInv

\* Only RemoveContainerByName takes a running container away.
LEMMA RemovalStep ==
    ASSUME NameInv, [Next]_vars, NEW r \in Requests, Uses(r), ctr'[r] = "none"
    PROVE  \/ \E a \in Removers : rmv[Uuid[r]][a].name = r
           \/ \E j \in Jobs, a \in Removers \ {"api"} :
                /\ rmv[j][a].at \in {"remove", "only"}
                /\ rmv[j][a].name = NoName
                /\ rmv'[j][a] # rmv[j][a]
<1> USE EcpJobAssumption
<1>0. TypeOK /\ ctr \in [Requests -> Container]
  BY DEF NameInv, TypeOK
<1>1. PICK j \in Jobs, a \in Removers : RemoveContainerByName(j, a)
  <2>1. ctr' # ctr
    BY DEF Uses
  <2>2. \A q \in Requests : ~Deploy(q)
    BY <1>0 DEF Uses, Deploy, Step, Receive, Refuse, Drop, Pick, Save, GetImage,
         PullFails, BuildFails, ContainerCreateAndStart, ContainerFails, Confirm, Name
  <2>3. \A q \in Requests : ~Exits(q) /\ ~ContainersPrune(q) /\ ~Age(q)
    BY <1>0 DEF Uses, Exits, ContainersPrune, Age
  <2>4. ~Sync /\ ~Crash
    BY <2>1 DEF Sync, SyncList, SyncReads, SyncInspect, SyncWrite, SyncNext, Crash
  <2>5. PICK j \in Jobs, a \in Removers : Remove(j, a)
    BY <2>1, <2>2, <2>3, <2>4 DEF Next, vars
  <2>6. RemoveContainerByName(j, a)
    BY <2>1, <2>5 DEF Remove, RemoveRead, RemoveFails, DeleteContainerByUuid
  <2>7. QED
    BY <2>6
<1>2. Matches(r, rmv[j][a].name)
  BY <1>0, <1>1 DEF RemoveContainerByName, Uses
<1>3. CASE rmv[j][a].name = r
  BY <1>3 DEF NameInv, NamesInv
<1>4. CASE rmv[j][a].name = NoName
  <2>1. rmv[j][a].at \in {"remove", "only"} /\ a # "api"
    BY <1>1, <1>4 DEF RemoveContainerByName, NameInv, NamesInv
  <2>2. rmv'[j][a].at \in {"mark", "off"}
    BY <1>0, <1>1 DEF RemoveContainerByName, Idle, TypeOK
  <2>3. QED
    BY <1>4, <2>1, <2>2
<1>5. QED
  BY <1>2, <1>3, <1>4 DEF Matches

\* A running container is removed by a remover of its own job that has read its
\* name, or by the command line or a payment event that has read no name; the
\* API never removes another job's (DeleteJob, task delete, handleEdgeTask,
\* RemoveContainerByName).
THEOREM RemovedByOwnNameOrNameless == Spec => RemovedByNameOrNameless
<1>1. Init => NameInv
  <2>1. Init => TypeOK
    BY EcpJobAssumption, NotSyncedType
    DEF Init, TypeOK, Pcs, NoRow, Idle, Names, Statuses, Container
  <2>2. Init => NamesInv
    BY DEF Init, NamesInv, NoRow, Idle, Removers
  <2>3. QED
    BY <2>1, <2>2 DEF NameInv
<1>2. NameInv /\ [Next]_vars => NameInv'
  BY NextNames
<1>3. NameInv /\ [Next]_vars =>
        [\A r \in Requests : (Uses(r) /\ ctr'[r] = "none")
            => \/ \E a \in Removers : rmv[Uuid[r]][a].name = r
               \/ \E j \in Jobs, a \in Removers \ {"api"} :
                     /\ rmv[j][a].at \in {"remove", "only"}
                     /\ rmv[j][a].name = NoName
                     /\ rmv'[j][a] # rmv[j][a]]_vars
  BY RemovalStep
<1>4. QED
  BY <1>1, <1>2, <1>3, PTL DEF Spec, RemovedByNameOrNameless

-----------------------------------------------------------------------------
(* Reservations of running containers. A name is written down, be it in a  *)
(* row, by the cron or by a remover, only when the goroutine of its        *)
(* request is over, and from then on the container by that name does not   *)
(* start any more: what docker said of it, or what a remover made of it,   *)
(* can be out of date in one direction only.                               *)

Unstarted == {"none", "checking", "picked", "image", "create"}

FreshInv == \A r \in Requests : pc[r] \in Unstarted => ctr[r] = "none"

RowNames == \A q, r \in Requests : row[q].name = r => pc[r] = "over"

SyncNames ==
    \A q, r \in Requests : sync.name[q] = r =>
        /\ pc[r] = "over"
        /\ sync.at = "seen" /\ q \in sync.rows /\ ctr[r] = "running"
              => sync.st[q] = "running"

RemoverNames ==
    \A j \in Jobs, a \in Removers, r \in Requests : rmv[j][a].name = r =>
        /\ pc[r] = "over"
        /\ rmv[j][a].at = "mark" => ctr[r] # "running"

HoldInv == FreshInv /\ RowNames /\ SyncNames /\ RemoverNames

\* A goroutine that is over stays so, and its container does not start.
LEMMA OverStays ==
    ASSUME TypeOK, [Next]_vars, NEW r \in Requests, pc[r] = "over"
    PROVE  pc'[r] = "over" /\ (ctr'[r] = "running" => ctr[r] = "running")
<1>1. pc \in [Requests -> Pcs] /\ ctr \in [Requests -> Container]
  BY DEF TypeOK
<1>2. ASSUME NEW q \in Requests, Deploy(q)
      PROVE  pc'[r] = "over" /\ (ctr'[r] = "running" => ctr[r] = "running")
  <2>1. q # r /\ pc'[r] = pc[r]
    BY <1>1, <1>2 DEF Deploy, Step, Receive, Refuse, Drop, Pick, Save, GetImage, PullFails,
       BuildFails, ContainerCreateAndStart, ContainerFails, Confirm, Name
  <2>2. ctr'[r] = ctr[r]
    BY <1>1, <1>2, <2>1 DEF Deploy, Receive, Refuse, Drop, Pick, Save, GetImage, PullFails,
       BuildFails, ContainerCreateAndStart, ContainerFails, Confirm, Name
  <2>3. QED
    BY <2>1, <2>2
<1>3. ASSUME NEW q \in Requests, Exits(q) \/ ContainersPrune(q) \/ Age(q)
      PROVE  pc'[r] = "over" /\ (ctr'[r] = "running" => ctr[r] = "running")
  BY <1>1, <1>3 DEF Exits, ContainersPrune, Age
<1>4. ASSUME NEW j \in Jobs, NEW a \in Removers, Remove(j, a)
      PROVE  pc'[r] = "over" /\ (ctr'[r] = "running" => ctr[r] = "running")
  BY <1>1, <1>4 DEF Remove, RemoveRead, RemoveContainerByName, RemoveFails,
     DeleteContainerByUuid
<1>5. CASE Sync
  BY <1>5 DEF Sync, SyncList, SyncReads, SyncInspect, SyncWrite, SyncNext
<1>6. CASE Crash
  BY <1>1, <1>6 DEF Crash
<1>7. CASE UNCHANGED vars
  BY <1>7 DEF vars
<1>8. QED
  BY <1>2, <1>3, <1>4, <1>5, <1>6, <1>7 DEF Next

LEMMA FreshStep ==
    ASSUME TypeOK, FreshInv, [Next]_vars
    PROVE  FreshInv'
<1> SUFFICES ASSUME NEW r \in Requests, pc'[r] \in Unstarted
             PROVE  ctr'[r] = "none"
  BY DEF FreshInv
<1>1. pc \in [Requests -> Pcs] /\ ctr \in [Requests -> Container]
  BY DEF TypeOK
<1>2. pc[r] \in Unstarted => ctr[r] = "none"
  BY DEF FreshInv
<1>3. ASSUME NEW q \in Requests, Deploy(q)
      PROVE  ctr'[r] = "none"
  <2>1. CASE q = r
    BY <1>1, <1>2, <1>3, <2>1 DEF Deploy, Step, Receive, Refuse, Drop, Pick, Save, GetImage,
       PullFails, BuildFails, ContainerCreateAndStart, ContainerFails, Confirm, Name, Unstarted
  <2>2. CASE q # r
    <3>1. pc'[r] = pc[r] /\ ctr'[r] = ctr[r]
      BY <1>1, <1>3, <2>2 DEF Deploy, Step, Receive, Refuse, Drop, Pick, Save, GetImage,
         PullFails, BuildFails, ContainerCreateAndStart, ContainerFails, Confirm, Name
    <3>2. QED
      BY <1>2, <3>1
  <2>3. QED
    BY <2>1, <2>2
<1>4. ASSUME NEW q \in Requests, Exits(q) \/ ContainersPrune(q) \/ Age(q)
      PROVE  ctr'[r] = "none"
  BY <1>1, <1>2, <1>4 DEF Exits, ContainersPrune, Age
<1>5. ASSUME NEW j \in Jobs, NEW a \in Removers, Remove(j, a)
      PROVE  ctr'[r] = "none"
  BY <1>1, <1>2, <1>5 DEF Remove, RemoveRead, RemoveContainerByName, RemoveFails,
     DeleteContainerByUuid
<1>6. CASE Sync
  BY <1>2, <1>6 DEF Sync, SyncList, SyncReads, SyncInspect, SyncWrite, SyncNext
<1>7. CASE Crash
  BY <1>1, <1>2, <1>7 DEF Crash, Unstarted
<1>8. CASE UNCHANGED vars
  BY <1>2, <1>8 DEF vars
<1>9. QED
  BY <1>3, <1>4, <1>5, <1>6, <1>7, <1>8 DEF Next

\* A name gets into a row when the goroutine of that name ends, and is lost when the row
\* is saved anew.
LEMMA RowNameSteps ==
    ASSUME TypeOK, [Next]_vars, NEW q \in Requests
    PROVE  \/ row'[q].name \in {row[q].name, NoName}
           \/ pc'[row'[q].name] = "over"
<1> USE EcpJobAssumption
<1>1. /\ pc \in [Requests -> Pcs] /\ {"terminated", "rejected", "failed"} \subseteq Statuses
      /\ Uuid \in [Requests -> Jobs]
      /\ row \in [Requests -> [st : Statuses, name : Names]]
      /\ sync.st \in [Requests -> Statuses]
  BY DEF TypeOK, Statuses
<1>2. ASSUME NEW r \in Requests, Deploy(r)
      PROVE  row'[q].name \in {row[q].name, NoName} \/ pc'[row'[q].name] = "over"
  <2>1. CASE Receive(r) \/ Drop(r) \/ Pick(r) \/ GetImage(r) \/ ContainerCreateAndStart(r)
    BY <2>1 DEF Receive, Drop, Pick, GetImage, ContainerCreateAndStart
  <2>2. CASE Refuse(r) \/ PullFails(r) \/ BuildFails(r) \/ ContainerFails(r) \/ Confirm(r)
    BY <1>1, <2>2, StatusKeepsNames DEF Refuse, PullFails, BuildFails, ContainerFails,
       Confirm, Terminate
  <2>3. CASE Save(r)
    BY <1>1, <2>3 DEF Save
  <2>4. CASE Name(r)
    <3>1. row'[q] = IF q \in RowsOf(Uuid[r]) THEN [row[q] EXCEPT !.name = r] ELSE row[q]
      BY <2>4 DEF Name, UpdateEcpJobEntityContainerName
    <3>2. [row[q] EXCEPT !.name = r].name = r
      BY <1>1
    <3>3. pc'[r] = "over"
      BY <1>1, <2>4 DEF Name, Step
    <3>4. QED
      BY <3>1, <3>2, <3>3
  <2>5. QED
    BY <1>2, <2>1, <2>2, <2>3, <2>4 DEF Deploy
<1>3. ASSUME NEW r \in Requests, Exits(r) \/ ContainersPrune(r) \/ Age(r)
      PROVE  row' = row
  BY <1>3 DEF Exits, ContainersPrune, Age
<1>4. ASSUME NEW j \in Jobs, NEW a \in Removers, Remove(j, a)
      PROVE  row'[q].name = row[q].name
  BY <1>1, <1>4, StatusKeepsNames DEF Remove, RemoveRead, RemoveContainerByName, RemoveFails,
     DeleteContainerByUuid, Terminate
<1>5. CASE SyncList \/ SyncInspect \/ Crash \/ UNCHANGED vars
  BY <1>5 DEF SyncList, SyncReads, SyncInspect, Crash, vars
<1>6. ASSUME NEW r \in Requests, SyncWrite(r)
      PROVE  row'[q].name = row[q].name
  BY <1>1, <1>6, StatusKeepsNames DEF SyncWrite
<1>7. QED
  BY <1>2, <1>3, <1>4, <1>5, <1>6 DEF Next, Sync

LEMMA RowNamesStep ==
    ASSUME TypeOK, RowNames, [Next]_vars
    PROVE  RowNames'
<1> SUFFICES ASSUME NEW q \in Requests, NEW r \in Requests, row'[q].name = r
             PROVE  pc'[r] = "over"
  BY DEF RowNames
<1>1. r # NoName
  BY EcpJobAssumption
<1>2. CASE row[q].name = r
  BY <1>2, OverStays DEF RowNames
<1>3. CASE row[q].name # r
  BY <1>1, <1>3, RowNameSteps
<1>4. QED
  BY <1>2, <1>3

LEMMA SyncNamesStep ==
    ASSUME TypeOK, RowNames, SyncNames, [Next]_vars
    PROVE  SyncNames'
<1> SUFFICES ASSUME NEW q \in Requests, NEW r \in Requests, sync'.name[q] = r
             PROVE  /\ pc'[r] = "over"
                    /\ sync'.at = "seen" /\ q \in sync'.rows /\ ctr'[r] = "running"
                          => sync'.st[q] = "running"
  BY DEF SyncNames
<1> DEFINE Syncs == [at : {"off", "listed", "seen"}, rows : SUBSET Requests,
                     name : [Requests -> Names], st : [Requests -> Statuses]]
<1>1. sync \in Syncs /\ r # NoName /\ ctr \in [Requests -> Container]
  BY EcpJobAssumption DEF TypeOK
<1>2. ~(sync' = NotSynced)
  BY <1>1 DEF NotSynced
<1>3. CASE sync' = sync
  <2>1. pc[r] = "over"
    BY <1>3 DEF SyncNames
  <2>2. pc'[r] = "over" /\ (ctr'[r] = "running" => ctr[r] = "running")
    BY <2>1, OverStays
  <2>3. QED
    BY <1>3, <2>2 DEF SyncNames
<1>4. CASE SyncList
  <2>1. PICK rows \in SUBSET Requests : SyncReads(rows)
    BY <1>4 DEF SyncList
  <2> DEFINE names == [p \in Requests |-> IF p \in rows THEN row[p].name ELSE NoName]
  <2>2. sync' = [NotSynced EXCEPT !.at = "listed", !.rows = rows, !.name = names]
        /\ pc' = pc
    BY <2>1 DEF SyncReads
  <2>3. sync'.at = "listed" /\ sync'.name = names
    BY <2>2 DEF NotSynced
  <2>4. row[q].name = r
    BY <1>1, <2>3
  <2>5. QED
    BY <2>2, <2>3, <2>4 DEF RowNames
<1>5. CASE SyncInspect
  <2> DEFINE states == [p \in Requests |-> IF p \in sync.rows
                                           THEN State(sync.name[p]) ELSE "none"]
  <2>1. sync' = [sync EXCEPT !.at = "seen", !.st = states] /\ pc' = pc /\ ctr' = ctr
    BY <1>2, <1>5 DEF SyncInspect
  <2> HIDE DEF states
  <2>2. sync'.name = sync.name /\ sync'.rows = sync.rows /\ sync'.st = states
    BY <1>1, <2>1
  <2>3. pc[r] = "over"
    BY <2>2 DEF SyncNames
  <2>4. q \in sync.rows => states[q] = State(r)
    BY <2>2 DEF states
  <2>5. ctr[r] = "running" => State(r) = "running"
    BY <1>1 DEF State
  <2>6. QED
    BY <2>1, <2>2, <2>3, <2>4, <2>5
<1>6. ASSUME NEW p \in Requests, SyncWrite(p)
      PROVE  /\ pc'[r] = "over"
             /\ sync'.at = "seen" /\ q \in sync'.rows /\ ctr'[r] = "running"
                   => sync'.st[q] = "running"
  <2> DEFINE names == [sync.name EXCEPT ![p] = NoName]
             states == [sync.st EXCEPT ![p] = "none"]
             left == sync.rows \ {p}
  <2>1. sync.at = "seen" /\ sync' = [sync EXCEPT !.rows = left, !.name = names, !.st = states]
        /\ pc' = pc /\ ctr' = ctr
    BY <1>1, <1>2, <1>6 DEF SyncWrite, SyncNext
  <2>2. /\ names[q] \in {sync.name[q], NoName} /\ (q # p => states[q] = sync.st[q])
        /\ left \subseteq sync.rows /\ p \notin left
    BY <1>1
  <2> HIDE DEF names, states, left
  <2>3. sync'.name = names /\ sync'.rows = left /\ sync'.st = states
    BY <1>1, <2>1
  <2>4. sync.name[q] = r
    BY <1>1, <2>2, <2>3
  <2>5. QED
    BY <2>1, <2>2, <2>3, <2>4 DEF SyncNames
<1>7. sync' = sync \/ SyncList \/ SyncInspect \/ \E p \in Requests : SyncWrite(p)
  <2>1. \A p \in Requests : Deploy(p) => sync' = sync
    BY DEF Deploy, Receive, Refuse, Drop, Pick, Save, GetImage, PullFails, BuildFails,
       ContainerCreateAndStart, ContainerFails, Confirm, Name
  <2>2. \A p \in Requests : Exits(p) \/ ContainersPrune(p) \/ Age(p) => sync' = sync
    BY DEF Exits, ContainersPrune, Age
  <2>3. \A j \in Jobs, a \in Removers : Remove(j, a) => sync' = sync
    BY DEF Remove, RemoveRead, RemoveContainerByName, RemoveFails, DeleteContainerByUuid
  <2>4. QED
    BY <1>2, <2>1, <2>2, <2>3 DEF Next, Sync, Crash, vars
<1>8. QED
  BY <1>3, <1>4, <1>5, <1>6, <1>7

LEMMA RemoverNamesStep ==
    ASSUME TypeOK, RowNames, RemoverNames, [Next]_vars
    PROVE  RemoverNames'
<1> SUFFICES ASSUME NEW j \in Jobs, NEW a \in Removers, NEW r \in Requests,
                    rmv'[j][a].name = r
             PROVE  /\ pc'[r] = "over"
                    /\ rmv'[j][a].at = "mark" => ctr'[r] # "running"
  BY DEF RemoverNames
<1> DEFINE Entry == [at : {"off", "remove", "only", "mark"}, name : Names]
<1>1. rmv \in [Jobs -> [Removers -> Entry]] /\ r # NoName /\ ctr \in [Requests -> Container]
  BY EcpJobAssumption DEF TypeOK
<1>2. rmv'[j][a] # Idle
  BY <1>1 DEF Idle
<1>3. CASE rmv'[j][a] = rmv[j][a]
  <2>1. pc[r] = "over" /\ (rmv[j][a].at = "mark" => ctr[r] # "running")
    BY <1>3 DEF RemoverNames
  <2>2. pc'[r] = "over" /\ (ctr'[r] = "running" => ctr[r] = "running")
    BY <2>1, OverStays
  <2>3. QED
    BY <1>3, <2>1, <2>2
<1>4. CASE RemoveRead(j, a)
  <2>1. \/ \E q \in Requests : rmv'[j][a] = [at |-> "remove", name |-> row[q].name]
        \/ rmv'[j][a] = [at |-> "only", name |-> NoName]
    BY <1>1, <1>4 DEF RemoveRead, RowsOf
  <2>2. PICK q \in Requests : rmv'[j][a] = [at |-> "remove", name |-> row[q].name]
    BY <1>1, <2>1
  <2>3. pc[r] = "over" /\ rmv'[j][a].at = "remove"
    BY <2>2 DEF RowNames
  <2>4. QED
    BY <1>4, <2>3 DEF RemoveRead
<1>5. CASE RemoveContainerByName(j, a)
  <2>1. rmv'[j][a] = [rmv[j][a] EXCEPT !.at = "mark"]
    BY <1>1, <1>2, <1>5 DEF RemoveContainerByName
  <2>2. rmv[j][a].name = r
    <3>1. rmv[j][a] \in Entry
      BY <1>1
    <3>2. QED
      BY <2>1, <3>1
  <2>3. pc[r] = "over" /\ pc' = pc
    BY <1>5, <2>2 DEF RemoverNames, RemoveContainerByName
  <2>4. ctr'[r] # "running"
    <3>1. CASE \E q \in Requests : Matches(q, r) /\ ctr' = [ctr EXCEPT ![q] = "none"]
      BY <1>1, <3>1 DEF Matches
    <3>2. CASE ~Matches(r, r) /\ ctr' = ctr
      BY <3>2 DEF Matches
    <3>3. QED
      BY <1>1, <1>5, <2>2, <3>1, <3>2 DEF RemoveContainerByName
  <2>5. QED
    BY <2>3, <2>4
<1>6. \/ rmv'[j][a] = rmv[j][a] \/ RemoveRead(j, a) \/ RemoveContainerByName(j, a)
  <2>1. ASSUME NEW q \in Requests, Deploy(q)
        PROVE  rmv' = rmv
    BY <2>1 DEF Deploy, Receive, Refuse, Drop, Pick, Save, GetImage, PullFails, BuildFails,
       ContainerCreateAndStart, ContainerFails, Confirm, Name
  <2>2. ASSUME NEW q \in Requests, Exits(q) \/ ContainersPrune(q) \/ Age(q)
        PROVE  rmv' = rmv
    BY <2>2 DEF Exits, ContainersPrune, Age
  <2>3. ASSUME NEW k \in Jobs, NEW b \in Removers, Remove(k, b)
        PROVE  \/ rmv'[j][a] = rmv[j][a] \/ RemoveRead(j, a) \/ RemoveContainerByName(j, a)
    <3>1. CASE k = j /\ b = a
      BY <1>1, <1>2, <2>3, <3>1 DEF Remove, RemoveFails, DeleteContainerByUuid
    <3>2. CASE ~(k = j /\ b = a)
      <4>1. \E e : rmv' = [rmv EXCEPT ![k][b] = e]
        BY <2>3 DEF Remove, RemoveRead, RemoveContainerByName, RemoveFails,
           DeleteContainerByUuid
      <4>2. QED
        BY <1>1, <3>2, <4>1
    <3>3. QED
      BY <3>1, <3>2
  <2>4. CASE Sync
    BY <2>4 DEF Sync, SyncList, SyncReads, SyncInspect, SyncWrite, SyncNext
  <2>5. CASE Crash
    BY <1>1, <1>2, <2>5 DEF Crash
  <2>6. CASE UNCHANGED vars
    BY <2>6 DEF vars
  <2>7. QED
    BY <2>1, <2>2, <2>3, <2>4, <2>5, <2>6 DEF Next
<1>7. QED
  BY <1>3, <1>4, <1>5, <1>6

\* HoldInv is inductive beside the types.
THEOREM HoldInvariant == Spec => []HoldInv
<1>1. Init => HoldInv
  BY EcpJobAssumption DEF Init, HoldInv, FreshInv, RowNames, SyncNames, RemoverNames, NoRow,
     NotSynced, Idle
<1>2. TypeOK /\ HoldInv /\ [Next]_vars => HoldInv'
  BY FreshStep, RowNamesStep, SyncNamesStep, RemoverNamesStep DEF HoldInv
<1>3. QED
  BY <1>1, <1>2, EcpTypeCorrect, PTL DEF Spec

\* A write of a status changes the rows of its job only.
LEMMA StatusWrite ==
    ASSUME TypeOK, NEW j \in Jobs, NEW st \in Statuses, UpdateEcpJobEntity(j, st),
           NEW r \in Requests, row'[r].st # row[r].st
    PROVE  Uuid[r] = j /\ row'[r].st = st
<1>1. row'[r] = IF r \in RowsOf(j) THEN [row[r] EXCEPT !.st = st] ELSE row[r]
  BY DEF UpdateEcpJobEntity, Written
<1>2. row[r] \in [st : Statuses, name : Names]
  BY DEF TypeOK
<1>3. r \in RowsOf(j)
  BY <1>1
<1>4. QED
  BY <1>1, <1>2, <1>3 DEF RowsOf

\* The ways in which a running container may lose its reservation.
Excuse(r) ==
    \/ pc[r] = "create" /\ ~Reserved(r)
    \/ pc[r] = "confirm" /\ pc'[r] = "over" /\ "docker" \in Faults
    \/ \E q \in Requests :
          /\ Uuid[q] = Uuid[r]
          /\ \/ sync.at = "seen" /\ q \in sync.rows /\ aged[q]
                /\ sync.name[q] # r
             \/ q # r /\ pc[q] # "over" /\ pc'[q] \in {"create", "over"}
    \/ \E a \in Removers :
          rmv[Uuid[r]][a].at = "mark" /\ rmv[Uuid[r]][a].name # r

\* The row of a request with a running container is ended by its own handler and
\* goroutine only when docker does not answer, and otherwise by another request.
LEMMA DeployEnds ==
    ASSUME TypeOK, UnsavedInv, FreshInv, NEW q \in Requests, Deploy(q),
           NEW r \in Requests, ctr[r] = "running", ctr'[r] = "running",
           Reserved(r), ~Reserved(r)'
    PROVE  Excuse(r)
<1> USE EcpJobAssumption
<1>1. /\ pc \in [Requests -> Pcs] /\ {"terminated", "rejected", "failed"} \subseteq Statuses
      /\ Uuid \in [Requests -> Jobs] /\ Uuid[q] \in Jobs
      /\ row \in [Requests -> [st : Statuses, name : Names]]
  BY DEF TypeOK, Statuses
<1>2. row'[r].st # row[r].st
  BY DEF Reserved
<1>3. pc[r] \notin Unstarted
  BY DEF FreshInv
<1>4. ~(Receive(q) \/ Drop(q) \/ Pick(q) \/ GetImage(q) \/ ContainerCreateAndStart(q))
  BY <1>2 DEF Receive, Drop, Pick, GetImage, ContainerCreateAndStart
<1>5. ~Name(q)
  BY <1>1, <1>2, NamingWrite DEF Name, Names
<1>6. ~Save(q)
  <2>1. ASSUME Save(q)
        PROVE  row'[r] = row[r] \/ row'[r].st = "created"
    BY <1>1, <2>1 DEF Save
  <2>2. QED
    BY <1>2, <2>1 DEF Reserved
<1>7. CASE Refuse(q) \/ PullFails(q) \/ BuildFails(q) \/ ContainerFails(q)
  <2>1. Uuid[r] = Uuid[q]
    BY <1>1, <1>2, <1>7, StatusWrite DEF Refuse, PullFails, BuildFails, ContainerFails,
       Terminate
  <2>2. pc[q] \in Unstarted /\ pc'[q] \in {"create", "over"}
    BY <1>1, <1>7 DEF Refuse, PullFails, BuildFails, ContainerFails, Step, Unstarted
  <2>3. q # r /\ pc[q] # "over"
    BY <1>3, <2>2 DEF Unstarted
  <2>4. QED
    BY <2>1, <2>2, <2>3 DEF Excuse
<1>8. CASE Confirm(q)
  <2>1. /\ ctr[q] = "none" \/ "docker" \in Faults
        /\ pc[q] = "confirm" /\ pc'[q] = "over" /\ Terminate(Uuid[q])
    BY <1>1, <1>2, <1>8 DEF Confirm, Step
  <2>2. Uuid[r] = Uuid[q]
    BY <1>1, <1>2, <2>1, StatusWrite DEF Terminate
  <2>3. CASE q = r
    BY <2>1, <2>3 DEF Excuse
  <2>4. CASE q # r
    BY <2>1, <2>2, <2>4 DEF Excuse
  <2>5. QED
    BY <2>3, <2>4
<1>9. QED
  BY <1>4, <1>5, <1>6, <1>7, <1>8 DEF Deploy

\* Of a container it knows, the cron writes what docker said, and a remover ends the row
\* when it has removed it.
LEMMA OthersEnd ==
    ASSUME TypeOK, SyncNames, RemoverNames, Next, ~\E q \in Requests : Deploy(q),
           NEW r \in Requests, ctr[r] = "running", Reserved(r), ~Reserved(r)'
    PROVE  Excuse(r)
<1> USE EcpJobAssumption
<1>1. "terminated" \in Statuses /\ sync.st \in [Requests -> Statuses] /\ Uuid[r] \in Jobs
      /\ Uuid \in [Requests -> Jobs]
  BY DEF TypeOK, Statuses
<1>2. row'[r].st # row[r].st
  BY DEF Reserved
<1>3. ASSUME NEW q \in Requests, SyncWrite(q)
      PROVE  Excuse(r)
  <2>1. aged[q] /\ UpdateEcpJobEntity(Uuid[q], sync.st[q])
    BY <1>2, <1>3 DEF SyncWrite
  <2>2. Uuid[r] = Uuid[q] /\ row'[r].st = sync.st[q]
    BY <1>1, <1>2, <2>1, StatusWrite
  <2>3. sync.at = "seen" /\ q \in sync.rows
    BY <1>3 DEF SyncWrite, SyncNext
  <2>4. sync.name[q] # r
    BY <2>2, <2>3 DEF SyncNames, Reserved
  <2>5. QED
    BY <2>1, <2>2, <2>3, <2>4 DEF Excuse
<1>4. ASSUME NEW j \in Jobs, NEW a \in Removers, Remove(j, a)
      PROVE  Excuse(r)
  <2>1. DeleteContainerByUuid(j, a)
    BY <1>2, <1>4 DEF Remove, RemoveRead, RemoveContainerByName, RemoveFails
  <2>2. Uuid[r] = j
    BY <1>1, <1>2, <2>1, StatusWrite DEF DeleteContainerByUuid, Terminate
  <2>3. rmv[j][a].at = "mark"
    BY <2>1 DEF DeleteContainerByUuid
  <2>4. rmv[j][a].name # r
    BY <2>3 DEF RemoverNames
  <2>5. QED
    BY <2>2, <2>3, <2>4 DEF Excuse
<1>5. ~(SyncList \/ SyncInspect \/ Crash
        \/ \E q \in Requests : Exits(q) \/ ContainersPrune(q) \/ Age(q))
  BY <1>2 DEF SyncList, SyncReads, SyncInspect, Crash, Exits, ContainersPrune, Age
<1>6. QED
  BY <1>3, <1>4, <1>5 DEF Next, Sync

\* A container starts in one step only.
LEMMA StartsOnce ==
    ASSUME TypeOK, Next, NEW r \in Requests, ctr[r] # "running", ctr'[r] = "running"
    PROVE  pc[r] = "create" /\ row' = row
<1>1. ctr \in [Requests -> Container]
  BY DEF TypeOK
<1>2. PICK q \in Requests : Deploy(q)
  <2>1. \A q \in Requests : ~(Exits(q) \/ ContainersPrune(q) \/ Age(q))
    BY <1>1 DEF Exits, ContainersPrune, Age
  <2>2. \A j \in Jobs, a \in Removers : ~Remove(j, a)
    BY <1>1 DEF Remove, RemoveRead, RemoveContainerByName, RemoveFails, DeleteContainerByUuid
  <2>3. ~Sync /\ ~Crash
    BY DEF Sync, SyncList, SyncReads, SyncInspect, SyncWrite, SyncNext, Crash
  <2>4. QED
    BY <2>1, <2>2, <2>3 DEF Next
<1>3. ContainerCreateAndStart(q) \/ ContainerFails(q)
  BY <1>2 DEF Deploy, Receive, Refuse, Drop, Pick, Save, GetImage, PullFails, BuildFails,
     Confirm, Name
<1>4. ~ContainerFails(q)
  BY <1>1 DEF ContainerFails
<1>5. QED
  BY <1>1, <1>3, <1>4 DEF ContainerCreateAndStart, Step

\* A running container keeps the reservation of its GPUs, but in the ways that
\* ReservationKept names, for any requests, uuids, removers and faults.
THEOREM ReservationsAreKept == Spec => ReservationKept
<1> DEFINE Lost(r) == Uses(r) /\ ~Reserved(r)
           Kept == \A r \in Requests : ~Lost(r) /\ Lost(r)' => Excuse(r)
<1>1. TypeOK /\ UnsavedInv /\ HoldInv /\ [Next]_vars => [Kept]_vars
  <2> SUFFICES ASSUME TypeOK, UnsavedInv, HoldInv, Next, NEW r \in Requests,
                      ~Lost(r), ctr'[r] = "running", ~Reserved(r)'
               PROVE  Excuse(r)
    BY DEF Uses
  <2>1. CASE ctr[r] # "running"
    <3>1. pc[r] = "create" /\ row' = row
      BY <2>1, StartsOnce
    <3>2. ~Reserved(r)
      BY <3>1 DEF Reserved
    <3>3. QED
      BY <3>1, <3>2 DEF Excuse
  <2>2. CASE ctr[r] = "running"
    <3>1. Reserved(r)
      BY <2>2 DEF Uses
    <3>2. QED
      BY <2>2, <3>1, DeployEnds, OthersEnd DEF HoldInv
  <2>3. QED
    BY <2>1, <2>2
<1>2. Spec => [](TypeOK /\ UnsavedInv)
  <2>1. Init => RaceInv
    BY RaceStarts
  <2>2. RaceInv => TypeOK /\ UnsavedInv
    BY DEF RaceInv
  <2>3. QED
    BY <2>1, <2>2, NextRace, PTL DEF Spec
<1>3. QED
  BY <1>1, <1>2, HoldInvariant, PTL DEF Spec, ReservationKept, Excuse


=============================================================================
