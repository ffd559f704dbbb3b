--------------------------- MODULE SpaceJob_proofs ---------------------------
(***************************************************************************)
(* Proofs about SpaceJob, for any set of jobs and wallets, any kind of     *)
(* job, any choice of activities and faults, and any bound.                *)
(***************************************************************************)
EXTENDS SpaceJob, TLAPS

\* The database calls write rows, and only the row of their job.
LEMMA UpdateRows ==
    ASSUME row \in [Jobs -> Rows], NEW j \in Jobs,
           NEW st \in Statuses \cup {"NONE"}, NEW exp \in Nat,
           UpdateJobEntityByJobUuid(j, st, exp)
    PROVE  row' \in [Jobs -> Rows]
<1>1. /\ row[j] \in Rows
      /\ [st  |-> IF st = "RECEIVED" THEN row[j].st ELSE st,
          exp |-> IF exp = 0 THEN row[j].exp ELSE exp,
          del |-> FALSE] \in Rows
  BY DEF Rows
<1>2. QED
  BY <1>1 DEF UpdateJobEntityByJobUuid

LEMMA StatusRows ==
    ASSUME row \in [Jobs -> Rows], NEW j \in Jobs,
           NEW st \in Statuses, UpdateJobEntityStatusByJobUuid(j, st)
    PROVE  row' \in [Jobs -> Rows]
<1>1. [row[j] EXCEPT !.st = st] \in Rows
  BY DEF Rows
<1>2. row' = [row EXCEPT ![j] = [row[j] EXCEPT !.st = st]]
  BY DEF UpdateJobEntityStatusByJobUuid
<1>3. QED
  BY <1>1, <1>2

LEMMA DeleteRows ==
    ASSUME row \in [Jobs -> Rows], NEW j \in Jobs,
           NEW st \in Statuses, DeleteJobEntity(j, st)
    PROVE  row' \in [Jobs -> Rows]
<1>1. row[j] \in Rows /\ [st |-> st, exp |-> row[j].exp, del |-> TRUE] \in Rows
  BY DEF Rows
<1>2. QED
  BY <1>1 DEF DeleteJobEntity

\* Every step keeps the types, job by job.
LEMMA ReceiveTypes ==
    ASSUME TypeOK, NEW j \in Jobs, Receive(j)
    PROVE  TypeOK'
<1> USE SpaceJobAssumption DEF TypeOK, vars, dbVars, reportVars, clusterVars,
        removeVars, renewVars, history, Rows, Statuses, Pcs, Deploying, Messages
<1>1. CASE ReceiveSave(j)
  <2>1. [st |-> "RECEIVED", exp |-> now + Duration, del |-> FALSE] \in Rows
    OBVIOUS
  <2>2. row' \in [Jobs -> Rows]
    BY <1>1, <2>1 DEF ReceiveSave, SaveJobEntity
  <2>3. QED
    BY <1>1, <2>2 DEF ReceiveSave
<1>2. CASE ReceiveRefuse(j)
  <2>1. row' \in [Jobs -> Rows]
    BY <1>2, StatusRows DEF ReceiveRefuse
  <2>2. QED
    BY <1>2, <2>1 DEF ReceiveRefuse
<1>3. CASE ReceiveDrop(j)
  BY <1>3 DEF ReceiveDrop
<1>4. CASE ReceiveAccept(j)
  BY <1>4 DEF ReceiveAccept, Send
<1>5. QED
  BY <1>1, <1>2, <1>3, <1>4 DEF Receive

LEMMA DeployTypes ==
    ASSUME TypeOK, NEW j \in Jobs, Deploy(j)
    PROVE  TypeOK'
<1> USE SpaceJobAssumption DEF TypeOK, vars, dbVars, reportVars, clusterVars,
        removeVars, renewVars, history, Rows, Statuses, Pcs, Deploying, Messages
<1>1. CASE Prepare(j)
  BY <1>1 DEF Prepare
<1>2. CASE DeployNamespace(j)
  BY <1>2 DEF DeployNamespace
<1>3. CASE CreateDeployment(j)
  BY <1>3 DEF CreateDeployment, Send
<1>4. CASE Expose(j)
  BY <1>4 DEF Expose, Send
<1>5. CASE ExposePorts(j)
  BY <1>5 DEF ExposePorts
<1>6. CASE WatchContainerRunningTime(j)
  <2>1. row' \in [Jobs -> Rows]
    BY <1>6, UpdateRows DEF WatchContainerRunningTime
  <2>2. pc' \in [Jobs -> Pcs]
    <3>1. AfterStamp(j) \subseteq Pcs
      BY DEF AfterStamp
    <3>2. PICK after \in AfterStamp(j) : pc' = [pc EXCEPT ![j] = after]
      BY <1>6 DEF WatchContainerRunningTime
    <3>3. QED
      BY <3>1, <3>2
  <2>3. QED
    BY <1>6, <2>1, <2>2 DEF WatchContainerRunningTime
<1>7. CASE Submit(j)
  BY <1>7 DEF Submit, Send
<1>8. CASE DeployFails(j)
  BY <1>8 DEF DeployFails, Actors, Phases
<1>9. CASE FailureSwallowed(j)
  BY <1>9 DEF FailureSwallowed
<1>10. QED
  BY <1>1, <1>2, <1>3, <1>4, <1>5, <1>6, <1>7, <1>8, <1>9 DEF Deploy

LEMMA ReportTypes ==
    ASSUME TypeOK, NEW j \in Jobs, Report(j)
    PROVE  TypeOK'
<1> USE SpaceJobAssumption DEF TypeOK, vars, dbVars, reportVars, clusterVars,
        removeVars, renewVars, history, Rows, Statuses, Messages
<1>1. CASE ReceiveStatus(j)
  <2>1. PICK m \in sent[j] : /\ sent' = [sent EXCEPT ![j] = sent[j] \ {m}]
                             /\ taskMap' = [taskMap EXCEPT ![j] = m]
    BY <1>1 DEF ReceiveStatus
  <2>2. m \in Messages /\ sent[j] \ {m} \in SUBSET Messages
    OBVIOUS
  <2>3. /\ sent' \in [Jobs -> SUBSET Messages]
        /\ taskMap' \in [Jobs -> Messages \cup {"none"}]
    BY <2>1, <2>2
  <2>4. QED
    BY <1>1, <2>3 DEF ReceiveStatus
<1>2. CASE ReportStatus(j)
  <2>1. ReportedStatus(taskMap[j]) \in Statuses
    BY DEF ReportedStatus
  <2>2. row' \in [Jobs -> Rows]
    BY <1>2, <2>1, UpdateRows DEF ReportStatus
  <2>3. QED
    BY <1>2, <2>2 DEF ReportStatus
<1>3. QED
  BY <1>1, <1>2 DEF Report

LEMMA RemoveTypes ==
    ASSUME TypeOK, NEW j \in Jobs, NEW a \in Actors,
           CancelJob(j) \/ TaskDelete(j) \/ Remove(j, a)
    PROVE  TypeOK'
<1> USE SpaceJobAssumption DEF TypeOK, vars, dbVars, reportVars, clusterVars,
        removeVars, renewVars, history, Rows, Statuses, Actors, Phases, NoteOverlap
<1>1. CASE CancelJob(j)
  BY <1>1 DEF CancelJob
<1>2. CASE TaskDelete(j)
  BY <1>2 DEF TaskDelete
<1>3. CASE DeleteJob(j, a)
  BY <1>3 DEF DeleteJob, AfterDeleteJob, Reaches
<1>4. CASE DeleteJobFails(j, a)
  BY <1>4 DEF DeleteJobFails, AfterDeleteJob, Reaches
<1>5. CASE MarkDeleted(j, a)
  <2>1. row' \in [Jobs -> Rows]
    BY <1>5, DeleteRows DEF MarkDeleted
  <2>2. QED
    BY <1>5, <2>1 DEF MarkDeleted
<1>6. QED
  BY <1>1, <1>2, <1>3, <1>4, <1>5 DEF Remove

LEMMA RenewTypes ==
    ASSUME TypeOK, NEW j \in Jobs, Renew(j)
    PROVE  TypeOK'
<1> USE SpaceJobAssumption DEF TypeOK, vars, dbVars, reportVars, clusterVars,
        removeVars, renewVars, history, Rows, Statuses
<1>1. CASE RenewRead(j)
  BY <1>1 DEF RenewRead
<1>2. CASE RenewSave(j)
  <2>1. PICK first, second \in ChainExpiry(j) :
           SaveJobEntity(j, [renew[j] EXCEPT
               !.exp = IF first = 0 THEN renew[j].exp + Duration ELSE second])
    BY <1>2 DEF RenewSave
  <2>2. first \in Nat /\ second \in Nat
    BY DEF ChainExpiry
  <2> DEFINE exp == IF first = 0 THEN renew[j].exp + Duration ELSE second
             new == [renew[j] EXCEPT !.exp = exp]
  <2>3. row' \in [Jobs -> Rows]
    <3>1. renew[j] \in Rows /\ exp \in Nat
      BY <2>2
    <3>2. new \in Rows
      BY <3>1
    <3>3. row' = [row EXCEPT ![j] = new]
      BY <2>1 DEF SaveJobEntity
    <3> QED
      BY <3>2, <3>3
  <2>4. NoRow \in Rows
    BY DEF NoRow
  <2>5. renew' \in [Jobs -> Rows]
    BY <1>2, <2>4 DEF RenewSave
  <2>6. QED
    BY <1>2, <2>3, <2>5 DEF RenewSave
<1>3. QED
  BY <1>1, <1>2 DEF Renew

LEMMA SweepTypes ==
    ASSUME TypeOK, NEW j \in Jobs, Sweep(j)
    PROVE  TypeOK'
<1> USE SpaceJobAssumption DEF TypeOK, vars, dbVars, reportVars, clusterVars,
        removeVars, renewVars, history, Rows, Statuses, Actors, Phases,
        NoRow, SweepRemoves, SweepEnds, NoteOverlap
<1>1. CASE SweepRow(j)
  BY <1>1 DEF SweepRow
<1>2. CASE SweepStale(j)
  BY <1>2 DEF SweepStale
<1>3. CASE SweepNotFound(j)
  <2>1. CASE SweepEnds(j)
    BY <1>3, <2>1 DEF SweepNotFound
  <2>2. CASE SweepRemoves(j, "stale", "mark")
    BY <1>3, <2>2 DEF SweepNotFound
  <2>3. QED
    BY <1>3, <2>1, <2>2 DEF SweepNotFound
<1>4. CASE SweepIdle(j)
  BY <1>4 DEF SweepIdle
<1>5. CASE SweepFound(j)
  <2>1. row' \in [Jobs -> Rows]
    BY <1>5, UpdateRows DEF SweepFound
  <2>2. [sweep[j].row EXCEPT !.st = "RUNNING"] \in Rows
    <3>1. sweep[j].row \in Rows
      OBVIOUS
    <3>2. QED
      BY <3>1
  <2>3. QED
    BY <1>5, <2>1, <2>2 DEF SweepFound
<1>6. CASE SweepChain(j)
  <2>1. OnChain(j) => Verdict(j) \in Statuses \cup {"NONE"}
    BY DEF OnChain, Verdict
  <2>2. row' \in [Jobs -> Rows]
    BY <1>6, <2>1, UpdateRows DEF SweepChain
  <2>3. SweepEnds(j) \/ SweepRemoves(j, "expired", "delete")
    BY <1>6 DEF SweepChain, SweepConcludes
  <2>4. CASE SweepEnds(j)
    BY <1>6, <2>2, <2>4 DEF SweepChain
  <2>5. CASE SweepRemoves(j, "expired", "delete")
    BY <1>6, <2>2, <2>5 DEF SweepChain
  <2>6. QED
    BY <2>3, <2>4, <2>5
<1>7. QED
  BY <1>1, <1>2, <1>3, <1>4, <1>5, <1>6 DEF Sweep

LEMMA WorldTypes ==
    ASSUME TypeOK,
           \/ \E j \in Jobs : CleanAbnormalDeployment(j) \/ Pods(j) \/ ChainMoves(j)
           \/ \E w \in Wallets : NamespaceIdle(w) \/ DeleteNameSpace(w)
           \/ Tick \/ Crash
    PROVE  TypeOK'
<1> USE SpaceJobAssumption DEF TypeOK, vars, dbVars, reportVars, clusterVars,
        removeVars, renewVars, history, Rows, Statuses, Actors, Phases, NoRow
<1>1. ASSUME NEW j \in Jobs, CleanAbnormalDeployment(j)
      PROVE  TypeOK'
  BY <1>1 DEF CleanAbnormalDeployment
<1>2. ASSUME NEW j \in Jobs, Pods(j)
      PROVE  TypeOK'
  <2>1. pods' \in [Jobs -> {"absent", "pending", "ready"}]
    <3>1. PICK p \in {"absent", "pending", "ready"} : pods' = [pods EXCEPT ![j] = p]
      BY <1>2 DEF Pods
    <3>2. QED
      BY <3>1
  <2>2. QED
    BY <1>2, <2>1 DEF Pods
<1>3. ASSUME NEW j \in Jobs, ChainMoves(j)
      PROVE  TypeOK'
  <2> DEFINE Contract == [st : {"absent", "active", "completed", "terminated"},
                          exp : Nat]
  <2>1. chain' \in [Jobs -> Contract]
    <3>1. chain[j] \in Contract /\ now + Duration \in Nat
      OBVIOUS
    <3>2. CASE chain' = [chain EXCEPT ![j] = [st |-> "active", exp |-> now + Duration]]
      BY <3>1, <3>2
    <3>3. CASE chain' = [chain EXCEPT ![j].exp = @ + Duration]
      <4> DEFINE longer == chain[j].exp + Duration
      <4>1. longer \in Nat
        BY <3>1
      <4> HIDE DEF longer
      <4>2. [chain[j] EXCEPT !.exp = longer] \in Contract
        BY <3>1, <4>1
      <4>3. QED
        BY <3>3, <4>2 DEF longer
    <3>4. ASSUME NEW s \in {"completed", "terminated"},
                 chain' = [chain EXCEPT ![j] = [chain[j] EXCEPT !.st = s]]
          PROVE  chain' \in [Jobs -> Contract]
      <4>1. [chain[j] EXCEPT !.st = s] \in Contract
        BY <3>1
      <4>2. QED
        BY <3>4, <4>1
    <3>5. QED
      BY <1>3, <3>2, <3>3, <3>4 DEF ChainMoves
  <2>2. QED
    BY <1>3, <2>1 DEF ChainMoves
<1>4. ASSUME NEW w \in Wallets, NamespaceIdle(w)
      PROVE  TypeOK'
  BY <1>4 DEF NamespaceIdle
<1>5. ASSUME NEW w \in Wallets, DeleteNameSpace(w)
      PROVE  TypeOK'
  BY <1>5 DEF DeleteNameSpace
<1>6. CASE Tick
  BY <1>6 DEF Tick
<1>7. CASE Crash
  BY <1>7 DEF Crash, Pcs
<1>8. QED
  BY <1>1, <1>2, <1>3, <1>4, <1>5, <1>6, <1>7

\* The state always has its type, whatever the callers, the cron jobs and the
\* cluster do: the model's actions are total over the states they reach.
THEOREM TypeCorrect == Spec => []TypeOK
<1>1. Init => TypeOK
  BY SpaceJobAssumption DEF Init, TypeOK, Rows, NoRow, Actors, Phases, Pcs
<1>2. TypeOK /\ [Next]_vars => TypeOK'
  <2> SUFFICES ASSUME TypeOK, [Next]_vars
               PROVE  TypeOK'
    OBVIOUS
  <2>1. ASSUME NEW j \in Jobs, JobStep(j)
        PROVE  TypeOK'
    BY <2>1, ReceiveTypes, DeployTypes, ReportTypes, RemoveTypes, RenewTypes,
       SweepTypes, WorldTypes DEF JobStep, Actors
  <2>2. CASE UNCHANGED vars
    BY <2>2 DEF TypeOK, vars, dbVars, reportVars, clusterVars, removeVars,
                renewVars, history
  <2>3. QED
    BY <2>1, <2>2, WorldTypes DEF Next
<1>3. QED
  BY <1>1, <1>2, PTL DEF Spec

-----------------------------------------------------------------------------
\* What a database call leaves in the status columns.

LEMMA UpdateStatus ==
    ASSUME row \in [Jobs -> Rows], NEW j \in Jobs,
           NEW st \in Statuses \cup {"NONE"}, NEW exp \in Nat,
           UpdateJobEntityByJobUuid(j, st, exp), NEW k \in Jobs
    PROVE  row'[k].st = row[k].st \/ (k = j /\ row'[k].st = st)
<1> DEFINE new == [st  |-> IF st = "RECEIVED" THEN row[j].st ELSE st,
                   exp |-> IF exp = 0 THEN row[j].exp ELSE exp,
                   del |-> FALSE]
<1>1. row' = [row EXCEPT ![j] = IF Live(j) THEN new ELSE row[j]]
  BY DEF UpdateJobEntityByJobUuid
<1>2. new.st = row[j].st \/ new.st = st
  OBVIOUS
<1> HIDE DEF new
<1>3. QED
  BY <1>1, <1>2

LEMMA DeleteStatus ==
    ASSUME row \in [Jobs -> Rows], NEW j \in Jobs,
           NEW st \in Statuses, DeleteJobEntity(j, st), NEW k \in Jobs
    PROVE  row'[k].st = row[k].st \/ row'[k].st = st
BY DEF DeleteJobEntity, Rows

LEMMA ReceiveKeepsStatus ==
    ASSUME StatusInv, NEW j \in Jobs, Receive(j)
    PROVE  StatusInv'
<1>1. TypeOK'
  BY ReceiveTypes DEF StatusInv
<1> SUFFICES ASSUME NEW k \in Jobs
             PROVE  DeployedWhenSaid(k)' /\ ClosedWhenRefused(k)'
  BY <1>1 DEF StatusInv
<1> USE DEF StatusInv, TypeOK, DeployedWhenSaid, ClosedWhenRefused, Written, vars,
        dbVars, reportVars, clusterVars, removeVars, renewVars, history, Deploying
<1>2. CASE ReceiveSave(j)
  BY <1>2 DEF ReceiveSave, Send, SaveJobEntity, UpdateJobEntityStatusByJobUuid
<1>3. CASE ReceiveRefuse(j)
  BY <1>3 DEF ReceiveRefuse, Send, SaveJobEntity, UpdateJobEntityStatusByJobUuid
<1>4. CASE ReceiveDrop(j)
  BY <1>4 DEF ReceiveDrop, Send, SaveJobEntity, UpdateJobEntityStatusByJobUuid
<1>5. CASE ReceiveAccept(j)
  BY <1>5 DEF ReceiveAccept, Send, SaveJobEntity, UpdateJobEntityStatusByJobUuid
<1>6. QED
  BY <1>2, <1>3, <1>4, <1>5 DEF Receive

LEMMA DeployKeepsStatus ==
    ASSUME StatusInv, NEW j \in Jobs, Deploy(j)
    PROVE  StatusInv'
<1>1. TypeOK'
  BY DeployTypes DEF StatusInv
<1> SUFFICES ASSUME NEW k \in Jobs
             PROVE  DeployedWhenSaid(k)' /\ ClosedWhenRefused(k)'
  BY <1>1 DEF StatusInv
<1> USE DEF StatusInv, TypeOK, DeployedWhenSaid, ClosedWhenRefused, Written, vars,
        dbVars, reportVars, clusterVars, removeVars, renewVars, history, Deploying
<1>2. CASE Prepare(j)
  BY <1>2 DEF Prepare, Send, MayFail
<1>3. CASE DeployNamespace(j)
  BY <1>3 DEF DeployNamespace, Send, MayFail
<1>4. CASE CreateDeployment(j)
  BY <1>4 DEF CreateDeployment, Send, MayFail
<1>5. CASE Expose(j)
  BY <1>5 DEF Expose, Send, MayFail
<1>6. CASE ExposePorts(j)
  BY <1>6 DEF ExposePorts, Send, MayFail
<1>7. CASE WatchContainerRunningTime(j)
  <2>1. "RECEIVED" \in Statuses /\ now + Duration \in Nat
    BY SpaceJobAssumption DEF Statuses
  <2>2. UpdateJobEntityByJobUuid(j, "RECEIVED", now + Duration)
    BY <1>7 DEF WatchContainerRunningTime
  <2>3. row'[k].st = row[k].st \/ row'[k].st = "RECEIVED"
    BY <2>1, <2>2, UpdateStatus
  <2>4. PICK after \in {"done", "create", "submit"} :
             /\ pc[j] \in {"stamp", "stamp_ports"}
             /\ pc' = [pc EXCEPT ![j] = after]
             /\ pc[j] = "stamp_ports" \/ after # "submit"
    BY <1>7 DEF WatchContainerRunningTime, AfterStamp
  <2>5. QED
    BY <1>7, <2>3, <2>4 DEF WatchContainerRunningTime
<1>8. CASE Submit(j)
  BY <1>8 DEF Submit, Send, MayFail
<1>9. CASE DeployFails(j)
  BY <1>9 DEF DeployFails, Send, MayFail
<1>10. CASE FailureSwallowed(j)
  BY <1>10 DEF FailureSwallowed, Send, MayFail
<1>11. QED
  BY <1>2, <1>3, <1>4, <1>5, <1>6, <1>7, <1>8, <1>9, <1>10 DEF Deploy

LEMMA ReportKeepsStatus ==
    ASSUME StatusInv, NEW j \in Jobs, Report(j)
    PROVE  StatusInv'
<1>1. TypeOK'
  BY ReportTypes DEF StatusInv
<1> SUFFICES ASSUME NEW k \in Jobs
             PROVE  DeployedWhenSaid(k)' /\ ClosedWhenRefused(k)'
  BY <1>1 DEF StatusInv
<1> USE DEF StatusInv, TypeOK, DeployedWhenSaid, ClosedWhenRefused, Written, vars,
        dbVars, reportVars, clusterVars, removeVars, renewVars, history, Deploying
<1>2. CASE ReceiveStatus(j)
  BY <1>2 DEF ReceiveStatus, ReportedStatus
<1>3. CASE ReportStatus(j)
  <2>1. ReportedStatus(taskMap[j]) \in Statuses
    BY DEF ReportedStatus, Statuses
  <2>2. row'[k].st = row[k].st \/ (k = j /\ row'[k].st = ReportedStatus(taskMap[j]))
    BY <1>3, <2>1, UpdateStatus DEF ReportStatus
  <2>3. QED
    BY <1>3, <2>2 DEF ReportStatus, ReportedStatus
<1>4. QED
  BY <1>2, <1>3 DEF Report

LEMMA RemoveKeepsStatus ==
    ASSUME StatusInv, NEW j \in Jobs, NEW a \in Actors,
           CancelJob(j) \/ TaskDelete(j) \/ Remove(j, a)
    PROVE  StatusInv'
<1>1. TypeOK'
  BY RemoveTypes DEF StatusInv
<1> SUFFICES ASSUME NEW k \in Jobs
             PROVE  DeployedWhenSaid(k)' /\ ClosedWhenRefused(k)'
  BY <1>1 DEF StatusInv
<1> USE DEF StatusInv, TypeOK, DeployedWhenSaid, ClosedWhenRefused, Written, vars,
        dbVars, reportVars, clusterVars, removeVars, renewVars, history
<1>2. CASE CancelJob(j)
  BY <1>2 DEF CancelJob
<1>3. CASE TaskDelete(j)
  BY <1>3 DEF TaskDelete
<1>4. CASE DeleteJob(j, a)
  BY <1>4 DEF DeleteJob
<1>5. CASE DeleteJobFails(j, a)
  BY <1>5 DEF DeleteJobFails
<1>6. CASE MarkDeleted(j, a)
  <2>1. row'[k].st \in {row[k].st, "COMPLETED", "TERMINATED"}
    BY <1>6, DeleteStatus DEF MarkDeleted, Statuses
  <2>2. QED
    BY <1>6, <2>1 DEF MarkDeleted
<1>7. QED
  BY <1>2, <1>3, <1>4, <1>5, <1>6 DEF Remove

LEMMA RenewKeepsStatus ==
    ASSUME StatusInv, NEW j \in Jobs, Renew(j)
    PROVE  StatusInv'
<1>1. TypeOK'
  BY RenewTypes DEF StatusInv
<1> SUFFICES ASSUME NEW k \in Jobs
             PROVE  DeployedWhenSaid(k)' /\ ClosedWhenRefused(k)'
  BY <1>1 DEF StatusInv
<1> USE DEF StatusInv, TypeOK, DeployedWhenSaid, ClosedWhenRefused, Written, vars,
        dbVars, reportVars, clusterVars, removeVars, renewVars, history
<1>2. CASE RenewRead(j)
  BY <1>2 DEF RenewRead
<1>3. CASE RenewSave(j)
  <2>1. PICK exp : row' = [row EXCEPT ![j] = [renew[j] EXCEPT !.exp = exp]]
    BY <1>3 DEF RenewSave, SaveJobEntity
  <2>2. [renew[j] EXCEPT !.exp = exp].st = renew[j].st
    BY DEF Rows
  <2>3. row'[k].st = row[k].st \/ (k = j /\ row'[k].st = renew[j].st)
    BY <2>1, <2>2
  <2>4. renew'[k].st \in {renew[k].st, "NONE"}
    BY <1>3 DEF RenewSave, NoRow
  <2>5. QED
    BY <1>3, <2>3, <2>4 DEF RenewSave
<1>4. QED
  BY <1>2, <1>3 DEF Renew

LEMMA SweepKeepsStatus ==
    ASSUME StatusInv, NEW j \in Jobs, Sweep(j)
    PROVE  StatusInv'
<1>1. TypeOK'
  BY SweepTypes DEF StatusInv
<1> SUFFICES ASSUME NEW k \in Jobs
             PROVE  DeployedWhenSaid(k)' /\ ClosedWhenRefused(k)'
  BY <1>1 DEF StatusInv
<1> USE DEF StatusInv, TypeOK, DeployedWhenSaid, ClosedWhenRefused, Written, vars,
        dbVars, reportVars, clusterVars, removeVars, renewVars, history
<1> DEFINE Kept == sweep'[k].row.st \in {sweep[k].row.st, "NONE"} /\ deployed' = deployed
<1>2. CASE SweepRow(j)
  BY <1>2 DEF SweepRow
<1>3. CASE SweepStale(j)
  <2>1. Kept
    BY <1>3 DEF SweepStale, SweepRemoves, NoRow
  <2>2. QED
    BY <1>3, <2>1 DEF SweepStale
<1>4. CASE SweepNotFound(j)
  <2>1. Kept
    <3>1. CASE SweepEnds(j)
      BY <1>4, <3>1 DEF SweepEnds, NoRow
    <3>2. CASE SweepRemoves(j, "stale", "mark")
      BY <1>4, <3>2 DEF SweepRemoves, NoRow
    <3>3. QED
      BY <1>4, <3>1, <3>2 DEF SweepNotFound
  <2>2. QED
    BY <1>4, <2>1 DEF SweepNotFound
<1>5. CASE SweepIdle(j)
  <2>1. Kept
    BY <1>5 DEF SweepIdle, SweepRemoves, NoRow
  <2>2. QED
    BY <1>5, <2>1 DEF SweepIdle
<1>6. CASE SweepFound(j)
  <2>1. deployed[j]
    BY <1>6 DEF SweepFound
  <2>2. row'[k].st = row[k].st \/ (k = j /\ row'[k].st = "RUNNING")
    BY <1>6, UpdateStatus DEF SweepFound, Statuses, Rows
  <2>3. sweep'[k].row.st = sweep[k].row.st \/ (k = j /\ sweep'[k].row.st = "RUNNING")
    BY <1>6 DEF SweepFound, Rows
  <2>4. QED
    BY <1>6, <2>1, <2>2, <2>3 DEF SweepFound
<1>7. CASE SweepChain(j)
  <2>1. Kept
    <3>1. CASE SweepEnds(j)
      BY <1>7, <3>1 DEF SweepEnds, NoRow
    <3>2. CASE SweepRemoves(j, "expired", "delete")
      BY <1>7, <3>2 DEF SweepRemoves, NoRow
    <3>3. QED
      BY <1>7, <3>1, <3>2 DEF SweepChain, SweepConcludes
  <2>2. OnChain(j) => Verdict(j) \in {"COMPLETED", "TERMINATED", sweep[j].row.st}
    BY DEF OnChain, Verdict
  <2>3. \/ row'[k].st = row[k].st
        \/ k = j /\ row'[k].st \in {"COMPLETED", "TERMINATED", sweep[j].row.st}
    <3>1. CASE row' = row
      BY <3>1
    <3>2. CASE OnChain(j) /\ UpdateJobEntityByJobUuid(j, Verdict(j), chain[j].exp)
      <4>1. Verdict(j) \in Statuses \cup {"NONE"} /\ chain[j].exp \in Nat
        <5>1. sweep[j].row \in Rows /\ chain[j].exp \in Nat
          OBVIOUS
        <5>2. sweep[j].row.st \in Statuses \cup {"NONE"}
          BY <5>1 DEF Rows
        <5>3. QED
          BY <3>2, <2>2, <5>1, <5>2 DEF Statuses
      <4>2. row'[k].st = row[k].st \/ (k = j /\ row'[k].st = Verdict(j))
        <5>1. row \in [Jobs -> Rows]
          OBVIOUS
        <5>2. QED
          BY ONLY <3>2, <4>1, <5>1, UpdateStatus, j \in Jobs, k \in Jobs
      <4>3. QED
        BY <3>2, <4>2, <2>2
    <3>3. QED
      BY <1>7, <3>1, <3>2 DEF SweepChain
  <2>4. QED
    BY <1>7, <2>1, <2>3 DEF SweepChain
<1>8. QED
  BY <1>2, <1>3, <1>4, <1>5, <1>6, <1>7 DEF Sweep

LEMMA WorldKeepsStatus ==
    ASSUME StatusInv,
           \/ \E j \in Jobs : CleanAbnormalDeployment(j) \/ Pods(j) \/ ChainMoves(j)
           \/ \E w \in Wallets : NamespaceIdle(w) \/ DeleteNameSpace(w)
           \/ Tick \/ Crash
    PROVE  StatusInv'
<1>1. TypeOK'
  BY WorldTypes DEF StatusInv
<1> SUFFICES ASSUME NEW k \in Jobs
             PROVE  DeployedWhenSaid(k)' /\ ClosedWhenRefused(k)'
  BY <1>1 DEF StatusInv
<1> USE DEF StatusInv, TypeOK, DeployedWhenSaid, ClosedWhenRefused, Written, vars,
        dbVars, reportVars, clusterVars, removeVars, renewVars, history
<1>2. ASSUME NEW j \in Jobs, CleanAbnormalDeployment(j) \/ Pods(j) \/ ChainMoves(j)
      PROVE  DeployedWhenSaid(k)' /\ ClosedWhenRefused(k)'
  <2>1. CASE CleanAbnormalDeployment(j)
    BY <2>1 DEF CleanAbnormalDeployment
  <2>2. CASE Pods(j)
    BY <2>2 DEF Pods
  <2>3. CASE ChainMoves(j)
    BY <2>3 DEF ChainMoves
  <2>4. QED
    BY <1>2, <2>1, <2>2, <2>3
<1>3. ASSUME NEW w \in Wallets, NamespaceIdle(w) \/ DeleteNameSpace(w)
      PROVE  DeployedWhenSaid(k)' /\ ClosedWhenRefused(k)'
  BY <1>3 DEF NamespaceIdle, DeleteNameSpace
<1>4. CASE Tick
  BY <1>4 DEF Tick
<1>5. CASE Crash
  BY <1>5 DEF Crash, NoRow, Deploying
<1>6. QED
  BY <1>2, <1>3, <1>4, <1>5

\* StatusInv is inductive, so it holds in every state.
THEOREM StatusInvariant == Spec => []StatusInv
<1>1. Init => StatusInv
  <2> SUFFICES ASSUME Init
               PROVE  StatusInv
    OBVIOUS
  <2>1. TypeOK
    BY SpaceJobAssumption DEF Init, TypeOK, Rows, NoRow, Actors, Phases, Pcs
  <2>2. QED
    BY <2>1 DEF Init, StatusInv, DeployedWhenSaid, ClosedWhenRefused, Written, NoRow
<1>2. StatusInv /\ [Next]_vars => StatusInv'
  <2> SUFFICES ASSUME StatusInv, [Next]_vars
               PROVE  StatusInv'
    OBVIOUS
  <2>1. ASSUME NEW j \in Jobs, JobStep(j)
        PROVE  StatusInv'
    BY <2>1, ReceiveKeepsStatus, DeployKeepsStatus, ReportKeepsStatus,
       RemoveKeepsStatus, RenewKeepsStatus, SweepKeepsStatus, WorldKeepsStatus
       DEF JobStep, Actors
  <2>2. CASE UNCHANGED vars
    BY <2>2 DEF StatusInv, TypeOK, DeployedWhenSaid, ClosedWhenRefused, Written,
                vars, dbVars, reportVars, clusterVars, removeVars, renewVars, history
  <2>3. QED
    BY <2>1, <2>2, WorldKeepsStatus DEF Next
<1>3. QED
  BY <1>1, <1>2, PTL DEF Spec

\* No late or reordered report, no row written back and no cron job shows a job
\* as running that never had a deployment.
THEOREM RunningOnlyIfDeployed == Spec => []RunningWasDeployed
<1>1. StatusInv => RunningWasDeployed
  BY DEF StatusInv, DeployedWhenSaid, Written, RunningWasDeployed
<1>2. QED
  BY <1>1, StatusInvariant, PTL

\* A refused job never reaches the cluster, nor the other way round.
THEOREM RefusedStaysOut == Spec => []RefusedNeverDeployed
<1>1. StatusInv => RefusedNeverDeployed
  BY DEF StatusInv, ClosedWhenRefused, Written, RefusedNeverDeployed
<1>2. QED
  BY <1>1, StatusInvariant, PTL

-----------------------------------------------------------------------------
\* What the database calls do to a row that is not live.

LEMMA UpdateKeepsDead ==
    ASSUME row \in [Jobs -> Rows], NEW j \in Jobs, NEW st, NEW exp,
           UpdateJobEntityByJobUuid(j, st, exp), NEW k \in Jobs, ~Live(k)
    PROVE  row'[k] = row[k]
BY DEF UpdateJobEntityByJobUuid

LEMMA DeleteKeepsDead ==
    ASSUME row \in [Jobs -> Rows], NEW j \in Jobs, NEW st,
           DeleteJobEntity(j, st), NEW k \in Jobs, ~Live(k)
    PROVE  row'[k] = row[k]
BY DEF DeleteJobEntity

\* A step changes a row that is not live in three places only.
LEMMA DeadRowChanges ==
    ASSUME TypeOK, NEW j \in Jobs, JobStep(j), NEW k \in Jobs, ~Live(k)
    PROVE  \/ row'[k] = row[k]
           \/ k = j /\ ReceiveSave(j)
           \/ k = j /\ ReceiveRefuse(j) /\ row'[k].del = row[k].del
           \/ k = j /\ RenewSave(j)
<1> USE DEF TypeOK, vars, dbVars
<1>1. CASE Receive(j)
  <2>1. CASE ReceiveSave(j)
    BY <2>1 DEF ReceiveSave, SaveJobEntity
  <2>2. CASE ReceiveRefuse(j)
    <3>1. PICK st \in {"REJECTED", "FAILED"} : row' = [row EXCEPT ![j].st = st]
      BY <2>2 DEF ReceiveRefuse, UpdateJobEntityStatusByJobUuid
    <3>2. row'[k].del = row[k].del
      BY <3>1 DEF Rows
    <3>3. QED
      BY <2>2, <3>1, <3>2
  <2>3. CASE ReceiveDrop(j) \/ ReceiveAccept(j)
    BY <2>3 DEF ReceiveDrop, ReceiveAccept
  <2>4. QED
    BY <1>1, <2>1, <2>2, <2>3 DEF Receive
<1>2. CASE Deploy(j)
  <2>1. CASE WatchContainerRunningTime(j)
    BY <2>1, UpdateKeepsDead DEF WatchContainerRunningTime
  <2>2. row' = row \/ WatchContainerRunningTime(j)
    BY <1>2 DEF Deploy, Prepare, DeployNamespace, CreateDeployment, Expose,
       ExposePorts, Submit, DeployFails, FailureSwallowed
  <2>3. QED
    BY <2>1, <2>2
<1>3. CASE Report(j)
  BY <1>3, UpdateKeepsDead DEF Report, ReceiveStatus, ReportStatus
<1>4. CASE CancelJob(j) \/ TaskDelete(j) \/ CleanAbnormalDeployment(j) \/ Pods(j)
           \/ ChainMoves(j) \/ RenewRead(j)
  BY <1>4 DEF CancelJob, TaskDelete, CleanAbnormalDeployment, Pods, ChainMoves,
     RenewRead
<1>5. ASSUME NEW a \in Actors, Remove(j, a)
      PROVE  row'[k] = row[k]
  BY <1>5, DeleteKeepsDead DEF Remove, DeleteJob, DeleteJobFails, MarkDeleted
<1>6. CASE RenewSave(j)
  <2>1. PICK r : row' = [row EXCEPT ![j] = r]
    BY <1>6 DEF RenewSave, SaveJobEntity
  <2>2. QED
    BY <1>6, <2>1
<1>7. CASE Sweep(j)
  <2>1. CASE SweepFound(j)
    BY <2>1, UpdateKeepsDead DEF SweepFound
  <2>2. CASE SweepChain(j)
    BY <2>2, UpdateKeepsDead DEF SweepChain
  <2>3. row' = row \/ SweepFound(j) \/ SweepChain(j)
    BY <1>7 DEF Sweep, SweepRow, SweepStale, SweepNotFound, SweepIdle
  <2>4. QED
    BY <2>1, <2>2, <2>3
<1>8. QED
  BY <1>1, <1>2, <1>3, <1>4, <1>5, <1>6, <1>7 DEF JobStep, Renew

LEMMA WorldKeepsRows ==
    ASSUME \/ \E w \in Wallets : NamespaceIdle(w) \/ DeleteNameSpace(w)
           \/ Tick \/ Crash
    PROVE  /\ row' = row
           /\ TypeOK => \A k \in Jobs : /\ pc'[k] = "none" => pc[k] = "none"
                                        /\ renew'[k] \in {renew[k], NoRow}
BY DEF NamespaceIdle, DeleteNameSpace, Tick, Crash, dbVars, renewVars, TypeOK

THEOREM UnseenInvariant == Spec => []Unseen
<1>1. Init => Unseen
  BY DEF Init, Unseen
<1>2. TypeOK /\ Unseen /\ [Next]_vars => Unseen'
  <2> SUFFICES ASSUME TypeOK, Unseen, [Next]_vars, NEW k \in Jobs, pc'[k] = "none"
               PROVE  row'[k] = NoRow /\ renew'[k] = NoRow
    BY DEF Unseen
  <2>1. ASSUME NEW j \in Jobs, JobStep(j)
        PROVE  row'[k] = NoRow /\ renew'[k] = NoRow
    <3>1. pc[k] = "none" /\ ~(k = j /\ Receive(j))
      <4>1. CASE Receive(j)
        BY <4>1 DEF TypeOK, Receive, ReceiveSave, ReceiveRefuse, ReceiveDrop,
           ReceiveAccept
      <4>2. CASE Deploy(j)
        BY <4>2 DEF TypeOK, Deploy, Prepare, DeployNamespace, CreateDeployment,
           Expose, ExposePorts, WatchContainerRunningTime, AfterStamp, Submit,
           DeployFails, FailureSwallowed, Receive, ReceiveSave, ReceiveRefuse,
           ReceiveDrop, ReceiveAccept
      <4>3. pc' = pc \/ Receive(j) \/ Deploy(j)
        <5>1. CASE Report(j) \/ Renew(j)
          BY <5>1 DEF Report, ReceiveStatus, ReportStatus, Renew, RenewRead, RenewSave
        <5>2. CASE Sweep(j)
          BY <5>2 DEF Sweep, SweepRow, SweepStale, SweepNotFound,
             SweepIdle, SweepFound, SweepChain
        <5>3. CASE \E a \in Actors : Remove(j, a)
          BY <5>3 DEF Remove, DeleteJob, DeleteJobFails, MarkDeleted
        <5>4. CASE CancelJob(j) \/ TaskDelete(j) \/ CleanAbnormalDeployment(j)
                   \/ Pods(j) \/ ChainMoves(j)
          BY <5>4 DEF CancelJob, TaskDelete, CleanAbnormalDeployment, Pods, ChainMoves
        <5>5. QED
          BY <2>1, <5>1, <5>2, <5>3, <5>4 DEF JobStep
      <4>4. CASE pc' = pc /\ Receive(j)
        BY <4>1, <4>4
      <4>5. CASE pc' = pc /\ ~Receive(j)
        BY <4>5
      <4>6. QED
        BY <4>1, <4>2, <4>3, <4>4, <4>5
    <3>2. row[k] = NoRow /\ renew[k] = NoRow /\ ~Live(k)
      BY <3>1 DEF Unseen, NoRow, Live
    <3>3. row'[k] = NoRow
      BY <2>1, <3>1, <3>2, DeadRowChanges DEF Receive, RenewSave
    <3>4. renew'[k] = NoRow
      <4>1. CASE Renew(j)
        BY <3>2, <4>1 DEF TypeOK, Renew, RenewRead, RenewSave
      <4>2. CASE Receive(j) \/ Report(j)
        BY <3>2, <4>2 DEF Receive, ReceiveSave, ReceiveRefuse, ReceiveDrop,
           ReceiveAccept, Report, ReceiveStatus, ReportStatus, renewVars
      <4>3. CASE Deploy(j)
        BY <3>2, <4>3 DEF Deploy, Prepare, DeployNamespace, CreateDeployment,
           Expose, ExposePorts, WatchContainerRunningTime, Submit, DeployFails,
           FailureSwallowed, renewVars
      <4>4. CASE Sweep(j)
        BY <3>2, <4>4 DEF Sweep, SweepRow, SweepStale, SweepNotFound,
           SweepIdle, SweepFound, SweepChain, renewVars
      <4>5. ASSUME NEW a \in Actors, Remove(j, a)
            PROVE  renew'[k] = NoRow
        BY <3>2, <4>5 DEF Remove, DeleteJob, DeleteJobFails, MarkDeleted, renewVars
      <4>6. CASE CancelJob(j) \/ TaskDelete(j) \/ CleanAbnormalDeployment(j)
                 \/ Pods(j) \/ ChainMoves(j)
        BY <3>2, <4>6 DEF CancelJob, TaskDelete, CleanAbnormalDeployment, Pods,
           ChainMoves, renewVars
      <4>7. QED
        BY <2>1, <4>1, <4>2, <4>3, <4>4, <4>5, <4>6 DEF JobStep
    <3>5. QED
      BY <3>3, <3>4
  <2>2. CASE UNCHANGED vars
    BY <2>2 DEF Unseen, vars, dbVars, renewVars
  <2>3. QED
    BY <2>1, <2>2, WorldKeepsRows DEF Next, Unseen
<1>3. QED
  BY <1>1, <1>2, TypeCorrect, PTL DEF Spec

\* What a deleted row says stays, whatever comes later, but for a refusal
\* decided after a cancel and ReNewJob's save of the row it had read.
THEOREM DeletedVerdictStays == Spec => VerdictKept
<1> DEFINE Kept == \A j \in Jobs : row[j].del /\ row'[j] # row[j] =>
                      \/ pc[j] = "checking" /\ pc'[j] = "closed" /\ row'[j].del
                      \/ renew[j] # NoRow /\ renew'[j] = NoRow
<1>1. TypeOK /\ Unseen /\ [Next]_vars => [Kept]_vars
  <2> SUFFICES ASSUME TypeOK, Unseen, Next, NEW k \in Jobs,
                      row[k].del, row'[k] # row[k]
               PROVE  \/ pc[k] = "checking" /\ pc'[k] = "closed" /\ row'[k].del
                      \/ renew[k] # NoRow /\ renew'[k] = NoRow
    OBVIOUS
  <2>1. ~Live(k)
    BY DEF Live
  <2>2. PICK j \in Jobs : JobStep(j)
    BY WorldKeepsRows DEF Next
  <2>3. \/ k = j /\ ReceiveSave(j)
        \/ k = j /\ ReceiveRefuse(j) /\ row'[k].del = row[k].del
        \/ k = j /\ RenewSave(j)
    BY <2>1, <2>2, DeadRowChanges
  <2>4. ~(k = j /\ ReceiveSave(j))
    BY DEF ReceiveSave, Unseen, NoRow
  <2>5. CASE k = j /\ ReceiveRefuse(j) /\ row'[k].del = row[k].del
    BY <2>5 DEF ReceiveRefuse, TypeOK
  <2>6. CASE k = j /\ RenewSave(j)
    BY <2>6 DEF RenewSave, TypeOK
  <2>7. QED
    BY <2>3, <2>4, <2>5, <2>6
<1>2. QED
  BY <1>1, TypeCorrect, UnseenInvariant, PTL DEF Spec, VerdictKept

-----------------------------------------------------------------------------
(* Leaks. A job without a cause for one is marked as deleted only when its *)
(* deployment is gone, and is removed only when nothing deploys it any     *)
(* more, so it cannot come back.                                           *)

Settled == {"closed", "done", "dead"}

Marking(j) == \E a \in Actors : rm[j][a] = "mark"

Excused(j) == overlap[j] \/ erred[j] \/ Kind[j] = "image"

Leakless(j) ==
    /\ sweep[j].at # "off" => pc[j] # "none"
    /\ ~renew[j].del
    /\ ~Excused(j) =>
         /\ Removing(j) \/ row[j].del => pc[j] \in Settled
         /\ Marking(j) \/ row[j].del => ~up[j]

LeakInv == \A j \in Jobs : Leakless(j)

LEMMA UpdateMarks ==
    ASSUME row \in [Jobs -> Rows], NEW j \in Jobs, NEW st, NEW exp,
           UpdateJobEntityByJobUuid(j, st, exp), NEW k \in Jobs
    PROVE  row'[k].del = row[k].del
<1> DEFINE new == [st  |-> IF st = "RECEIVED" THEN row[j].st ELSE st,
                   exp |-> IF exp = 0 THEN row[j].exp ELSE exp,
                   del |-> FALSE]
<1>1. row' = [row EXCEPT ![j] = IF Live(j) THEN new ELSE row[j]]
  BY DEF UpdateJobEntityByJobUuid
<1>2. ~new.del /\ (Live(j) => row[j].del = FALSE)
  BY DEF Live, Rows
<1> HIDE DEF new
<1>3. new.del = FALSE
  BY DEF new
<1>4. QED
  BY <1>1, <1>2, <1>3

\* The parts of the state that Leakless reads of a job.
Unmoved(k) ==
    /\ sweep'[k].at # "off" => sweep[k].at # "off" \/ pc[k] # "none"
    /\ rm'[k] = rm[k] /\ overlap'[k] = overlap[k]
    /\ erred'[k] = erred[k] /\ (row'[k].del => row[k].del)
    /\ renew'[k].del => renew[k].del

LEMMA UnmovedLeakless ==
    ASSUME NEW k \in Jobs, Leakless(k), Unmoved(k),
           pc[k] \in Settled => pc'[k] \in Settled,
           pc'[k] = "none" => pc[k] = "none",
           up'[k] => up[k] \/ pc[k] \notin Settled
    PROVE  Leakless(k)'
BY DEF Leakless, Unmoved, Excused, Removing, Marking, Settled

LEMMA DeliveryLeakless ==
    ASSUME TypeOK, LeakInv, NEW j \in Jobs, NEW k \in Jobs,
           Receive(j) \/ Deploy(j) \/ Report(j) \/ Renew(j) \/ Pods(j) \/ ChainMoves(j)
               \/ CleanAbnormalDeployment(j),
           Unseen
    PROVE  Leakless(k)'
<1> USE DEF TypeOK, vars, dbVars, reportVars, clusterVars, removeVars, renewVars, history
<1>1. Leakless(k)
  BY DEF LeakInv
<1>2. CASE Receive(j)
  <2>1. CASE ReceiveSave(j)
    <3>1. row[j] = NoRow /\ pc[j] = "none"
      BY <2>1 DEF ReceiveSave, Unseen
    <3>2. row'[k].del = row[k].del
      <4> DEFINE new == [st |-> "RECEIVED", exp |-> now + Duration, del |-> FALSE]
      <4>1. row' = [row EXCEPT ![j] = new]
        BY <2>1 DEF ReceiveSave, SaveJobEntity
      <4>2. new.del = FALSE /\ row[j].del = FALSE
        BY <3>1 DEF NoRow
      <4> HIDE DEF new
      <4>3. row'[j].del = row[j].del
        BY <4>1, <4>2
      <4>4. QED
        BY <4>1, <4>3
    <3>3. Unmoved(k)
      BY <2>1, <3>2 DEF ReceiveSave, Unmoved
    <3>4. pc'[k] = pc[k] \/ (pc[k] = "none" /\ pc'[k] = "checking")
      BY <2>1, <3>1 DEF ReceiveSave
    <3>5. QED
      BY <1>1, <2>1, <3>3, <3>4, UnmovedLeakless DEF ReceiveSave, Settled
  <2>2. CASE ReceiveRefuse(j)
    <3>1. PICK st \in {"REJECTED", "FAILED"} : row' = [row EXCEPT ![j].st = st]
      BY <2>2 DEF ReceiveRefuse, UpdateJobEntityStatusByJobUuid
    <3>2. row'[k].del = row[k].del
      BY <3>1 DEF Rows
    <3>3. Unmoved(k)
      BY <2>2, <3>2 DEF ReceiveRefuse, Unmoved
    <3>4. pc'[k] = pc[k] \/ (pc[k] = "checking" /\ pc'[k] = "closed")
      BY <2>2 DEF ReceiveRefuse
    <3>5. QED
      BY <1>1, <2>2, <3>3, <3>4, UnmovedLeakless DEF ReceiveRefuse, Settled
  <2>3. CASE ReceiveDrop(j)
    BY <1>1, <2>3, UnmovedLeakless DEF ReceiveDrop, Unmoved, Settled
  <2>4. CASE ReceiveAccept(j)
    BY <1>1, <2>4, UnmovedLeakless DEF ReceiveAccept, Unmoved, Settled
  <2>5. QED
    BY <1>2, <2>1, <2>2, <2>3, <2>4 DEF Receive
<1>3. CASE Deploy(j)
  <2>1. CASE Prepare(j) \/ DeployNamespace(j) \/ Expose(j) \/ ExposePorts(j) \/ Submit(j)
             \/ FailureSwallowed(j)
    <3>1. /\ Unmoved(k) /\ up' = up
          /\ pc[j] \notin Settled \cup {"none"}
          /\ \E p \in Pcs \ {"none"} : pc' = [pc EXCEPT ![j] = p]
      BY <2>1 DEF Prepare, DeployNamespace, Expose, ExposePorts, Submit, FailureSwallowed,
                  Unmoved, Settled, Pcs, Deploying
    <3>2. QED
      BY <1>1, <3>1, UnmovedLeakless DEF Settled
  <2>2. CASE CreateDeployment(j)
    <3>1. /\ Unmoved(k) /\ pc[j] = "create" /\ pc' = [pc EXCEPT ![j] = "expose"]
          /\ up' = [up EXCEPT ![j] = TRUE]
      BY <2>2 DEF CreateDeployment, Unmoved
    <3>2. QED
      BY <1>1, <3>1, UnmovedLeakless DEF Settled
  <2>3. CASE WatchContainerRunningTime(j)
    <3>1. row'[k].del = row[k].del
      BY <2>3, UpdateMarks DEF WatchContainerRunningTime
    <3>2. /\ Unmoved(k) /\ up' = up /\ pc[j] \notin Settled \cup {"none"}
      BY <2>3, <3>1 DEF WatchContainerRunningTime, Unmoved, Settled
    <3>3. PICK p \in AfterStamp(j) : pc' = [pc EXCEPT ![j] = p]
      BY <2>3 DEF WatchContainerRunningTime
    <3>4. p # "none"
      BY DEF AfterStamp
    <3>5. QED
      BY <1>1, <3>2, <3>3, <3>4, UnmovedLeakless DEF Settled
  <2>4. CASE DeployFails(j)
    <3>1. /\ pc[j] \notin Settled \cup {"none"} /\ pc' = [pc EXCEPT ![j] = "done"]
          /\ up' = up /\ row' = row /\ sweep' = sweep /\ overlap' = overlap /\ erred' = erred
          /\ renew' = renew
          /\ rm' = [rm EXCEPT ![j]["undo"] = "delete"]
      BY <2>4 DEF DeployFails, MayFail, Settled
    <3>2. ASSUME k = j
          PROVE  Leakless(k)'
      <4>1. ~Excused(k) => ~row[k].del /\ ~Marking(k)
        BY <1>1, <3>1, <3>2 DEF Leakless, Marking, Removing
      <4>2. Marking(k)' => Marking(k)
        BY <3>1, <3>2 DEF Marking, Actors
      <4>3. pc'[k] = "done" /\ up'[k] = up[k]
        BY <3>1, <3>2
      <4>4. QED
        BY <1>1, <3>1, <4>1, <4>2, <4>3 DEF Leakless, Excused, Settled
    <3>3. ASSUME k # j
          PROVE  Leakless(k)'
      <4>1. pc'[k] = pc[k] /\ rm'[k] = rm[k]
        BY <3>1, <3>3
      <4>2. QED
        BY <1>1, <3>1, <4>1, UnmovedLeakless DEF Unmoved
    <3>4. QED
      BY <3>2, <3>3
  <2>5. QED
    BY <1>3, <2>1, <2>2, <2>3, <2>4 DEF Deploy
<1>4. CASE Report(j)
  <2>1. row'[k].del = row[k].del
    BY <1>4, UpdateMarks DEF Report, ReceiveStatus, ReportStatus
  <2>2. Unmoved(k) /\ pc' = pc /\ up' = up
    BY <1>4, <2>1 DEF Report, ReceiveStatus, ReportStatus, Unmoved
  <2>3. QED
    BY <1>1, <2>2, UnmovedLeakless
<1>5. CASE Pods(j) \/ ChainMoves(j) \/ CleanAbnormalDeployment(j)
  <2>1. Unmoved(k) /\ pc' = pc /\ (up'[k] => up[k])
    BY <1>5 DEF Pods, ChainMoves, CleanAbnormalDeployment, Unmoved
  <2>2. QED
    BY <1>1, <2>1, UnmovedLeakless
<1>6. CASE RenewRead(j)
  <2>1. Unmoved(k) /\ pc' = pc /\ up' = up
    BY <1>6 DEF RenewRead, Unmoved, Live
  <2>2. QED
    BY <1>1, <2>1, UnmovedLeakless
<1>7. CASE RenewSave(j)
  <2>1. PICK exp : row' = [row EXCEPT ![j] = [renew[j] EXCEPT !.exp = exp]]
    BY <1>7 DEF RenewSave, SaveJobEntity
  <2>2. [renew[j] EXCEPT !.exp = exp].del = renew[j].del /\ ~renew[j].del
    BY DEF LeakInv, Leakless, Rows
  <2>3. row'[k].del => row[k].del
    BY <2>1, <2>2
  <2>4. renew'[k].del => renew[k].del
    BY <1>7 DEF RenewSave, NoRow
  <2>5. Unmoved(k) /\ pc' = pc /\ up' = up
    BY <1>7, <2>3, <2>4 DEF RenewSave, Unmoved
  <2>6. QED
    BY <1>1, <2>5, UnmovedLeakless
<1>8. QED
  BY <1>2, <1>3, <1>4, <1>5, <1>6, <1>7 DEF Renew

\* Whoever decides to remove a job notes whether it is still being deployed.
LEMMA RemovalLeakless ==
    ASSUME TypeOK, NEW k \in Jobs, Leakless(k), pc[k] # "none",
           NEW a \in Actors, NEW phase \in Phases,
           rm' = [rm EXCEPT ![k][a] = phase], NoteOverlap(k),
           phase = "mark" => ~up[k],
           row'[k].del => row[k].del,
           up' = up, pc' = pc, erred' = erred, renew' = renew
    PROVE  Leakless(k)'
<1>1. rm \in [Jobs -> [Actors -> Phases]] /\ overlap \in [Jobs -> BOOLEAN]
      /\ pc \in [Jobs -> Pcs]
  BY DEF TypeOK
<1>2. Marking(k)' => Marking(k) \/ ~up[k]
  BY <1>1 DEF Marking
<1>3. overlap'[k] <=> overlap[k] \/ pc[k] \in Deploying \cup {"checking"}
  BY <1>1 DEF NoteOverlap
<1>4. Excused(k)' \/ pc[k] \in Settled
  BY <1>1, <1>3 DEF Excused, Settled, Pcs
<1>5. Excused(k) => Excused(k)'
  BY <1>3 DEF Excused
<1>6. /\ row'[k].del => row[k].del
      /\ up'[k] = up[k] /\ pc'[k] = pc[k] /\ renew'[k] = renew[k]
  OBVIOUS
<1>7. (~renew[k].del)' /\ (sweep[k].at # "off" => pc[k] # "none")'
  BY <1>6 DEF Leakless
<1>8. (~Excused(k) =>
         /\ Removing(k) \/ row[k].del => pc[k] \in Settled
         /\ Marking(k) \/ row[k].del => ~up[k])'
  BY <1>2, <1>4, <1>5, <1>6 DEF Leakless
<1>9. QED
  BY <1>7, <1>8 DEF Leakless

LEMMA RemoveLeakless ==
    ASSUME TypeOK, Unseen, LeakInv, NEW j \in Jobs, NEW k \in Jobs, NEW a \in Actors,
           CancelJob(j) \/ TaskDelete(j) \/ Remove(j, a)
    PROVE  Leakless(k)'
<1> USE DEF vars, dbVars, reportVars, clusterVars, removeVars, renewVars, history
<1>1. Leakless(k) /\ Leakless(j)
  BY DEF LeakInv
<1>2. /\ rm \in [Jobs -> [Actors -> Phases]] /\ up \in [Jobs -> BOOLEAN]
      /\ row \in [Jobs -> Rows] /\ erred \in [Jobs -> BOOLEAN]
      /\ overlap \in [Jobs -> BOOLEAN]
  BY DEF TypeOK
<1>3. pc' = pc /\ sweep' = sweep /\ renew' = renew
  BY DEF CancelJob, TaskDelete, Remove, DeleteJob, DeleteJobFails, MarkDeleted
<1>4. CASE k # j
  <2>1. rm'[k] = rm[k] /\ overlap'[k] = overlap[k] /\ erred'[k] = erred[k]
    BY <1>2, <1>4 DEF CancelJob, TaskDelete, Remove, DeleteJob, DeleteJobFails, MarkDeleted,
                      NoteOverlap
  <2>2. row'[k] = row[k] /\ up'[k] = up[k]
    BY <1>2, <1>4 DEF CancelJob, TaskDelete, Remove, DeleteJob, DeleteJobFails, MarkDeleted,
                      DeleteJobEntity
  <2>3. Unmoved(k)
    BY <1>3, <2>1, <2>2 DEF Unmoved
  <2>4. QED
    BY <1>1, <1>3, <2>2, <2>3, UnmovedLeakless
<1>5. CASE CancelJob(j)
  <2>1. pc[j] # "none"
    BY <1>5 DEF CancelJob, Live, Unseen, NoRow
  <2>2. QED
    BY <1>1, <1>3, <1>4, <1>5, <2>1, RemovalLeakless DEF CancelJob, Actors, Phases
<1>6. CASE TaskDelete(j)
  <2>1. pc[j] # "none"
    BY <1>6 DEF TaskDelete, Unseen, NoRow
  <2>2. QED
    BY <1>1, <1>3, <1>4, <1>6, <2>1, RemovalLeakless DEF TaskDelete, Actors, Phases
<1>7. CASE DeleteJob(j, a) /\ k = j
  <2>1. /\ rm[k][a] = "delete" /\ row' = row /\ overlap' = overlap /\ erred' = erred
        /\ up' = [up EXCEPT ![k] = up[k] /\ ~Reaches(k, a)]
    BY <1>7 DEF DeleteJob
  <2>2. Removing(k)
    BY <2>1 DEF Removing
  <2>3. Excused(k) \/ ~up'[k]
    BY <1>2, <2>1 DEF Excused, Reaches
  <2>4. (Excused(k) <=> Excused(k)') /\ row'[k] = row[k] /\ pc'[k] = pc[k]
    BY <1>3, <2>1 DEF Excused
  <2>5. QED
    BY <1>1, <1>3, <2>2, <2>3, <2>4 DEF Leakless
<1>8. CASE DeleteJobFails(j, a) /\ k = j
  <2>1. Excused(k)'
    BY <1>2, <1>8 DEF DeleteJobFails, Excused
  <2>2. QED
    BY <1>1, <1>3, <2>1 DEF Leakless
<1>9. CASE MarkDeleted(j, a) /\ k = j
  <2>1. /\ rm[k][a] = "mark" /\ rm' = [rm EXCEPT ![k][a] = "off"] /\ up' = up
        /\ overlap' = overlap /\ erred' = erred
    BY <1>9 DEF MarkDeleted
  <2>2. Marking(k) /\ Removing(k)
    BY <2>1 DEF Marking, Removing
  <2>3. (Excused(k) <=> Excused(k)') /\ up'[k] = up[k] /\ pc'[k] = pc[k]
    BY <1>3, <2>1 DEF Excused
  <2>4. QED
    BY <1>1, <1>3, <2>2, <2>3 DEF Leakless
<1>10. QED
  BY <1>4, <1>5, <1>6, <1>7, <1>8, <1>9 DEF Remove

LEMMA SweepLeakless ==
    ASSUME TypeOK, Unseen, LeakInv, NEW j \in Jobs, NEW k \in Jobs, Sweep(j)
    PROVE  Leakless(k)'
<1> USE DEF vars, dbVars, reportVars, clusterVars, removeVars, renewVars, history
<1>1. Leakless(k) /\ Leakless(j)
  BY DEF LeakInv
<1>2. /\ rm \in [Jobs -> [Actors -> Phases]] /\ row \in [Jobs -> Rows]
      /\ overlap \in [Jobs -> BOOLEAN]
      /\ sweep \in [Jobs -> [at : {"off", "stale", "judge", "chain"}, row : Rows]]
  BY DEF TypeOK
<1>3. pc' = pc /\ up' = up /\ renew' = renew /\ erred' = erred
  BY DEF Sweep, SweepRow, SweepStale, SweepNotFound, SweepIdle, SweepFound, SweepChain,
         SweepConcludes, SweepRemoves, SweepEnds
<1>4. row'[k].del = row[k].del
  <2>1. CASE SweepFound(j)
    BY <1>2, <2>1, UpdateMarks DEF SweepFound
  <2>2. CASE SweepChain(j)
    BY <1>2, <2>2, UpdateMarks DEF SweepChain
  <2>3. QED
    BY <2>1, <2>2 DEF Sweep, SweepRow, SweepStale, SweepNotFound, SweepIdle
<1>5. CASE SweepRow(j)
  <2>1. pc[j] # "none"
    BY <1>5 DEF SweepRow, Live, Unseen, NoRow
  <2>2. Unmoved(k)
    BY <1>2, <1>3, <1>4, <1>5, <2>1 DEF SweepRow, Unmoved
  <2>3. QED
    BY <1>1, <1>3, <2>2, UnmovedLeakless
<1>6. CASE SweepFound(j)
  <2>1. Unmoved(k)
    BY <1>2, <1>3, <1>4, <1>6 DEF SweepFound, Unmoved
  <2>2. QED
    BY <1>1, <1>3, <2>1, UnmovedLeakless
<1>7. ASSUME SweepEnds(j)
      PROVE  Leakless(k)'
  <2>1. Unmoved(k)
    BY <1>2, <1>3, <1>4, <1>7 DEF SweepEnds, Unmoved
  <2>2. QED
    BY <1>1, <1>3, <2>1, UnmovedLeakless
<1>8. ASSUME sweep[j].at # "off", NEW phase \in {"delete", "mark"}, NEW reason,
             phase = "mark" => ~up[j], SweepRemoves(j, reason, phase)
      PROVE  Leakless(k)'
  <2>1. CASE k # j
    <3>1. Unmoved(k)
      BY <1>2, <1>3, <1>4, <1>8, <2>1 DEF SweepRemoves, NoteOverlap, Unmoved
    <3>2. QED
      BY <1>1, <1>3, <3>1, UnmovedLeakless
  <2>2. CASE k = j
    <3>1. pc[k] # "none"
      BY <1>1, <1>8, <2>2 DEF Leakless
    <3>2. rm' = [rm EXCEPT ![k]["sweep"] = phase] /\ NoteOverlap(k)
      BY <1>8, <2>2 DEF SweepRemoves
    <3>3. QED
      BY <1>1, <1>3, <1>4, <1>8, <2>2, <3>1, <3>2, RemovalLeakless DEF Actors, Phases
  <2>3. QED
    BY <2>1, <2>2
<1>9. CASE SweepStale(j)
  BY <1>8, <1>9 DEF SweepStale
<1>10. CASE SweepNotFound(j)
  BY <1>7, <1>8, <1>10 DEF SweepNotFound
<1>11. CASE SweepIdle(j)
  BY <1>8, <1>11 DEF SweepIdle
<1>12. CASE SweepChain(j)
  BY <1>7, <1>8, <1>12 DEF SweepChain, SweepConcludes
<1>13. QED
  BY <1>5, <1>6, <1>9, <1>10, <1>11, <1>12 DEF Sweep

LEMMA WorldLeakless ==
    ASSUME TypeOK, LeakInv, NEW k \in Jobs,
           \/ \E w \in Wallets : NamespaceIdle(w) \/ DeleteNameSpace(w)
           \/ Tick \/ Crash \/ UNCHANGED vars
    PROVE  Leakless(k)'
<1> USE DEF vars, dbVars, reportVars, clusterVars, removeVars, renewVars, history
<1>1. Leakless(k)
  BY DEF LeakInv
<1>2. CASE Crash
  <2>1. pc[k] \in Pcs
    BY DEF TypeOK
  <2>2. /\ row' = row /\ up' = up /\ overlap' = overlap /\ erred' = erred
        /\ sweep'[k].at = "off" /\ ~renew'[k].del
        /\ pc'[k] = IF pc[k] \in Deploying \cup {"checking"} THEN "dead" ELSE pc[k]
        /\ \A a \in Actors : rm'[k][a] \in {rm[k][a], "off"}
    BY <1>2 DEF Crash, NoRow
  <2>3. /\ Removing(k)' => Removing(k)
        /\ Marking(k)' => Marking(k)
        /\ Excused(k)' <=> Excused(k)
        /\ pc[k] \in Settled => pc'[k] \in Settled
    <3>1. Removing(k)' => Removing(k)
      BY <2>2 DEF Removing
    <3>2. Marking(k)' => Marking(k)
      BY <2>2 DEF Marking
    <3>3. QED
      BY <2>2, <3>1, <3>2 DEF Excused, Settled, Deploying
  <2>4. QED
    BY <1>1, <2>2, <2>3 DEF Leakless
<1>3. CASE ~Crash
  <2>1. /\ pc' = pc /\ sweep' = sweep /\ rm' = rm /\ overlap' = overlap /\ erred' = erred
        /\ row' = row /\ renew' = renew
    BY <1>3 DEF NamespaceIdle, DeleteNameSpace, Tick
  <2>2. up'[k] => up[k]
    BY <1>3 DEF NamespaceIdle, DeleteNameSpace, Tick
  <2>3. Unmoved(k)
    BY <2>1 DEF Unmoved
  <2>4. QED
    BY <1>1, <2>1, <2>2, <2>3, UnmovedLeakless
<1>4. QED
  BY <1>2, <1>3

\* No deployment outlives the row of its job, but for a removal that came while the job
\* was being deployed, a DeleteJob that gave up halfway, and the clean-up of an image
\* job. LeakInv says more than LeakHasCause: without a cause the deployment is gone even
\* while somebody is still removing the job.
THEOREM LeaksHaveCauses == Spec => []LeakHasCause
<1>1. Init => LeakInv
  <2> SUFFICES ASSUME Init, NEW k \in Jobs
               PROVE  Leakless(k)
    BY DEF LeakInv
  <2>1. /\ sweep[k].at = "off" /\ renew[k].del = FALSE /\ row[k].del = FALSE
        /\ rm[k] = [a \in Actors |-> "off"]
    BY DEF Init, NoRow
  <2>2. ~Removing(k) /\ ~Marking(k)
    BY <2>1 DEF Removing, Marking
  <2>3. QED
    BY <2>1, <2>2 DEF Leakless
<1>2. TypeOK /\ Unseen /\ LeakInv /\ [Next]_vars => LeakInv'
  <2> SUFFICES ASSUME TypeOK, Unseen, LeakInv, [Next]_vars, NEW k \in Jobs
               PROVE  Leakless(k)'
    BY DEF LeakInv
  <2>1. ASSUME NEW j \in Jobs, JobStep(j)
        PROVE  Leakless(k)'
    <3>1. CASE CancelJob(j) \/ TaskDelete(j)
      BY <3>1, RemoveLeakless DEF Actors
    <3>2. ASSUME NEW a \in Actors, Remove(j, a)
          PROVE  Leakless(k)'
      BY <3>2, RemoveLeakless
    <3>3. CASE Sweep(j)
      BY <3>3, SweepLeakless
    <3>4. QED
      BY <2>1, <3>1, <3>2, <3>3, DeliveryLeakless DEF JobStep
  <2>2. QED
    BY <2>1, WorldLeakless DEF Next
<1>3. LeakInv => LeakHasCause
  BY DEF LeakInv, Leakless, Excused, LeakHasCause
<1>4. QED
  BY <1>1, <1>2, <1>3, TypeCorrect, UnseenInvariant, PTL DEF Spec

-----------------------------------------------------------------------------
(* Paid time. As long as nobody renewed the job and the chain does not     *)
(* know it, nothing that is written down of its expire_time is beyond what *)
(* watchContainerRunningTime would write now.                              *)

Paid(j) ==
    renewals[j] = 0 /\ chain[j].st = "absent" =>
        /\ row[j].exp =< now + Duration
        /\ sweep[j].row.exp =< now + Duration
        /\ renew[j] = NoRow

PaidInv == \A j \in Jobs : Paid(j)

\* What a database call leaves in the expire_time columns.
LEMMA UpdateExpiry ==
    ASSUME row \in [Jobs -> Rows], NEW j \in Jobs, NEW st, NEW exp \in Nat,
           UpdateJobEntityByJobUuid(j, st, exp), NEW k \in Jobs
    PROVE  row'[k].exp = row[k].exp \/ (k = j /\ exp # 0 /\ row'[k].exp = exp)
<1> DEFINE new == [st  |-> IF st = "RECEIVED" THEN row[j].st ELSE st,
                   exp |-> IF exp = 0 THEN row[j].exp ELSE exp,
                   del |-> FALSE]
<1>1. row' = [row EXCEPT ![j] = IF Live(j) THEN new ELSE row[j]]
  BY DEF UpdateJobEntityByJobUuid
<1>2. new.exp = row[j].exp \/ (exp # 0 /\ new.exp = exp)
  OBVIOUS
<1> HIDE DEF new
<1>3. QED
  BY <1>1, <1>2

LEMMA DeleteExpiry ==
    ASSUME row \in [Jobs -> Rows], NEW j \in Jobs,
           NEW st, DeleteJobEntity(j, st), NEW k \in Jobs
    PROVE  row'[k].exp = row[k].exp
BY DEF DeleteJobEntity, Rows

\* The writes of an expire_time, step by step: what ReceiveSave, the restart of the
\* paid time, the expiry cron and ReNewJob write, and that no other step writes one.
ExpiryStep(j, k) ==
    \/ row'[k].exp = row[k].exp
    \/ /\ k = j
       /\ \/ ReceiveSave(j) /\ row'[k].exp = now + Duration
          \/ WatchContainerRunningTime(j) /\ row'[k].exp = now + Duration
          \/ SweepFound(j) /\ row'[k].exp = sweep[k].row.exp
          \/ SweepChain(j) /\ row'[k].exp = chain[k].exp /\ chain[k].st # "absent"
          \/ /\ RenewSave(j)
             /\ row'[k].exp \in {renew[k].exp + Duration, chain[k].exp, 0}

LEMMA ExpirySteps ==
    ASSUME TypeOK, NEW j \in Jobs, NEW k \in Jobs, JobStep(j)
    PROVE  ExpiryStep(j, k)
<1> USE SpaceJobAssumption DEF vars, dbVars
<1>1. /\ row \in [Jobs -> Rows] /\ now \in Nat /\ renew \in [Jobs -> Rows]
      /\ chain \in [Jobs -> [st : {"absent", "active", "completed", "terminated"}, exp : Nat]]
      /\ sweep \in [Jobs -> [at : {"off", "stale", "judge", "chain"}, row : Rows]]
  BY DEF TypeOK
<1>2. CASE Receive(j)
  <2>1. CASE ReceiveSave(j)
    <3> DEFINE new == [st |-> "RECEIVED", exp |-> now + Duration, del |-> FALSE]
    <3>1. row' = [row EXCEPT ![j] = new] /\ new.exp = now + Duration
      BY <2>1 DEF ReceiveSave, SaveJobEntity
    <3> HIDE DEF new
    <3>2. row'[k].exp = row[k].exp \/ (k = j /\ row'[k].exp = now + Duration)
      BY <1>1, <3>1
    <3>3. QED
      BY <2>1, <3>2 DEF ExpiryStep
  <2>2. CASE ReceiveRefuse(j)
    <3>1. PICK st \in {"REJECTED", "FAILED"} : row' = [row EXCEPT ![j].st = st]
      BY <2>2 DEF ReceiveRefuse, UpdateJobEntityStatusByJobUuid
    <3>2. row'[k].exp = row[k].exp
      BY <1>1, <3>1 DEF Rows
    <3>3. QED
      BY <3>2 DEF ExpiryStep
  <2>3. CASE ReceiveDrop(j) \/ ReceiveAccept(j)
    BY <2>3 DEF ReceiveDrop, ReceiveAccept, ExpiryStep
  <2>4. QED
    BY <1>2, <2>1, <2>2, <2>3 DEF Receive
<1>3. CASE Deploy(j)
  <2>1. CASE WatchContainerRunningTime(j)
    <3>1. now + Duration \in Nat
      BY <1>1
    <3>2. row'[k].exp = row[k].exp \/ (k = j /\ row'[k].exp = now + Duration)
      BY <1>1, <2>1, <3>1, UpdateExpiry DEF WatchContainerRunningTime
    <3>3. QED
      BY <2>1, <3>2 DEF ExpiryStep
  <2>2. row' = row \/ WatchContainerRunningTime(j)
    BY <1>3 DEF Deploy, Prepare, DeployNamespace, CreateDeployment, Expose,
       ExposePorts, Submit, DeployFails, FailureSwallowed
  <2>3. QED
    BY <2>1, <2>2 DEF ExpiryStep
<1>4. CASE Report(j)
  <2>1. row'[k].exp = row[k].exp
    BY <1>1, <1>4, UpdateExpiry DEF Report, ReceiveStatus, ReportStatus
  <2>2. QED
    BY <2>1 DEF ExpiryStep
<1>5. CASE CancelJob(j) \/ TaskDelete(j) \/ CleanAbnormalDeployment(j) \/ Pods(j)
           \/ ChainMoves(j) \/ RenewRead(j)
  BY <1>5 DEF CancelJob, TaskDelete, CleanAbnormalDeployment, Pods, ChainMoves,
     RenewRead, ExpiryStep
<1>6. ASSUME NEW a \in Actors, Remove(j, a)
      PROVE  ExpiryStep(j, k)
  <2>1. row'[k].exp = row[k].exp
    BY <1>1, <1>6, DeleteExpiry DEF Remove, DeleteJob, DeleteJobFails, MarkDeleted
  <2>2. QED
    BY <2>1 DEF ExpiryStep
<1>7. CASE RenewSave(j)
  <2>1. PICK first, second \in ChainExpiry(j) :
           row' = [row EXCEPT ![j] = [renew[j] EXCEPT
                      !.exp = IF first = 0 THEN renew[j].exp + Duration ELSE second]]
    BY <1>7 DEF RenewSave, SaveJobEntity
  <2> DEFINE exp == IF first = 0 THEN renew[j].exp + Duration ELSE second
             new == [renew[j] EXCEPT !.exp = exp]
  <2>2. exp \in {renew[j].exp + Duration, chain[j].exp, 0}
    BY DEF ChainExpiry
  <2> HIDE DEF exp
  <2>3. new.exp = exp
    BY <1>1 DEF Rows
  <2>4. row' = [row EXCEPT ![j] = new]
    BY <2>1 DEF exp
  <2> HIDE DEF new
  <2>5. row'[k].exp = row[k].exp \/ (k = j /\ row'[k].exp = exp)
    BY <1>1, <2>3, <2>4
  <2>6. QED
    BY <1>7, <2>2, <2>5 DEF ExpiryStep
<1>8. CASE Sweep(j)
  <2>1. CASE SweepFound(j)
    <3>1. sweep[j].row.exp \in Nat
      BY <1>1 DEF Rows
    <3>2. row'[k].exp = row[k].exp \/ (k = j /\ row'[k].exp = sweep[j].row.exp)
      BY <1>1, <2>1, <3>1, UpdateExpiry DEF SweepFound
    <3>3. QED
      BY <2>1, <3>2 DEF ExpiryStep
  <2>2. CASE SweepChain(j)
    <3>1. chain[j].exp \in Nat
      BY <1>1
    <3>2. \/ row'[k].exp = row[k].exp
          \/ k = j /\ row'[k].exp = chain[j].exp /\ chain[j].st # "absent"
      BY <1>1, <2>2, <3>1, UpdateExpiry DEF SweepChain, OnChain
    <3>3. QED
      BY <2>2, <3>2 DEF ExpiryStep
  <2>3. row' = row \/ SweepFound(j) \/ SweepChain(j)
    BY <1>8 DEF Sweep, SweepRow, SweepStale, SweepNotFound, SweepIdle
  <2>4. QED
    BY <2>1, <2>2, <2>3 DEF ExpiryStep
<1>9. QED
  BY <1>2, <1>3, <1>4, <1>5, <1>6, <1>7, <1>8 DEF JobStep, Renew

\* What the expiry cron keeps of a row is what it read or had before, and only RenewRead
\* fills what ReNewJob keeps.
LEMMA KeptRows ==
    ASSUME TypeOK, NEW j \in Jobs, NEW k \in Jobs, JobStep(j)
    PROVE  /\ sweep'[k].row.exp \in {sweep[k].row.exp, row[k].exp, 0}
           /\ renewals'[k] = 0 => renewals[k] = 0 /\ renew'[k] \in {renew[k], NoRow}
           /\ chain'[k].st = "absent" => chain[k].st = "absent"
           /\ now' = now
<1> USE DEF vars, dbVars, reportVars, clusterVars, removeVars, renewVars, history
<1>1. /\ row \in [Jobs -> Rows] /\ renewals \in [Jobs -> Nat] /\ renew \in [Jobs -> Rows]
      /\ chain \in [Jobs -> [st : {"absent", "active", "completed", "terminated"}, exp : Nat]]
      /\ sweep \in [Jobs -> [at : {"off", "stale", "judge", "chain"}, row : Rows]]
  BY DEF TypeOK
<1> DEFINE Goal == /\ sweep'[k].row.exp \in {sweep[k].row.exp, row[k].exp, 0}
                   /\ renewals'[k] = 0 => renewals[k] = 0 /\ renew'[k] \in {renew[k], NoRow}
                   /\ chain'[k].st = "absent" => chain[k].st = "absent"
                   /\ now' = now
<1>2. CASE Receive(j) \/ Report(j) \/ CancelJob(j) \/ TaskDelete(j) \/ Pods(j)
           \/ CleanAbnormalDeployment(j)
  BY <1>2 DEF Receive, ReceiveSave, ReceiveRefuse, ReceiveDrop, ReceiveAccept, Report,
     ReceiveStatus, ReportStatus, CancelJob, TaskDelete, Pods, CleanAbnormalDeployment
<1>3. CASE Deploy(j)
  BY <1>3 DEF Deploy, Prepare, DeployNamespace, CreateDeployment, Expose, ExposePorts,
     WatchContainerRunningTime, Submit, DeployFails, FailureSwallowed
<1>4. ASSUME NEW a \in Actors, Remove(j, a)
      PROVE  Goal
  BY <1>4 DEF Remove, DeleteJob, DeleteJobFails, MarkDeleted
<1>5. CASE ChainMoves(j)
  <2>1. sweep' = sweep /\ renewals' = renewals /\ renew' = renew /\ now' = now
    BY <1>5 DEF ChainMoves
  <2>2. chain'[k].st = "absent" => chain[k].st = "absent"
    <3> DEFINE new == [st |-> "active", exp |-> now + Duration]
    <3>1. CASE chain[j].st = "absent" /\ chain' = [chain EXCEPT ![j] = new]
      BY <1>1, <3>1
    <3>2. CASE chain[j].st = "active"
               /\ \E e : chain' = [chain EXCEPT ![j] = [chain[j] EXCEPT !.exp = e]]
      <4>1. PICK e : chain' = [chain EXCEPT ![j] = [chain[j] EXCEPT !.exp = e]]
        BY <3>2
      <4>2. [chain[j] EXCEPT !.exp = e].st = chain[j].st
        BY <1>1
      <4>3. QED
        BY <1>1, <4>1, <4>2
    <3>3. ASSUME NEW s \in {"completed", "terminated"},
                 chain' = [chain EXCEPT ![j] = [chain[j] EXCEPT !.st = s]]
          PROVE  chain'[k].st = "absent" => chain[k].st = "absent"
      <4>1. [chain[j] EXCEPT !.st = s].st = s
        BY <1>1
      <4>2. QED
        BY <1>1, <3>3, <4>1
    <3>4. QED
      BY <1>5, <3>1, <3>2, <3>3 DEF ChainMoves
  <2>3. QED
    BY <2>1, <2>2
<1>6. CASE Renew(j)
  <2>1. sweep' = sweep /\ chain' = chain /\ now' = now
    BY <1>6 DEF Renew, RenewRead, RenewSave
  <2>2. CASE RenewRead(j)
    <3>1. renewals' = [renewals EXCEPT ![j] = renewals[j] + 1] /\ renew' = [renew EXCEPT ![j] = row[j]]
      BY <2>2 DEF RenewRead
    <3>2. CASE k = j
      <4>1. renewals'[k] = renewals[k] + 1 /\ renewals[k] \in Nat
        BY <1>1, <3>1, <3>2
      <4>2. renewals'[k] # 0
        BY <4>1
      <4>3. QED
        BY <2>1, <4>2
    <3>3. CASE k # j
      BY <1>1, <2>1, <3>1, <3>3
    <3>4. QED
      BY <3>2, <3>3
  <2>3. CASE RenewSave(j)
    BY <1>1, <2>1, <2>3 DEF RenewSave
  <2>4. QED
    BY <1>6, <2>2, <2>3 DEF Renew
<1>7. CASE Sweep(j)
  <2>1. renewals' = renewals /\ renew' = renew /\ chain' = chain /\ now' = now
    BY <1>7 DEF Sweep, SweepRow, SweepStale, SweepNotFound, SweepIdle, SweepFound, SweepChain
  <2>2. CASE sweep' = [sweep EXCEPT ![j] = [at |-> "off", row |-> NoRow]]
    BY <1>1, <2>1, <2>2 DEF NoRow
  <2>3. CASE SweepRow(j)
    BY <1>1, <2>1, <2>3 DEF SweepRow
  <2>4. CASE SweepFound(j)
    <3> DEFINE shown == [sweep[j].row EXCEPT !.st = "RUNNING"]
               new   == [at |-> "chain", row |-> shown]
    <3>1. sweep' = [sweep EXCEPT ![j] = new]
      BY <2>4 DEF SweepFound
    <3>2. shown.exp = sweep[j].row.exp
      BY <1>1 DEF Rows
    <3>3. new.row = shown
      OBVIOUS
    <3> HIDE DEF shown, new
    <3>4. QED
      BY <1>1, <2>1, <3>1, <3>2, <3>3
  <2>5. QED
    BY <1>7, <2>2, <2>3, <2>4 DEF Sweep, SweepStale, SweepNotFound, SweepIdle, SweepChain,
       SweepConcludes, SweepRemoves, SweepEnds
<1>8. QED
  BY <1>2, <1>3, <1>4, <1>5, <1>6, <1>7 DEF JobStep

LEMMA PaidStarts == Init => PaidInv
<1> SUFFICES ASSUME Init, NEW k \in Jobs
             PROVE  Paid(k)
  BY DEF PaidInv
<1>1. row[k].exp = 0 /\ sweep[k].row.exp = 0 /\ renew[k] = NoRow /\ now = 0
  BY DEF Init, NoRow
<1>2. QED
  BY <1>1, SpaceJobAssumption DEF Paid

LEMMA PaidStep ==
    ASSUME TypeOK, PaidInv, [Next]_vars
    PROVE  PaidInv'
<1> SUFFICES ASSUME NEW k \in Jobs
             PROVE  Paid(k)'
  BY DEF PaidInv
<1> USE SpaceJobAssumption
<1>1. /\ Paid(k) /\ now \in Nat /\ Duration \in Nat
      /\ row[k].exp \in Nat /\ sweep[k].row.exp \in Nat
  BY DEF PaidInv, TypeOK, Rows
<1>2. ASSUME NEW j \in Jobs, JobStep(j)
      PROVE  Paid(k)'
  <2> SUFFICES ASSUME renewals'[k] = 0, chain'[k].st = "absent"
               PROVE  /\ row'[k].exp =< now' + Duration
                      /\ sweep'[k].row.exp =< now' + Duration
                      /\ renew'[k] = NoRow
    BY DEF Paid
  <2>1. /\ sweep'[k].row.exp \in {sweep[k].row.exp, row[k].exp, 0}
        /\ renewals[k] = 0 /\ renew'[k] \in {renew[k], NoRow}
        /\ chain[k].st = "absent" /\ now' = now
    BY <1>2, KeptRows
  <2>2. /\ row[k].exp =< now + Duration /\ sweep[k].row.exp =< now + Duration
        /\ renew[k] = NoRow
    BY <1>1, <2>1 DEF Paid
  <2>3. row'[k].exp \in {row[k].exp, now + Duration, sweep[k].row.exp}
    <3>1. ExpiryStep(j, k)
      BY <1>2, ExpirySteps
    <3>2. ~(k = j /\ RenewSave(j))
      BY <2>2 DEF RenewSave
    <3>3. QED
      BY <2>1, <3>1, <3>2 DEF ExpiryStep
  <2>4. QED
    BY <1>1, <2>1, <2>2, <2>3
<1>3. CASE Crash
  <2>1. /\ now' = now /\ row' = row /\ renewals' = renewals /\ chain' = chain
        /\ sweep'[k].row.exp = 0 /\ renew'[k] = NoRow
    BY <1>3 DEF Crash, dbVars, NoRow
  <2>2. QED
    BY <1>1, <2>1 DEF Paid
<1>4. CASE Tick
  <2>1. /\ now' = now + 1 /\ row' = row /\ renewals' = renewals /\ chain' = chain
        /\ sweep' = sweep /\ renew' = renew
    BY <1>4 DEF Tick, dbVars, removeVars, renewVars
  <2>2. QED
    BY <1>1, <2>1 DEF Paid
<1>5. CASE UNCHANGED vars \/ \E w \in Wallets : NamespaceIdle(w) \/ DeleteNameSpace(w)
  <2>1. /\ now' = now /\ row' = row /\ renewals' = renewals /\ chain' = chain
        /\ sweep' = sweep /\ renew' = renew
    BY <1>5 DEF NamespaceIdle, DeleteNameSpace, vars, dbVars, removeVars, renewVars
  <2>2. QED
    BY <1>1, <2>1 DEF Paid
<1>6. QED
  BY <1>2, <1>3, <1>4, <1>5 DEF Next

\* The time a customer paid for is cut in four ways only, whatever the order in which the
\* goroutines, ReNewJob and the expiry cron read and write the row.
THEOREM PaidTimeStays == Spec => PaidTimeKept
<1> DEFINE Cut(j) == \/ sweep[j].at # "off" /\ row'[j].exp \in {sweep[j].row.exp, chain[j].exp}
                     \/ renew[j] # NoRow /\ row'[j].exp \in
                           {renew[j].exp + Duration, chain[j].exp, 0}
                     \/ /\ row'[j].exp = now + Duration
                        /\ renewals[j] > 0 \/ chain[j].st # "absent"
           Kept == \A j \in Jobs : Live(j) /\ row'[j].exp < row[j].exp => Cut(j)
<1>1. TypeOK /\ Unseen /\ PaidInv /\ [Next]_vars => [Kept]_vars
  <2> SUFFICES ASSUME TypeOK, Unseen, PaidInv, Next, NEW k \in Jobs,
                      Live(k), row'[k].exp < row[k].exp
               PROVE  Cut(k)
    OBVIOUS
  <2>1. row[k].exp \in Nat /\ now + Duration \in Nat /\ renewals[k] \in Nat
    BY SpaceJobAssumption DEF TypeOK, Rows
  <2>2. row'[k].exp # row[k].exp
    BY <2>1
  <2>3. PICK j \in Jobs : JobStep(j)
    BY <2>2, WorldKeepsRows DEF Next
  <2>4. ExpiryStep(j, k)
    BY <2>3, ExpirySteps
  <2>5. ~(k = j /\ ReceiveSave(j))
    BY DEF ReceiveSave, Unseen, Live, NoRow
  <2>6. CASE row'[k].exp = now + Duration
    <3>1. ~(renewals[k] = 0 /\ chain[k].st = "absent")
      BY <2>1, <2>6 DEF PaidInv, Paid
    <3>2. renewals[k] > 0 \/ chain[k].st # "absent"
      BY <2>1, <3>1
    <3>3. QED
      BY <2>6, <3>2
  <2>7. CASE k = j /\ SweepFound(j) /\ row'[k].exp = sweep[k].row.exp
    BY <2>7 DEF SweepFound
  <2>8. CASE k = j /\ SweepChain(j) /\ row'[k].exp = chain[k].exp
    BY <2>8 DEF SweepChain
  <2>9. CASE k = j /\ RenewSave(j) /\ row'[k].exp \in {renew[k].exp + Duration, chain[k].exp, 0}
    BY <2>9 DEF RenewSave
  <2>10. QED
    BY <2>2, <2>4, <2>5, <2>6, <2>7, <2>8, <2>9 DEF ExpiryStep
<1>2. Spec => []PaidInv
  BY PaidStarts, PaidStep, TypeCorrect, PTL DEF Spec
<1>3. QED
  BY <1>1, <1>2, TypeCorrect, UnseenInvariant, PTL DEF Spec, PaidTimeKept


=============================================================================
