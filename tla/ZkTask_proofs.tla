---------------------------- MODULE ZkTask_proofs ----------------------------
(***************************************************************************)
(* Proofs about ZkTask, for any number of requests, proofs and sends, any  *)
(* providers and any faults.                                               *)
(***************************************************************************)
EXTENDS ZkTask, FiniteSetTheorems, TLAPS

Causes == {"no", "crash", "db", "unseen", "stale", "resent"}

Workers == [at : {"none", "starting", "waiting", "following", "leaving", "saving", "gone"},
            row : Rows]

Submits == [at : {"none", "looking", "sending", "second", "deploying", "saving", "over"},
            row : Rows, sends : 0 .. MaxSends,
            out : {"none", "late", "unpaid", "timeout", "setup", "delivered"}]

\* A goroutine that may send has a send left, and one that has not begun has made
\* none.
SendsLeft ==
    \A p \in Proofs : /\ submit[p].at \in {"none", "looking"} => submit[p].sends = 0
                      /\ submit[p].at = "sending" => submit[p].sends < MaxSends

TypeInv == TypeOK /\ SendsLeft

-----------------------------------------------------------------------------
LEMMA RowTypes ==
    /\ NoRow \in Rows
    /\ \A r \in Requests : Fresh(r) \in Rows
    /\ \A w \in Rows, s \in Statuses : [w EXCEPT !.status = s] \in Rows
    /\ NoWorker \in Workers
    /\ NoSubmit \in Submits
BY ZkTaskAssumption
   DEF NoRow, Fresh, Rows, Statuses, Pending, Requests, NoWorker, Workers, NoSubmit, Submits

LEMMA SaveType ==
    ASSUME TypeOK, NEW entity \in Rows, NEW why \in Causes, SaveTaskEntity(entity, why)
    PROVE  row' \in Rows /\ lost' \in Causes
BY DEF TypeOK, SaveTaskEntity, Lose, Causes

LEMMA FaultType ==
    ASSUME TypeOK, NEW f, Fault(f)
    PROVE  faults' \in [FaultKinds -> Nat] /\ f \in FaultKinds
BY ZkTaskAssumption DEF TypeOK, Fault

LEMMA ZkInitType == Init => TypeInv
<1> SUFFICES ASSUME Init PROVE TypeInv
  OBVIOUS
<1>1. /\ row \in Rows
      /\ worker \in [Requests -> Workers]
      /\ submit \in [Proofs -> Submits]
      /\ SendsLeft
  BY RowTypes, ZkTaskAssumption DEF Init, SendsLeft, NoSubmit
<1>2. cron \in [at : {"off", "read", "dead"}, row : Rows] /\ sync \in [at : {"off", "read"}, row : Rows]
  BY RowTypes DEF Init, CronOff
<1>3. QED
  BY <1>1, <1>2 DEF Init, TypeInv, TypeOK, Workers, Submits, FaultKinds

\* The handler of a request.
LEMMA HandlerTypes ==
    ASSUME TypeInv, NEW r \in Requests, Handler(r)
    PROVE  TypeInv'
<1> USE DEF TypeInv, TypeOK, SendsLeft
<1>1. CASE Receive(r)
  <2>1. row' \in Rows /\ lost' \in Causes
    BY <1>1, RowTypes, SaveType DEF Receive, Causes
  <2>2. QED
    BY <1>1, <2>1 DEF Receive, Causes
<1>2. CASE Leave(r)
  BY <1>2 DEF Leave
<1>3. CASE Refuse(r)
  <2>1. row' \in Rows /\ lost' \in Causes
    BY <1>3, RowTypes, SaveType DEF Refuse, Causes, Statuses
  <2>2. QED
    BY <1>3, <2>1 DEF Refuse, Causes
<1>4. CASE Accept(r)
  BY <1>4 DEF Accept
<1>5. QED
  BY <1>1, <1>2, <1>3, <1>4 DEF Handler

\* The goroutine that runs the prover.
LEMMA WorkerTypes ==
    ASSUME TypeInv, NEW r \in Requests, Worker(r)
    PROVE  TypeInv'
<1> USE DEF TypeInv, TypeOK, SendsLeft
<1>0. worker \in [Requests -> Workers]
  BY DEF Workers
<1>1. ASSUME NEW from, NEW to \in {"waiting", "following", "leaving", "gone"}, Work(r, from, to)
      PROVE  worker' \in [Requests -> Workers]
  BY <1>0, <1>1 DEF Work, Workers
<1>2. Done \in {"leaving", "gone"}
  BY DEF Done
<1>3. CASE StartProver(r)
  BY <1>1, <1>3 DEF StartProver, Workers
<1>4. CASE StartFails(r) \/ LosesSight(r)
  BY <1>1, <1>2, <1>4 DEF StartFails, LosesSight, Workers
<1>5. CASE StartRefused(r)
  <2>1. row' \in Rows /\ lost' \in Causes
    BY <1>5, RowTypes, SaveType DEF StartRefused, Causes, Statuses
  <2>2. QED
    BY <1>1, <1>5, <2>1 DEF StartRefused, Causes, Workers
<1>6. CASE SeenRunning(r)
  <2>1. row' \in Rows
    BY <1>6, RowTypes DEF SeenRunning, UpdateTaskStatusById, Statuses, Pending
  <2>2. QED
    BY <1>1, <1>6, <2>1 DEF SeenRunning, Workers
<1>7. CASE Reread(r)
  <2>1. [row EXCEPT !.status = IF HasReceipt(row) THEN "submitted" ELSE "failed"] \in Rows
    BY RowTypes DEF Statuses
  <2>2. worker' \in [Requests -> Workers]
    BY <1>0, <1>7, <2>1 DEF Reread, Workers
  <2>3. prover' \in [Requests -> {"none", "up", "ended"}]
    BY <1>7 DEF Reread
  <2>4. QED
    BY <1>7, <2>2, <2>3 DEF Reread, Workers
<1>8. CASE RereadFails(r)
  BY <1>1, <1>8, FaultType DEF RereadFails, Workers
<1>9. CASE WorkerSaves(r)
  <2>1. row' \in Rows /\ lost' \in Causes
    BY <1>9, SaveType DEF WorkerSaves, Causes
  <2>2. worker' \in [Requests -> Workers]
    BY <1>0, <1>9, RowTypes DEF WorkerSaves, Workers
  <2>3. QED
    BY <1>9, <2>1, <2>2 DEF WorkerSaves, Causes, Workers
<1>10. CASE ProverEnds(r)
  BY <1>10 DEF ProverEnds
<1>11. QED
  BY <1>3, <1>4, <1>5, <1>6, <1>7, <1>8, <1>9, <1>10 DEF Worker

\* One goroutine of a proof moves on; every other one stays where it is.
LEMMA SubmitMoves ==
    ASSUME TypeInv, NEW p \in Proofs, NEW s \in Submits,
           submit' = [submit EXCEPT ![p] = s],
           s.at \in {"none", "looking"} => s.sends = 0,
           s.at = "sending" => s.sends < MaxSends
    PROVE  submit' \in [Proofs -> Submits] /\ SendsLeft'
BY DEF TypeInv, TypeOK, SendsLeft, Submits

\* What Fails and its kind write.
LEMMA SubmitTypes ==
    ASSUME TypeInv, NEW p \in Proofs
    PROVE  /\ submit[p] \in Submits
           /\ [submit[p] EXCEPT !.row.status = "failed"] \in Submits
           /\ [NoSubmit EXCEPT !.at = "over"] \in Submits
<1>1. submit[p] \in Submits /\ submit[p].row \in Rows
  BY DEF TypeInv, TypeOK, Submits
<1>2. [submit[p].row EXCEPT !.status = "failed"] \in Rows
  BY <1>1, RowTypes DEF Statuses
<1>3. QED
  BY <1>1, <1>2, RowTypes DEF Submits

LEMMA FailsType ==
    ASSUME TypeInv, NEW p \in Proofs,
           NEW out \in {"late", "unpaid", "timeout", "setup"}, Fails(p, out)
    PROVE  submit' \in [Proofs -> Submits] /\ SendsLeft'
<1> DEFINE s == [submit[p] EXCEPT !.at = "saving", !.out = out, !.row.status = "failed"]
<1>1. [submit[p].row EXCEPT !.status = "failed"] \in Rows
  BY RowTypes DEF TypeInv, TypeOK, Statuses
<1>2. s \in Submits /\ s.at = "saving"
  BY <1>1, SubmitTypes DEF Submits
<1>3. submit' = [submit EXCEPT ![p] = s]
  BY DEF Fails
<1>4. QED
  BY <1>2, <1>3, SubmitMoves

\* The proof takes another way, or is delivered.
LEMMA GoesType ==
    ASSUME TypeInv, NEW p \in Proofs,
           NEW at \in {"sending", "second", "deploying"}, submit' = [submit EXCEPT ![p].at = at],
           at = "sending" => submit[p].at \in {"looking", "sending"}
    PROVE  submit' \in [Proofs -> Submits] /\ SendsLeft'
<1> DEFINE s == [submit[p] EXCEPT !.at = at]
<1>1. s \in Submits /\ s.at = at /\ s.sends = submit[p].sends
  BY SubmitTypes DEF Submits
<1>2. submit' = [submit EXCEPT ![p] = s]
  BY DEF TypeInv, TypeOK
<1>3. at = "sending" => submit[p].sends < MaxSends
  BY ZkTaskAssumption DEF TypeInv, SendsLeft
<1>4. QED
  BY <1>1, <1>2, <1>3, SubmitMoves

LEMMA SentType ==
    ASSUME TypeInv, NEW p \in Proofs, submit[p].at = "sending"
    PROVE  Sent(p) \in Submits /\ Sent(p).at = "sending" /\ Sent(p).row = submit[p].row
<1>1. submit[p] \in Submits /\ submit[p].sends < MaxSends
  BY SubmitTypes DEF TypeInv, SendsLeft
<1>2. submit[p].sends + 1 \in 0 .. MaxSends
  BY <1>1, ZkTaskAssumption DEF Submits
<1>3. QED
  BY <1>1, <1>2 DEF Sent, Submits

\* The goroutine that hands a proof in.
LEMMA SubmitterTypes ==
    ASSUME TypeInv, NEW p \in Proofs, Submitter(p)
    PROVE  TypeInv'
<1>1. CASE /\ submit' \in [Proofs -> Submits] /\ SendsLeft'
           /\ contracts' \in Nat /\ accepted' \in Nat
           /\ faults' \in [FaultKinds -> Nat]
           /\ row' \in Rows /\ lost' \in Causes
           /\ UNCHANGED <<provider, old, expired, request, worker, prover, verdict, cron, sync>>
  BY <1>1 DEF TypeInv, TypeOK, Submits, Causes
<1>2. /\ contracts \in Nat /\ accepted \in Nat /\ faults \in [FaultKinds -> Nat]
      /\ row \in Rows /\ lost \in Causes
      /\ contracts + 1 \in Nat /\ accepted + 1 \in Nat
  BY DEF TypeInv, TypeOK, Causes
<1>3. CASE \/ Drop(p) \/ SubmitSaves(p) \/ SubmitSaveFails(p)
  <2>1. submit' = [submit EXCEPT ![p] = [NoSubmit EXCEPT !.at = "over"]]
    BY <1>3 DEF Drop, SubmitSaves, SubmitSaveFails, SubmitEnds
  <2>2. submit' \in [Proofs -> Submits] /\ SendsLeft'
    <3>1. [NoSubmit EXCEPT !.at = "over"].at = "over"
      BY DEF NoSubmit
    <3>2. QED
      BY <2>1, <3>1, SubmitTypes, SubmitMoves
  <2>3. CASE Drop(p)
    BY <1>1, <1>2, <2>2, <2>3 DEF Drop, SubmitOnly
  <2>4. CASE SubmitSaves(p)
    <3>1. submit[p].row \in Rows
      BY SubmitTypes DEF Submits
    <3>2. row' \in Rows /\ lost' \in Causes
      BY <2>4, <3>1, SaveType DEF SubmitSaves, Causes, TypeInv
    <3>3. QED
      BY <1>1, <1>2, <2>2, <2>4, <3>2 DEF SubmitSaves
  <2>5. CASE SubmitSaveFails(p)
    BY <1>1, <1>2, <2>2, <2>5, FaultType DEF SubmitSaveFails, SubmitOnly, Lose, Causes, TypeInv
  <2>6. QED
    BY <1>3, <2>3, <2>4, <2>5
<1>4. CASE \/ TooLate(p) \/ SendTimeout(p) \/ SetupFails(p) \/ DeployTimeout(p)
  <2>1. submit' \in [Proofs -> Submits] /\ SendsLeft'
    BY <1>4, FailsType DEF TooLate, SendTimeout, SetupFails, DeployTimeout
  <2>2. faults' \in [FaultKinds -> Nat]
    BY <1>2, <1>4, FaultType DEF TooLate, SendTimeout, SetupFails, DeployTimeout, TypeInv
  <2>3. UNCHANGED <<contracts, accepted, lost>> /\ SubmitOnly
    BY <1>4 DEF TooLate, SendTimeout, SetupFails, DeployTimeout
  <2>4. QED
    BY <1>1, <1>2, <2>1, <2>2, <2>3 DEF SubmitOnly
<1>5. CASE Choose(p) \/ SecondChoice(p)
  <2>1. \/ Fails(p, "unpaid") \/ Fails(p, "timeout")
        \/ submit' = [submit EXCEPT ![p].at = "deploying"]
        \/ submit[p].at = "looking" /\ submit' = [submit EXCEPT ![p].at = "sending"]
    BY <1>5 DEF Choose, SecondChoice
  <2>2. submit' \in [Proofs -> Submits] /\ SendsLeft'
    BY <2>1, FailsType, GoesType
  <2>3. QED
    BY <1>1, <1>2, <1>5, <2>2 DEF Choose, SecondChoice, SubmitOnly
<1>6. CASE TrySequencer(p)
  <2> DEFINE s == [Sent(p) EXCEPT !.at = "saving", !.out = "delivered",
                       !.row.block = TRUE, !.row.sequencer = TRUE, !.row.status = "submitted"]
  <2>1. Sent(p) \in Submits
    BY <1>6, SentType DEF TrySequencer, MaySend
  <2>2. [Sent(p).row EXCEPT !.block = TRUE, !.sequencer = TRUE, !.status = "submitted"] \in Rows
    BY <2>1 DEF Submits, Rows, Statuses
  <2>3. s \in Submits /\ s.at = "saving"
    BY <2>1, <2>2 DEF Submits
  <2>4. submit' = [submit EXCEPT ![p] = s]
    BY <1>6 DEF TrySequencer
  <2>5. submit' \in [Proofs -> Submits] /\ SendsLeft'
    BY <2>3, <2>4, SubmitMoves
  <2>6. QED
    BY <1>1, <1>2, <1>6, <2>5 DEF TrySequencer, SubmitOnly
<1>7. CASE SendFails(p)
  <2> DEFINE s == IF Sent(p).sends = MaxSends THEN [Sent(p) EXCEPT !.at = "second"] ELSE Sent(p)
  <2>1. Sent(p) \in Submits /\ Sent(p).at = "sending"
    BY <1>7, SentType DEF SendFails, MaySend
  <2>2. s \in Submits /\ s.at \in {"second", "sending"} /\ (s.at = "sending" => s.sends < MaxSends)
    BY <2>1, ZkTaskAssumption DEF Submits
  <2>3. submit' = [submit EXCEPT ![p] = s]
    BY <1>7 DEF SendFails
  <2>4. submit' \in [Proofs -> Submits] /\ SendsLeft'
    BY <2>2, <2>3, SubmitMoves
  <2>5. /\ contracts' = contracts /\ accepted' \in {accepted, accepted + 1}
        /\ faults' \in [FaultKinds -> Nat] /\ lost' \in Causes
    BY <1>2, <1>7, FaultType DEF SendFails, Lose, Causes, TypeInv
  <2>6. QED
    BY <1>1, <1>2, <1>7, <2>4, <2>5 DEF SendFails, SubmitOnly
<1>8. CASE CreateTaskContract(p)
  <2> DEFINE s == [submit[p] EXCEPT !.at = "saving", !.out = "delivered",
                       !.row.contract = TRUE, !.row.sequencer = FALSE, !.row.status = "submitted"]
  <2>1. submit[p] \in Submits
    BY SubmitTypes
  <2>2. [submit[p].row EXCEPT !.contract = TRUE, !.sequencer = FALSE, !.status = "submitted"] \in Rows
    BY <2>1 DEF Submits, Rows, Statuses
  <2>3. s \in Submits /\ s.at = "saving"
    BY <2>1, <2>2 DEF Submits
  <2>4. submit' = [submit EXCEPT ![p] = s]
    BY <1>8 DEF CreateTaskContract, TypeInv, TypeOK
  <2>5. submit' \in [Proofs -> Submits] /\ SendsLeft'
    BY <2>3, <2>4, SubmitMoves
  <2>6. QED
    BY <1>1, <1>2, <1>8, <2>5 DEF CreateTaskContract, SubmitOnly
<1>9. CASE DeployedUnseen(p)
  <2>1. /\ submit' = submit /\ accepted' = accepted /\ contracts' = contracts + 1
        /\ faults' \in [FaultKinds -> Nat] /\ lost' \in Causes
    BY <1>2, <1>9, FaultType DEF DeployedUnseen, Lose, Causes, TypeInv
  <2>2. submit' \in [Proofs -> Submits] /\ SendsLeft'
    BY <2>1 DEF TypeInv, TypeOK, SendsLeft, Submits
  <2>3. QED
    BY <1>1, <1>2, <1>9, <2>1, <2>2 DEF DeployedUnseen, SubmitOnly
<1>10. QED
  BY <1>3, <1>4, <1>5, <1>6, <1>7, <1>8, <1>9 DEF Submitter

LEMMA ReceiveUbiProofTypes ==
    ASSUME TypeInv, NEW r \in Requests, NEW p \in Proofs, ReceiveUbiProof(r, p)
    PROVE  TypeInv'
<1> DEFINE s == [submit[p] EXCEPT !.at = "looking", !.row = row]
<1>1. s \in Submits /\ s.at = "looking" /\ s.sends = 0
  BY SubmitTypes DEF ReceiveUbiProof, TypeInv, TypeOK, SendsLeft, Submits
<1>2. submit' = [submit EXCEPT ![p] = s]
  BY DEF ReceiveUbiProof
<1>3. submit' \in [Proofs -> Submits] /\ SendsLeft'
  BY <1>1, <1>2, SubmitMoves
<1>4. QED
  BY <1>3 DEF ReceiveUbiProof, TypeInv, TypeOK, Submits

\* What UpdateTaskEntityByTaskId writes, column by column.
LEMMA UpdatedColumns ==
    ASSUME NEW w \in Rows, NEW c \in BOOLEAN, NEW b \in BOOLEAN, NEW a \in BOOLEAN,
           NEW s \in BOOLEAN
    PROVE  [w EXCEPT !.contract = c, !.block = b, !.addr = a, !.sequencer = s] \in Rows
BY DEF Rows

LEMMA UpdateType ==
    ASSUME NEW item \in Rows, UpdateTaskEntityByTaskId(item)
    PROVE  row' \in Rows
<1>1. /\ (item.contract \/ row.contract) \in BOOLEAN /\ (item.block \/ row.block) \in BOOLEAN
      /\ (item.addr \/ row.addr) \in BOOLEAN /\ (item.sequencer \/ row.sequencer) \in BOOLEAN
  OBVIOUS
<1>2. row' = [item EXCEPT !.contract = item.contract \/ row.contract,
                          !.block = item.block \/ row.block,
                          !.addr = item.addr \/ row.addr,
                          !.sequencer = item.sequencer \/ row.sequencer]
  BY DEF UpdateTaskEntityByTaskId
<1>3. QED
  <2>1. PICK c \in BOOLEAN, b \in BOOLEAN, a \in BOOLEAN, s \in BOOLEAN :
            row' = [item EXCEPT !.contract = c, !.block = b, !.addr = a, !.sequencer = s]
    BY <1>1, <1>2, Zenon
  <2>2. QED
    BY <2>1, UpdatedColumns, Zenon

LEMMA CronTypes == ASSUME TypeInv, Crons PROVE TypeInv'
<1> USE DEF TypeInv, TypeOK, SendsLeft
<1>0. CronOff.at = "off" /\ CronOff.row \in Rows
  BY RowTypes DEF CronOff
<1>1. CASE CronReads \/ SyncReads
  BY <1>1 DEF CronReads, SyncReads
<1>2. CASE CronSaves
  <2>1. [cron.row EXCEPT !.status =
            IF HasReceipt(cron.row) THEN "submitted" ELSE "failed"] \in Rows
    BY RowTypes DEF Statuses
  <2>2. row' \in Rows /\ lost' \in Causes
    BY <1>2, <2>1, SaveType DEF CronSaves, Causes
  <2>3. prover' \in [Requests -> {"none", "up", "ended"}]
    BY <1>2 DEF CronSaves
  <2>4. cron' \in [at : {"off", "read", "dead"}, row : Rows]
    BY <1>2, RowTypes DEF CronSaves, CronOff
  <2>5. QED
    BY <1>2, <2>2, <2>3, <2>4 DEF CronSaves, Causes
<1>3. CASE CronQueryFails
  <2>1. cron' \in [at : {"off", "read", "dead"}, row : Rows]
    BY <1>3, RowTypes DEF CronQueryFails, CronOff
  <2>2. QED
    BY <1>3, <2>1, FaultType DEF CronQueryFails
<1>4. CASE SyncWrites
  <2> DEFINE item == [sync.row EXCEPT !.status = verdict.status, !.addr = verdict.addr]
  <2>1. item \in Rows
    BY DEF Rows, Statuses, Pending
  <2>2. row' \in Rows
    BY <1>4, <2>1, UpdateType DEF SyncWrites
  <2>3. sync' \in [at : {"off", "read"}, row : Rows]
    BY <1>4, RowTypes DEF SyncWrites, CronOff
  <2>4. QED
    BY <1>4, <2>2, <2>3 DEF SyncWrites
<1>5. CASE SyncSkips
  <2>1. sync' \in [at : {"off", "read"}, row : Rows]
    BY <1>5, RowTypes DEF SyncSkips, CronOff
  <2>2. QED
    BY <1>5, <2>1 DEF SyncSkips
<1>6. QED
  BY <1>1, <1>2, <1>3, <1>4, <1>5 DEF Crons

LEMMA WorldTypes == ASSUME TypeInv, World PROVE TypeInv'
<1>1. CASE Verify
  <2>1. verdict' \in [status : {"received", "verified", "invalid", "rewarded"}, addr : BOOLEAN]
    BY <1>1 DEF Verify, TypeInv, TypeOK
  <2>2. QED
    BY <1>1, <2>1 DEF Verify, TypeInv, TypeOK, SendsLeft
<1>2. CASE (\E r \in Requests : HourPasses(r)) \/ DeadlinePasses
  BY <1>2 DEF HourPasses, DeadlinePasses, TypeInv, TypeOK, SendsLeft
<1>3. CASE Crash
  <2>1. request' \in [Requests -> {"none", "checking", "over"}]
    BY <1>3 DEF Crash, TypeInv, TypeOK
  <2>2. worker' \in [Requests -> Workers]
    BY <1>3, RowTypes DEF Crash, TypeInv, TypeOK, Workers
  <2>3. submit' \in [Proofs -> Submits] /\ SendsLeft'
    <3>1. [NoSubmit EXCEPT !.at = "over"].at = "over" /\ [NoSubmit EXCEPT !.at = "over"].sends = 0
      BY DEF NoSubmit
    <3>2. \A p \in Proofs :
              /\ submit'[p] = submit[p] \/ submit'[p] = [NoSubmit EXCEPT !.at = "over"]
              /\ submit[p] \in Submits /\ [NoSubmit EXCEPT !.at = "over"] \in Submits
      BY <1>3, SubmitTypes DEF Crash
    <3>3. submit' \in [Proofs -> Submits]
      BY <1>3, <3>2 DEF Crash
    <3>4. QED
      BY <3>1, <3>2, <3>3 DEF TypeInv, SendsLeft
  <2>4. cron' \in [at : {"off", "read", "dead"}, row : Rows] /\ sync' \in [at : {"off", "read"}, row : Rows]
    BY <1>3, RowTypes DEF Crash, CronOff
  <2>5. faults' \in [FaultKinds -> Nat] /\ lost' \in Causes
    BY <1>3, FaultType DEF Crash, Lose, TypeInv, TypeOK, Causes
  <2>6. QED
    BY <1>3, <2>1, <2>2, <2>3, <2>4, <2>5 DEF Crash, TypeInv, TypeOK, Workers, Submits, Causes
<1>4. QED
  BY <1>1, <1>2, <1>3 DEF World

LEMMA ZkStepType == TypeInv /\ [Next]_vars => TypeInv'
<1> SUFFICES ASSUME TypeInv, [Next]_vars PROVE TypeInv'
  OBVIOUS
<1>1. CASE UNCHANGED vars
  BY <1>1 DEF vars, TypeInv, TypeOK, SendsLeft
<1>2. QED
  BY <1>1, HandlerTypes, WorkerTypes, SubmitterTypes, ReceiveUbiProofTypes, CronTypes,
     WorldTypes DEF Next

\* Every state of a task, for any requests, proofs, sends, providers and faults, is
\* well formed; the sends to the sequencer never exceed their number.
THEOREM ZkTypeCorrect == Spec => []TypeOK
<1>1. Spec => []TypeInv
  BY ZkInitType, ZkStepType, PTL DEF Spec
<1>2. TypeInv => TypeOK
  BY DEF TypeInv
<1>3. QED
  BY <1>1, <1>2, PTL

-----------------------------------------------------------------------------
(* What a step leaves alone, and what only grows. *)

\* The goroutines of proofs that are done with handing theirs in.
Settled == {p \in Proofs : submit[p].at \in {"saving", "over"}}

Unseen == faults["unseen"]

LEMMA FaultCounts ==
    ASSUME TypeInv, NEW f, Fault(f)
    PROVE  /\ Unseen \in Nat /\ Unseen' \in Nat
           /\ f = "unseen" => Unseen' = Unseen + 1
           /\ f # "unseen" => Unseen' = Unseen
BY DEF TypeInv, TypeOK, Fault, FaultKinds, Unseen

\* No one but the goroutines of the proofs touches them or delivers.
LEMMA Elsewhere ==
    ASSUME TypeInv,
           \/ \E r \in Requests : Handler(r) \/ Worker(r)
           \/ Crons
           \/ Verify \/ (\E r \in Requests : HourPasses(r)) \/ DeadlinePasses
    PROVE  /\ UNCHANGED <<provider, submit, contracts, accepted>>
           /\ Unseen' = Unseen
           /\ expired => expired'
<1>1. ASSUME NEW r \in Requests, Handler(r)
      PROVE  UNCHANGED <<provider, submit, contracts, accepted, faults, expired>>
  <2>1. CASE Receive(r) \/ Leave(r)
    BY <2>1 DEF Receive, Leave
  <2>2. CASE Refuse(r) \/ Accept(r)
    BY <2>2 DEF Refuse, Accept
  <2>3. QED
    BY <1>1, <2>1, <2>2 DEF Handler
<1>2. ASSUME NEW r \in Requests, Worker(r)
      PROVE  UNCHANGED <<provider, submit, contracts, accepted, expired>> /\ Unseen' = Unseen
  <2>1. CASE StartProver(r) \/ StartFails(r) \/ StartRefused(r)
    BY <2>1 DEF StartProver, StartFails, StartRefused, Unseen
  <2>2. CASE SeenRunning(r) \/ LosesSight(r) \/ Reread(r)
    BY <2>2 DEF SeenRunning, LosesSight, Reread, Unseen
  <2>3. CASE WorkerSaves(r) \/ ProverEnds(r)
    BY <2>3 DEF WorkerSaves, ProverEnds, Unseen
  <2>4. CASE RereadFails(r)
    BY <2>4, FaultCounts DEF RereadFails
  <2>5. QED
    BY <1>2, <2>1, <2>2, <2>3, <2>4 DEF Worker
<1>3. ASSUME Crons
      PROVE  UNCHANGED <<provider, submit, contracts, accepted, expired>> /\ Unseen' = Unseen
  <2>1. CASE CronReads \/ CronSaves
    BY <2>1 DEF CronReads, CronSaves, Unseen
  <2>2. CASE SyncReads \/ SyncWrites \/ SyncSkips
    BY <2>2 DEF SyncReads, SyncWrites, SyncSkips, Unseen
  <2>3. CASE CronQueryFails
    BY <2>3, FaultCounts DEF CronQueryFails
  <2>4. QED
    BY <1>3, <2>1, <2>2, <2>3 DEF Crons
<1>4. CASE Verify \/ (\E r \in Requests : HourPasses(r)) \/ DeadlinePasses
  BY <1>4 DEF Verify, HourPasses, DeadlinePasses, Unseen
<1>5. QED
  BY <1>1, <1>2, <1>3, <1>4 DEF Unseen

\* The goroutine of one proof touches no other's, is done for good once it is, and
\* delivers at most once, when it is done; more often only unseen.
LEMMA SubmitterDelivers ==
    ASSUME TypeInv, NEW p \in Proofs, Submitter(p)
    PROVE  /\ submit[p].at # "none" /\ submit'[p].at # "none"
           /\ \A q \in Proofs \ {p} : submit'[q] = submit[q]
           /\ submit[p].at \in {"saving", "over"} => submit'[p].at \in {"saving", "over"}
           /\ contracts' \in {contracts, contracts + 1}
           /\ accepted' \in {accepted, accepted + 1}
           /\ \/ UNCHANGED <<contracts, accepted>> /\ Unseen' \in {Unseen, Unseen + 1}
              \/ Deliveries' = Deliveries + 1 /\ Unseen' = Unseen + 1
              \/ /\ Deliveries' = Deliveries + 1 /\ Unseen' = Unseen
                 /\ submit[p].at \notin {"saving", "over"}
                 /\ submit'[p].at \in {"saving", "over"}
<1>1. /\ contracts \in Nat /\ accepted \in Nat /\ Unseen \in Nat
      /\ submit \in [Proofs -> Submits]
  BY DEF TypeInv, TypeOK, Submits, Unseen, FaultKinds
<1>2. CASE Drop(p) \/ SubmitSaves(p)
  BY <1>1, <1>2 DEF Drop, SubmitSaves, SubmitEnds, NoSubmit, Unseen
<1>3. CASE SubmitSaveFails(p)
  <2>1. Unseen' = Unseen
    BY <1>3, FaultCounts DEF SubmitSaveFails
  <2>2. QED
    BY <1>1, <1>3, <2>1 DEF SubmitSaveFails, SubmitEnds, NoSubmit
<1>4. ASSUME NEW out, Fails(p, out), submit[p].at # "none"
      PROVE  /\ submit[p].at # "none" /\ submit'[p].at # "none"
             /\ \A q \in Proofs \ {p} : submit'[q] = submit[q]
             /\ submit'[p].at \in {"saving", "over"}
  BY <1>1, <1>4 DEF Fails, Submits
<1>5. CASE TooLate(p) \/ SendTimeout(p) \/ DeployTimeout(p)
  <2>1. UNCHANGED <<contracts, accepted, faults>> /\ submit[p].at # "none"
    BY <1>5 DEF TooLate, SendTimeout, DeployTimeout
  <2>2. Fails(p, "late") \/ Fails(p, "timeout")
    BY <1>5 DEF TooLate, SendTimeout, DeployTimeout
  <2>3. QED
    BY <1>1, <1>4, <2>1, <2>2 DEF Unseen
<1>6. CASE SetupFails(p)
  <2>1. Unseen' = Unseen
    BY <1>6, FaultCounts DEF SetupFails
  <2>2. UNCHANGED <<contracts, accepted>> /\ submit[p].at # "none" /\ Fails(p, "setup")
    BY <1>6 DEF SetupFails
  <2>3. QED
    BY <1>1, <1>4, <2>1, <2>2
<1>7. CASE Choose(p) \/ SecondChoice(p)
  <2>1. /\ UNCHANGED <<contracts, accepted, faults>>
        /\ submit[p].at \in {"looking", "second"}
    BY <1>7 DEF Choose, SecondChoice
  <2>2. \/ Fails(p, "unpaid") \/ Fails(p, "timeout")
        \/ submit' = [submit EXCEPT ![p].at = "deploying"]
        \/ submit' = [submit EXCEPT ![p].at = "sending"]
    BY <1>7 DEF Choose, SecondChoice
  <2>3. CASE Fails(p, "unpaid") \/ Fails(p, "timeout")
    BY <1>1, <1>4, <2>1, <2>3 DEF Unseen
  <2>4. CASE \/ submit' = [submit EXCEPT ![p].at = "deploying"]
             \/ submit' = [submit EXCEPT ![p].at = "sending"]
    BY <1>1, <2>1, <2>4 DEF Unseen, Submits
  <2>5. QED
    BY <2>2, <2>3, <2>4
<1>8. CASE TrySequencer(p) \/ SendFails(p)
  <2>1. submit[p].at = "sending" /\ Sent(p) \in Submits /\ Sent(p).at = "sending"
    BY <1>8, SentType DEF TrySequencer, SendFails, MaySend
  <2>2. CASE TrySequencer(p)
    BY <1>1, <2>1, <2>2 DEF TrySequencer, SubmitOnly, Deliveries, Unseen, Submits
  <2>3. CASE SendFails(p)
    <3>1. \/ UNCHANGED <<contracts, accepted>> /\ Unseen' = Unseen
          \/ Deliveries' = Deliveries + 1 /\ Unseen' = Unseen + 1
      BY <1>1, <2>3, FaultCounts DEF SendFails, Deliveries, Unseen
    <3>2. contracts' = contracts /\ accepted' \in {accepted, accepted + 1}
      BY <2>3 DEF SendFails
    <3>3. /\ submit'[p].at # "none"
          /\ \A q \in Proofs \ {p} : submit'[q] = submit[q]
      BY <1>1, <2>1, <2>3 DEF SendFails, Submits
    <3>4. QED
      BY <1>1, <2>1, <3>1, <3>2, <3>3
  <2>4. QED
    BY <1>8, <2>2, <2>3
<1>9. CASE CreateTaskContract(p)
  BY <1>1, <1>9 DEF CreateTaskContract, SubmitOnly, Deliveries, Unseen, Submits
<1>10. CASE DeployedUnseen(p)
  BY <1>1, <1>10, FaultCounts DEF DeployedUnseen, Deliveries
<1>11. QED
  BY <1>2, <1>3, <1>5, <1>6, <1>7, <1>8, <1>9, <1>10 DEF Submitter

LEMMA ReceivePosts ==
    ASSUME TypeInv, NEW r \in Requests, NEW p \in Proofs, ReceiveUbiProof(r, p)
    PROVE  /\ submit[p].at = "none" /\ submit'[p].at = "looking" /\ submit'[p].row = row
           /\ submit'[p].out = submit[p].out
           /\ \A q \in Proofs \ {p} : submit'[q] = submit[q]
           /\ UNCHANGED <<provider, contracts, accepted, faults, expired>>
BY DEF ReceiveUbiProof, TypeInv, TypeOK

LEMMA CrashEnds ==
    ASSUME TypeInv, Crash
    PROVE  /\ \A p \in Proofs :
                \/ submit[p].at \in {"none", "over"} /\ submit'[p] = submit[p]
                \/ /\ submit[p].at \notin {"none", "over"}
                   /\ submit'[p] = [NoSubmit EXCEPT !.at = "over"]
           /\ UNCHANGED <<provider, contracts, accepted, expired>>
           /\ Unseen' = Unseen
BY FaultCounts DEF Crash

-----------------------------------------------------------------------------
(* A proof is delivered once. *)

\* Inductive: each delivery that was seen to succeed ends the sending of its proof,
\* and no goroutine that is done starts again.
DeliveredInv == Deliveries <= Cardinality(Settled) + Unseen

LEMMA SettledCount ==
    /\ IsFiniteSet(Settled) /\ Cardinality(Settled) \in Nat
    /\ IsFiniteSet(Posted) /\ Cardinality(Posted) \in Nat
    /\ Cardinality(Settled) <= Cardinality(Posted)
<1>1. Settled \in SUBSET Posted /\ Posted \in SUBSET Proofs
  BY DEF Settled, Posted
<1>2. IsFiniteSet(Proofs)
  BY ZkTaskAssumption
<1>3. QED
  BY <1>1, <1>2, FS_Subset, FS_CardinalityType

\* Counting before and after a step.
LEMMA SettledGrows ==
    ASSUME Settled \subseteq Settled'
    PROVE  /\ Cardinality(Settled) <= Cardinality(Settled') /\ Cardinality(Settled') \in Nat
           /\ \A p \in Proofs : p \in Settled' /\ p \notin Settled
                   => Cardinality(Settled) + 1 <= Cardinality(Settled')
<1>1. IsFiniteSet(Settled')
  <2>1. Settled' \in SUBSET Proofs
    BY DEF Settled
  <2>2. QED
    BY <2>1, FS_Subset, ZkTaskAssumption
<1>2. Settled \in SUBSET Settled' /\ Cardinality(Settled) \in Nat
  BY SettledCount
<1>3. Cardinality(Settled) <= Cardinality(Settled') /\ Cardinality(Settled') \in Nat
  BY <1>1, <1>2, FS_Subset, FS_CardinalityType
<1>4. ASSUME NEW p \in Proofs, p \in Settled', p \notin Settled
      PROVE  Cardinality(Settled) + 1 <= Cardinality(Settled')
  <2>1. Cardinality(Settled \cup {p}) = Cardinality(Settled) + 1
    BY <1>4, SettledCount, FS_AddElement
  <2>2. Settled \cup {p} \in SUBSET Settled'
    BY <1>2, <1>4
  <2>3. Cardinality(Settled \cup {p}) <= Cardinality(Settled')
    BY <1>1, <2>2, FS_Subset
  <2>4. QED
    BY <2>1, <2>3
<1>5. QED
  BY <1>3, <1>4

LEMMA DeliveredStep == TypeInv /\ DeliveredInv /\ [Next]_vars => DeliveredInv'
<1> SUFFICES ASSUME TypeInv, DeliveredInv, [Next]_vars PROVE DeliveredInv'
  OBVIOUS
<1>0. /\ Deliveries \in Nat /\ Unseen \in Nat /\ Cardinality(Settled) \in Nat
      /\ Deliveries <= Cardinality(Settled) + Unseen
  BY SettledCount DEF TypeInv, TypeOK, Deliveries, Unseen, FaultKinds, DeliveredInv
<1>1. ASSUME Settled \subseteq Settled', UNCHANGED <<contracts, accepted>>, Unseen' \in {Unseen, Unseen + 1}
      PROVE  DeliveredInv'
  <2>1. Deliveries' = Deliveries
    BY <1>1 DEF Deliveries
  <2>2. Cardinality(Settled) <= Cardinality(Settled') /\ Cardinality(Settled') \in Nat
    BY <1>1, SettledGrows
  <2>3. QED
    BY <1>0, <1>1, <2>1, <2>2 DEF DeliveredInv
<1>2. CASE UNCHANGED vars
  BY <1>1, <1>2 DEF vars, Settled, Unseen
<1>3. CASE \/ \E r \in Requests : Handler(r) \/ Worker(r)
           \/ Crons
           \/ Verify \/ (\E r \in Requests : HourPasses(r)) \/ DeadlinePasses
  BY <1>1, <1>3, Elsewhere DEF Settled
<1>4. ASSUME NEW r \in Requests, NEW p \in Proofs, ReceiveUbiProof(r, p)
      PROVE  DeliveredInv'
  <2>1. Settled \subseteq Settled'
    BY <1>4, ReceivePosts DEF Settled
  <2>2. UNCHANGED <<contracts, accepted>> /\ Unseen' = Unseen
    BY <1>4, ReceivePosts DEF Unseen
  <2>3. QED
    BY <1>1, <2>1, <2>2
<1>5. CASE Crash
  <2>1. Settled \subseteq Settled'
    BY <1>5, CrashEnds DEF Settled, NoSubmit
  <2>2. QED
    BY <1>1, <1>5, <2>1, CrashEnds
<1>6. ASSUME NEW p \in Proofs, Submitter(p)
      PROVE  DeliveredInv'
  <2>1. Settled \subseteq Settled'
    BY <1>6, SubmitterDelivers DEF Settled
  <2>2. CASE UNCHANGED <<contracts, accepted>> /\ Unseen' \in {Unseen, Unseen + 1}
    BY <1>1, <2>1, <2>2
  <2>3. CASE Deliveries' = Deliveries + 1 /\ Unseen' = Unseen + 1
    <3>1. Cardinality(Settled) <= Cardinality(Settled') /\ Cardinality(Settled') \in Nat
      BY <2>1, SettledGrows
    <3>2. QED
      BY <1>0, <2>3, <3>1 DEF DeliveredInv
  <2>4. CASE /\ Deliveries' = Deliveries + 1 /\ Unseen' = Unseen
             /\ submit[p].at \notin {"saving", "over"}
             /\ submit'[p].at \in {"saving", "over"}
    <3>1. p \in Settled' /\ p \notin Settled
      BY <2>4 DEF Settled
    <3>2. Cardinality(Settled) + 1 <= Cardinality(Settled') /\ Cardinality(Settled') \in Nat
      BY <2>1, <3>1, SettledGrows
    <3>3. QED
      BY <1>0, <2>4, <3>2 DEF DeliveredInv
  <2>5. QED
    BY <1>6, <2>2, <2>3, <2>4, SubmitterDelivers
<1>7. QED
  BY <1>2, <1>3, <1>4, <1>5, <1>6 DEF Next, World

\* A proof reaches the sequencer or the chain once, however many goroutines hand
\* proofs in: more often only by as many deliveries as have lost their answer.
THEOREM ZkDeliveredOnce == Spec => []DeliveredOnce
<1>1. Init => DeliveredInv
  <2> SUFFICES ASSUME Init PROVE DeliveredInv
    OBVIOUS
  <2>1. Deliveries = 0 /\ Unseen = 0
    BY DEF Init, Deliveries, Unseen, FaultKinds
  <2>2. QED
    BY <2>1, SettledCount DEF DeliveredInv
<1>2. Spec => [](TypeInv /\ DeliveredInv)
  BY <1>1, ZkInitType, ZkStepType, DeliveredStep, PTL DEF Spec
<1>3. TypeInv /\ DeliveredInv => DeliveredOnce
  <2> SUFFICES ASSUME TypeInv, DeliveredInv PROVE DeliveredOnce
    OBVIOUS
  <2>1. Deliveries \in Nat /\ Unseen \in Nat
    BY DEF TypeInv, TypeOK, Deliveries, Unseen, FaultKinds
  <2>2. QED
    BY <2>1, SettledCount DEF DeliveredInv, DeliveredOnce, Unseen
<1>4. QED
  BY <1>2, <1>3, PTL

-----------------------------------------------------------------------------
(* With both ways open a proof fails only with the deadline. *)

LEMMA AutoChainStep == TypeInv /\ AutoChainDelivers /\ [Next]_vars => AutoChainDelivers'
<1> SUFFICES ASSUME TypeInv, AutoChainDelivers, [Next]_vars,
                    NEW q \in Proofs,
                    route' = "both", submit'[q].out \in {"late", "timeout", "unpaid"}
             PROVE  expired'
  BY DEF AutoChainDelivers
<1>0. submit \in [Proofs -> Submits] /\ expired \in BOOLEAN
  BY DEF TypeInv, TypeOK, Submits
<1>1. ASSUME UNCHANGED provider, submit'[q].out = submit[q].out, expired => expired'
      PROVE  expired'
  BY <1>1 DEF AutoChainDelivers, route
<1>2. CASE UNCHANGED vars
  BY <1>1, <1>2 DEF vars
<1>3. CASE \/ \E r \in Requests : Handler(r) \/ Worker(r)
           \/ Crons
           \/ Verify \/ (\E r \in Requests : HourPasses(r)) \/ DeadlinePasses
  BY <1>1, <1>3, Elsewhere
<1>4. ASSUME NEW r \in Requests, NEW p \in Proofs, ReceiveUbiProof(r, p)
      PROVE  expired'
  BY <1>1, <1>4, ReceivePosts
<1>5. CASE Crash
  <2>1. submit'[q].out = submit[q].out
    BY <1>5, CrashEnds DEF NoSubmit
  <2>2. QED
    BY <1>1, <1>5, <2>1, CrashEnds
<1>6. ASSUME NEW p \in Proofs, Submitter(p)
      PROVE  expired'
  <2>1. UNCHANGED <<provider, expired>> /\ route = "both"
    <3>1. SubmitOnly \/ SubmitSaves(p)
      BY <1>6 DEF Submitter, Drop, TooLate, Choose, TrySequencer, SendFails, SendTimeout,
                  SecondChoice, SetupFails, CreateTaskContract, DeployedUnseen,
                  DeployTimeout, SubmitSaveFails
    <3>2. QED
      BY <3>1 DEF SubmitOnly, SubmitSaves, route
  <2>2. CASE q # p
    BY <1>1, <1>6, <2>1, <2>2, SubmitterDelivers
  <2>3. CASE q = p
    <3>1. CASE Drop(p) \/ SubmitSaves(p) \/ SubmitSaveFails(p)
      BY <1>0, <2>3, <3>1 DEF Drop, SubmitSaves, SubmitSaveFails, SubmitEnds, NoSubmit
    <3>2. CASE TooLate(p) \/ SendTimeout(p) \/ DeployTimeout(p)
      BY <2>1, <3>2 DEF TooLate, SendTimeout, DeployTimeout
    <3>3. CASE Choose(p) \/ SecondChoice(p)
      <4>1. \/ expired
            \/ submit' = [submit EXCEPT ![p].at = "deploying"]
            \/ submit' = [submit EXCEPT ![p].at = "sending"]
        BY <2>1, <3>3 DEF Choose, SecondChoice
      <4>2. QED
        BY <1>0, <1>1, <2>1, <2>3, <4>1 DEF Submits
    <3>4. CASE TrySequencer(p)
      <4>1. Sent(p) \in Submits
        BY <3>4, SentType DEF TrySequencer, MaySend
      <4>2. submit'[p].out = "delivered"
        BY <1>0, <3>4, <4>1 DEF TrySequencer, Submits
      <4>3. QED
        BY <2>3, <4>2
    <3>5. CASE SendFails(p)
      <4>1. Sent(p) \in Submits /\ Sent(p).out = submit[p].out
        <5>1. Sent(p) \in Submits
          BY <3>5, SentType DEF SendFails, MaySend
        <5>2. QED
          BY <1>0, <5>1 DEF Sent, Submits
      <4>2. submit'[p].out = submit[p].out
        BY <1>0, <3>5, <4>1 DEF SendFails, Submits
      <4>3. QED
        BY <1>1, <2>1, <2>3, <4>2
    <3>6. CASE SetupFails(p)
      <4>1. submit'[p].out = "setup"
        BY <1>0, <3>6 DEF SetupFails, Fails, Submits
      <4>2. QED
        BY <2>3, <4>1
    <3>7. CASE CreateTaskContract(p)
      <4>1. submit'[p].out = "delivered"
        BY <1>0, <3>7 DEF CreateTaskContract, Submits
      <4>2. QED
        BY <2>3, <4>1
    <3>8. CASE DeployedUnseen(p)
      BY <1>1, <2>1, <3>8 DEF DeployedUnseen
    <3>9. QED
      BY <1>6, <3>1, <3>2, <3>3, <3>4, <3>5, <3>6, <3>7, <3>8 DEF Submitter
  <2>4. QED
    BY <2>2, <2>3
<1>7. QED
  BY <1>2, <1>3, <1>4, <1>5, <1>6 DEF Next, World

\* A provider that may use the sequencer and the chain gives a proof up only when
\* its deadline has passed (or the client of the chain cannot be set up).
THEOREM ZkAutoChain == Spec => []AutoChainDelivers
<1>1. Init => AutoChainDelivers
  BY DEF Init, AutoChainDelivers, NoSubmit
<1>2. QED
  BY <1>1, ZkInitType, ZkStepType, AutoChainStep, PTL DEF Spec

-----------------------------------------------------------------------------
(* What the row says is true, and so is what each copy of it says: the copies *)
(* are written back later, by whoever holds them.                             *)

TwoPosted == \E p, q \in Posted : p # q

\* The rows that say nothing false: submitted, a contract, a block hash and a
\* verdict only for a delivery there was, a receipt only with a proof posted, and
\* failed beside a receipt only with a second one.
GoodRows ==
    {w \in Rows : /\ w.status = "submitted" => Deliveries > 0
                  /\ w.contract => contracts > 0
                  /\ w.block \/ w.status \in {"verified", "invalid", "rewarded"} => accepted > 0
                  /\ HasReceipt(w) => Posted # {}
                  /\ HasReceipt(w) /\ w.status = "failed" => TwoPosted}

\* A goroutine that may still fail, and holds a receipt, is not the first of its
\* task: it read the row after another's proof was delivered.
SecondComers ==
    \A p \in Proofs : submit[p].at \in {"looking", "sending", "second", "deploying"} =>
                          (HasReceipt(submit[p].row) => TwoPosted)

CopiesInv ==
    /\ row \in GoodRows
    /\ \A r \in Requests : worker[r].row \in GoodRows
    /\ \A p \in Proofs : submit[p].row \in GoodRows
    /\ cron.row \in GoodRows
    /\ sync.row \in GoodRows
    /\ verdict.status # "received" => accepted > 0
    /\ SecondComers

\* A good row stays good under each way of writing it.
LEMMA GoodWrites ==
    ASSUME TypeInv
    PROVE  /\ NoRow \in GoodRows
           /\ \A r \in Requests : Fresh(r) \in GoodRows
           /\ \A r \in Requests : \A s \in {"rejected", "failed"} :
                  [Fresh(r) EXCEPT !.status = s] \in GoodRows
           /\ \A w \in GoodRows : [w EXCEPT !.status = "running"] \in GoodRows
           /\ \A w \in GoodRows :
                  [w EXCEPT !.status = IF HasReceipt(w) THEN "submitted" ELSE "failed"]
                      \in GoodRows
           /\ \A w \in GoodRows : (HasReceipt(w) => TwoPosted) =>
                  [w EXCEPT !.status = "failed"] \in GoodRows
<1>0. contracts \in Nat /\ accepted \in Nat
  BY DEF TypeInv, TypeOK
<1>1. NoRow \in GoodRows
  BY RowTypes DEF GoodRows, NoRow, Fresh, HasReceipt
<1>1a. ASSUME NEW r \in Requests PROVE Fresh(r) \in GoodRows
  BY RowTypes DEF GoodRows, Fresh, HasReceipt
<1>2. ASSUME NEW r \in Requests, NEW s \in {"rejected", "failed"}
      PROVE  [Fresh(r) EXCEPT !.status = s] \in GoodRows
  <2>1. [Fresh(r) EXCEPT !.status = s] \in Rows
    BY RowTypes DEF Statuses, Pending
  <2>2. QED
    BY <2>1 DEF GoodRows, Fresh, HasReceipt
<1>3. ASSUME NEW w \in GoodRows, NEW s \in {"running", "submitted", "failed"},
             s = "submitted" => HasReceipt(w),
             s = "failed" => (HasReceipt(w) => TwoPosted)
      PROVE  [w EXCEPT !.status = s] \in GoodRows
  <2> DEFINE v == [w EXCEPT !.status = s]
  <2>1. w \in Rows /\ v \in Rows
    BY RowTypes DEF GoodRows, Statuses, Pending
  <2>2. v.status = s /\ v.contract = w.contract /\ v.block = w.block
    BY <2>1 DEF Rows
  <2>3. HasReceipt(v) <=> HasReceipt(w)
    BY <2>2 DEF HasReceipt
  <2> HIDE DEF v
  <2>4. HasReceipt(w) => Deliveries > 0
    BY <1>0 DEF GoodRows, HasReceipt, Deliveries
  <2>5. QED
    <3>1. v.status = "submitted" => Deliveries > 0
      BY <1>3, <2>2, <2>4
    <3>2. v.contract => contracts > 0
      BY <2>2 DEF GoodRows
    <3>3. v.block \/ v.status \in {"verified", "invalid", "rewarded"} => accepted > 0
      BY <2>2 DEF GoodRows
    <3>4. HasReceipt(v) => Posted # {}
      BY <2>3 DEF GoodRows
    <3>5. HasReceipt(v) /\ v.status = "failed" => TwoPosted
      BY <1>3, <2>2, <2>3
    <3>6. QED
      BY <2>1, <3>1, <3>2, <3>3, <3>4, <3>5 DEF GoodRows, v
<1>4. QED
  BY <1>1, <1>1a, <1>2, <1>3

\* What the sequencer's answer writes over a good row, from a good copy.
LEMMA GoodUpdate ==
    ASSUME TypeInv, row \in GoodRows, NEW item \in Rows,
           item.status \in {"received", "verified", "invalid", "rewarded"},
           item.status # "received" => accepted > 0,
           item.contract => contracts > 0 /\ Posted # {},
           item.block => accepted > 0 /\ Posted # {},
           UpdateTaskEntityByTaskId(item)
    PROVE  /\ row' \in Rows
           /\ row'.status = item.status
           /\ row'.contract => contracts > 0
           /\ row'.block => accepted > 0
           /\ HasReceipt(row') => Posted # {}
<1>1. row' \in Rows
  BY UpdateType
<1>2. /\ row'.status = item.status
      /\ row'.contract = (item.contract \/ row.contract)
      /\ row'.block = (item.block \/ row.block)
  BY DEF UpdateTaskEntityByTaskId, Rows
<1>3. /\ row.contract => contracts > 0 /\ Posted # {}
      /\ row.block => accepted > 0 /\ Posted # {}
  BY DEF GoodRows, HasReceipt
<1>4. QED
  BY <1>1, <1>2, <1>3 DEF HasReceipt

\* What was true stays true: proofs are posted, delivered and accepted for good.
LEMMA GoodGrows ==
    ASSUME TypeInv, [Next]_vars
    PROVE  /\ GoodRows \subseteq GoodRows'
           /\ Posted \subseteq Posted'
           /\ TwoPosted => TwoPosted'
           /\ accepted > 0 => accepted' > 0
<1>0. contracts \in Nat /\ accepted \in Nat
  BY DEF TypeInv, TypeOK
<1>1. /\ contracts' \in {contracts, contracts + 1}
      /\ accepted' \in {accepted, accepted + 1}
      /\ \A p \in Proofs : submit[p].at # "none" => submit'[p].at # "none"
  <2>1. CASE UNCHANGED vars \/ Crash
    BY <2>1, CrashEnds DEF vars, NoSubmit
  <2>2. CASE \/ \E r \in Requests : Handler(r) \/ Worker(r)
             \/ Crons
             \/ Verify \/ (\E r \in Requests : HourPasses(r)) \/ DeadlinePasses
    BY <2>2, Elsewhere
  <2>3. ASSUME NEW r \in Requests, NEW p \in Proofs, ReceiveUbiProof(r, p)
        PROVE  <1>1!1 /\ <1>1!2 /\ <1>1!3
    BY <2>3, ReceivePosts
  <2>4. ASSUME NEW p \in Proofs, Submitter(p)
        PROVE  <1>1!1 /\ <1>1!2 /\ <1>1!3
    BY <2>4, SubmitterDelivers
  <2>5. QED
    BY <2>1, <2>2, <2>3, <2>4 DEF Next, World
<1>2. Posted \subseteq Posted'
  BY <1>1 DEF Posted
<1>3. TwoPosted => TwoPosted'
  BY <1>2 DEF TwoPosted
<1>4. /\ Deliveries > 0 => Deliveries' > 0
      /\ contracts > 0 => contracts' > 0
      /\ accepted > 0 => accepted' > 0
  <2>1. /\ contracts' \in Nat /\ contracts <= contracts'
        /\ accepted' \in Nat /\ accepted <= accepted'
    BY <1>0, <1>1
  <2>2. \A c, a, d, b \in Nat : c <= d /\ a <= b =>
            /\ c + a > 0 => d + b > 0
            /\ c > 0 => d > 0
            /\ a > 0 => b > 0
    OBVIOUS
  <2>3. QED
    BY <1>0, <2>1, <2>2 DEF Deliveries
<1>5. Posted # {} => Posted' # {}
  BY <1>2
<1>6. GoodRows \subseteq GoodRows'
  BY <1>3, <1>4, <1>5 DEF GoodRows
<1>7. QED
  BY <1>2, <1>3, <1>4, <1>6

\* Where the goroutines of the proofs are left alone.
LEMMA CopiesElsewhere ==
    ASSUME TypeInv, CopiesInv,
           \/ \E r \in Requests : Handler(r) \/ Worker(r)
           \/ Crons
           \/ Verify \/ (\E r \in Requests : HourPasses(r)) \/ DeadlinePasses,
           row' \in GoodRows,
           \A r \in Requests : worker'[r].row \in GoodRows,
           cron'.row \in GoodRows,
           sync'.row \in GoodRows,
           verdict'.status # "received" => accepted > 0
    PROVE  CopiesInv'
<1>1. UNCHANGED <<submit, contracts, accepted>>
  BY Elsewhere
<1>2. [Next]_vars
  BY DEF Next, World
<1>3. GoodRows \subseteq GoodRows' /\ (TwoPosted => TwoPosted')
  BY <1>2, GoodGrows
<1>4. SecondComers'
  BY <1>1, <1>3 DEF CopiesInv, SecondComers, HasReceipt
<1>5. QED
  BY <1>1, <1>3, <1>4 DEF CopiesInv

LEMMA CopiesHandler ==
    ASSUME TypeInv, CopiesInv, NEW r \in Requests, Handler(r)
    PROVE  CopiesInv'
<1> USE DEF CopiesInv
<1>1. UNCHANGED <<cron, sync, verdict>>
  <2>1. CASE Receive(r) \/ Leave(r)
    BY <2>1 DEF Receive, Leave
  <2>2. CASE Refuse(r) \/ Accept(r)
    BY <2>2 DEF Refuse, Accept
  <2>3. QED
    BY <2>1, <2>2 DEF Handler
<1>2. row' \in GoodRows
  <2>1. CASE Receive(r)
    BY <2>1, GoodWrites DEF Receive, SaveTaskEntity
  <2>2. CASE Refuse(r)
    <3>1. PICK s \in {"rejected", "failed"} : row' = [Fresh(r) EXCEPT !.status = s]
      BY <2>2, Zenon DEF Refuse, SaveTaskEntity
    <3>2. QED
      BY <3>1, GoodWrites, Zenon
  <2>3. CASE Leave(r) \/ Accept(r)
    BY <2>3 DEF Leave, Accept
  <2>4. QED
    BY <2>1, <2>2, <2>3 DEF Handler
<1>3. \A q \in Requests : worker'[q].row \in GoodRows
  <2>1. worker' = worker \/ worker' = [worker EXCEPT ![r].at = "starting"]
    <3>1. CASE Receive(r) \/ Leave(r)
      BY <3>1 DEF Receive, Leave
    <3>2. CASE Refuse(r) \/ Accept(r)
      BY <3>2 DEF Refuse, Accept
    <3>3. QED
      BY <3>1, <3>2 DEF Handler
  <2>2. QED
    BY <2>1 DEF TypeInv, TypeOK
<1>4. QED
  BY <1>1, <1>2, <1>3, CopiesElsewhere

LEMMA CopiesWorker ==
    ASSUME TypeInv, CopiesInv, NEW r \in Requests, Worker(r)
    PROVE  CopiesInv'
<1> USE DEF CopiesInv
<1>0. worker \in [Requests -> Workers]
  BY DEF TypeInv, TypeOK, Workers
<1>1. ASSUME UNCHANGED <<cron, sync, verdict>>, row' \in GoodRows,
             \A q \in Requests : worker'[q].row \in GoodRows
      PROVE  CopiesInv'
  BY <1>1, CopiesElsewhere
<1>2. ASSUME NEW from, NEW to, Work(r, from, to)
      PROVE  \A q \in Requests : worker'[q].row \in GoodRows
  BY <1>0, <1>2 DEF Work, Workers
<1>3. CASE StartProver(r) \/ StartFails(r) \/ LosesSight(r) \/ RereadFails(r)
  <2>1. UNCHANGED <<row, cron, sync, verdict>>
    BY <1>3 DEF StartProver, StartFails, LosesSight, RereadFails
  <2>2. \E from, to : Work(r, from, to)
    BY <1>3 DEF StartProver, StartFails, LosesSight, RereadFails
  <2>3. QED
    BY <1>1, <1>2, <2>1, <2>2
<1>4. CASE StartRefused(r)
  BY <1>1, <1>2, <1>4, GoodWrites DEF StartRefused, SaveTaskEntity
<1>5. CASE SeenRunning(r)
  BY <1>1, <1>2, <1>5, GoodWrites DEF SeenRunning, UpdateTaskStatusById
<1>6. CASE Reread(r)
  <2>1. [row EXCEPT !.status = IF HasReceipt(row) THEN "submitted" ELSE "failed"] \in GoodRows
    BY GoodWrites
  <2>2. \A q \in Requests : worker'[q].row \in GoodRows
    BY <1>0, <1>6, <2>1 DEF Reread
  <2>3. QED
    BY <1>1, <1>6, <2>2 DEF Reread
<1>7. CASE WorkerSaves(r)
  <2>1. \A q \in Requests : worker'[q].row \in GoodRows
    BY <1>0, <1>7, GoodWrites DEF WorkerSaves
  <2>2. QED
    BY <1>1, <1>7, <2>1 DEF WorkerSaves, SaveTaskEntity
<1>8. CASE ProverEnds(r)
  BY <1>1, <1>8 DEF ProverEnds
<1>9. QED
  BY <1>3, <1>4, <1>5, <1>6, <1>7, <1>8 DEF Worker

LEMMA CopiesCrons == ASSUME TypeInv, CopiesInv, Crons PROVE CopiesInv'
<1> USE DEF CopiesInv
<1>0. CronOff.row \in GoodRows
  BY GoodWrites DEF CronOff
<1>1. ASSUME UNCHANGED <<worker, verdict>>, row' \in GoodRows,
             cron'.row \in GoodRows, sync'.row \in GoodRows
      PROVE  CopiesInv'
  BY <1>1, CopiesElsewhere
<1>2. CASE CronReads \/ SyncReads \/ SyncSkips
  BY <1>0, <1>1, <1>2 DEF CronReads, SyncReads, SyncSkips
<1>3. CASE CronSaves
  BY <1>0, <1>1, <1>3, GoodWrites DEF CronSaves, SaveTaskEntity
<1>4. CASE CronQueryFails
  <2>1. cron'.row \in GoodRows
    BY <1>0, <1>4 DEF CronQueryFails, CronOff
  <2>2. QED
    BY <1>1, <1>4, <2>1 DEF CronQueryFails
<1>5. CASE SyncWrites
  <2> DEFINE item == [sync.row EXCEPT !.status = verdict.status, !.addr = verdict.addr]
  <2>1. /\ item \in Rows
        /\ item.status = verdict.status
        /\ item.contract = sync.row.contract
        /\ item.block = sync.row.block
    BY DEF TypeInv, TypeOK, Rows, Statuses, Pending
  <2>2. item.status \in {"received", "verified", "invalid", "rewarded"}
    BY <2>1 DEF TypeInv, TypeOK
  <2>3. UpdateTaskEntityByTaskId(item) /\ accepted > 0
    BY <1>5 DEF SyncWrites
  <2> HIDE DEF item
  <2>4. /\ item.contract => contracts > 0 /\ Posted # {}
        /\ item.block => accepted > 0 /\ Posted # {}
    BY <2>1 DEF GoodRows, HasReceipt
  <2>5. /\ row' \in Rows
        /\ row'.status = item.status
        /\ row'.contract => contracts > 0
        /\ row'.block => accepted > 0
        /\ HasReceipt(row') => Posted # {}
    BY <2>1, <2>2, <2>3, <2>4, GoodUpdate
  <2>6. row' \in GoodRows
    BY <2>2, <2>3, <2>5 DEF GoodRows
  <2>7. QED
    BY <1>0, <1>1, <1>5, <2>6 DEF SyncWrites
<1>6. QED
  BY <1>2, <1>3, <1>4, <1>5 DEF Crons

\* What the goroutine of a proof makes of its copy of the row.
LEMMA SubmitterCopies ==
    ASSUME TypeInv, CopiesInv, NEW p \in Proofs, Submitter(p)
    PROVE  /\ submit'[p].row \in GoodRows'
           /\ submit'[p].at \in {"looking", "sending", "second", "deploying"} =>
                  /\ submit[p].at \in {"looking", "sending", "second", "deploying"}
                  /\ submit'[p].row = submit[p].row
           /\ UNCHANGED <<worker, cron, sync, verdict>>
           /\ row' \in GoodRows
<1>0. /\ submit \in [Proofs -> Submits]
      /\ submit[p].row \in GoodRows
      /\ GoodRows \subseteq GoodRows'
  <2>1. [Next]_vars
    BY DEF Next
  <2>2. QED
    BY <2>1, GoodGrows DEF TypeInv, TypeOK, Submits, CopiesInv
<1>1. UNCHANGED <<worker, cron, sync, verdict>> /\ row' \in GoodRows
  <2>1. SubmitOnly \/ SubmitSaves(p)
    BY DEF Submitter, Drop, TooLate, Choose, TrySequencer, SendFails, SendTimeout,
           SecondChoice, SetupFails, CreateTaskContract, DeployedUnseen,
           DeployTimeout, SubmitSaveFails
  <2>2. QED
    BY <1>0, <2>1 DEF SubmitOnly, SubmitSaves, SaveTaskEntity, CopiesInv
<1>2. CASE Drop(p) \/ SubmitSaves(p) \/ SubmitSaveFails(p)
  <2>1. submit'[p] = [NoSubmit EXCEPT !.at = "over"]
    BY <1>0, <1>2 DEF Drop, SubmitSaves, SubmitSaveFails, SubmitEnds
  <2>2. submit'[p].row = NoRow /\ submit'[p].at = "over"
    BY <2>1 DEF NoSubmit
  <2>3. QED
    BY <1>0, <1>1, <2>2, GoodWrites
<1>3. ASSUME NEW out, Fails(p, out),
             submit[p].at \in {"looking", "sending", "second", "deploying"}
      PROVE  submit'[p].row \in GoodRows' /\ submit'[p].at = "saving"
  <2>1. submit'[p].row = [submit[p].row EXCEPT !.status = "failed"] /\ submit'[p].at = "saving"
    BY <1>0, <1>3 DEF Fails, Submits
  <2>2. HasReceipt(submit[p].row) => TwoPosted
    BY <1>3 DEF CopiesInv, SecondComers
  <2>3. QED
    BY <1>0, <2>1, <2>2, GoodWrites
<1>4. CASE TooLate(p) \/ SendTimeout(p) \/ SetupFails(p) \/ DeployTimeout(p)
  <2>1. /\ \E out : Fails(p, out)
        /\ submit[p].at \in {"looking", "sending", "second", "deploying"}
    BY <1>4 DEF TooLate, SendTimeout, SetupFails, DeployTimeout
  <2>2. QED
    BY <1>1, <1>3, <2>1
<1>5. CASE Choose(p) \/ SecondChoice(p)
  <2>1. \/ \E out : Fails(p, out)
        \/ submit' = [submit EXCEPT ![p].at = "deploying"]
        \/ submit' = [submit EXCEPT ![p].at = "sending"]
    BY <1>5 DEF Choose, SecondChoice
  <2>2. submit[p].at \in {"looking", "second"}
    BY <1>5 DEF Choose, SecondChoice
  <2>3. CASE \/ submit' = [submit EXCEPT ![p].at = "deploying"]
             \/ submit' = [submit EXCEPT ![p].at = "sending"]
    <3>1. submit'[p].row = submit[p].row
      BY <1>0, <2>3 DEF Submits
    <3>2. QED
      BY <1>0, <1>1, <2>2, <3>1
  <2>4. QED
    BY <1>1, <1>3, <2>1, <2>2, <2>3
<1>6. CASE TrySequencer(p)
  <2>1. submit[p].at = "sending" /\ Sent(p) \in Submits /\ Sent(p).row = submit[p].row
    BY <1>6, SentType DEF TrySequencer, MaySend
  <2>2. /\ submit'[p].at = "saving"
        /\ submit'[p].row = [submit[p].row EXCEPT !.block = TRUE, !.sequencer = TRUE,
                                                  !.status = "submitted"]
    BY <1>0, <1>6, <2>1 DEF TrySequencer, Submits
  <2>3. submit[p].row \in Rows
    BY <1>0 DEF Submits
  <2>4. /\ submit'[p].row \in Rows /\ submit'[p].row.status = "submitted"
        /\ submit'[p].row.contract = submit[p].row.contract
    BY <2>2, <2>3 DEF Rows, Statuses
  <2>5. accepted' > 0 /\ Deliveries' > 0 /\ contracts' = contracts
    BY <1>6 DEF TrySequencer, TypeInv, TypeOK, Deliveries
  <2>6. Posted' # {}
    BY <2>2 DEF Posted
  <2>7. submit'[p].row.contract => contracts' > 0
    BY <1>0, <2>4, <2>5 DEF GoodRows
  <2>8. submit'[p].row \in GoodRows'
    BY <2>4, <2>5, <2>6, <2>7 DEF GoodRows
  <2>9. QED
    BY <1>1, <2>2, <2>8
<1>7. CASE SendFails(p)
  <2>1. submit[p].at = "sending" /\ Sent(p) \in Submits /\ Sent(p).row = submit[p].row
    BY <1>7, SentType DEF SendFails, MaySend
  <2>2. submit'[p].row = submit[p].row
    BY <1>0, <1>7, <2>1 DEF SendFails, Submits
  <2>3. QED
    BY <1>0, <1>1, <2>1, <2>2
<1>8. CASE CreateTaskContract(p)
  <2>1. /\ submit'[p].at = "saving"
        /\ submit'[p].row = [submit[p].row EXCEPT !.contract = TRUE, !.sequencer = FALSE,
                                                  !.status = "submitted"]
    BY <1>0, <1>8 DEF CreateTaskContract, Submits
  <2>2. submit[p].row \in Rows
    BY <1>0 DEF Submits
  <2>3. /\ submit'[p].row \in Rows /\ submit'[p].row.status = "submitted"
        /\ submit'[p].row.block = submit[p].row.block
    BY <2>1, <2>2 DEF Rows, Statuses
  <2>4. contracts' > 0 /\ Deliveries' > 0 /\ accepted' = accepted
    BY <1>8 DEF CreateTaskContract, TypeInv, TypeOK, Deliveries
  <2>5. Posted' # {}
    BY <2>1 DEF Posted
  <2>6. submit'[p].row.block => accepted' > 0
    BY <1>0, <2>3, <2>4 DEF GoodRows
  <2>7. submit'[p].row \in GoodRows'
    BY <2>3, <2>4, <2>5, <2>6 DEF GoodRows
  <2>8. QED
    BY <1>1, <2>1, <2>7
<1>9. CASE DeployedUnseen(p)
  BY <1>0, <1>1, <1>9 DEF DeployedUnseen
<1>10. QED
  BY <1>2, <1>4, <1>5, <1>6, <1>7, <1>8, <1>9 DEF Submitter

\* Where only the goroutines of the proofs and the row change.
LEMMA OthersGood ==
    ASSUME CopiesInv, GoodRows \subseteq GoodRows', accepted > 0 => accepted' > 0,
           UNCHANGED <<worker, cron, sync, verdict>>, row' \in GoodRows,
           \A q \in Proofs : submit'[q].row \in GoodRows',
           SecondComers'
    PROVE  CopiesInv'
<1>1. verdict'.status # "received" => accepted' > 0
  BY DEF CopiesInv
<1>2. /\ row' \in GoodRows' /\ cron'.row \in GoodRows' /\ sync'.row \in GoodRows'
      /\ \A r \in Requests : worker'[r].row \in GoodRows'
  BY DEF CopiesInv
<1>3. QED
  BY <1>1, <1>2 DEF CopiesInv

LEMMA CopiesStep == TypeInv /\ CopiesInv /\ [Next]_vars => CopiesInv'
<1> SUFFICES ASSUME TypeInv, CopiesInv, [Next]_vars PROVE CopiesInv'
  OBVIOUS
<1>0. /\ GoodRows \subseteq GoodRows' /\ Posted \subseteq Posted'
      /\ TwoPosted => TwoPosted'
      /\ accepted > 0 => accepted' > 0
      /\ NoRow \in GoodRows
  BY GoodGrows, GoodWrites
<1>1. CASE UNCHANGED vars
  BY <1>0, <1>1 DEF vars, CopiesInv, SecondComers, HasReceipt
<1>2. ASSUME NEW p \in Proofs, Submitter(p)
      PROVE  CopiesInv'
  <2>1. \A q \in Proofs \ {p} : submit'[q] = submit[q]
    BY <1>2, SubmitterDelivers
  <2>2. \A q \in Proofs : submit'[q].row \in GoodRows'
    BY <1>0, <1>2, <2>1, SubmitterCopies DEF CopiesInv
  <2>3. SecondComers'
    <3>1. \A q \in Proofs :
              submit'[q].at \in {"looking", "sending", "second", "deploying"} =>
                  /\ submit[q].at \in {"looking", "sending", "second", "deploying"}
                  /\ submit'[q].row = submit[q].row
      BY <1>2, <2>1, SubmitterCopies
    <3>2. QED
      BY <1>0, <3>1 DEF CopiesInv, SecondComers, HasReceipt
  <2>4. UNCHANGED <<worker, cron, sync, verdict>> /\ row' \in GoodRows
    BY <1>2, SubmitterCopies
  <2>5. QED
    BY <1>0, <2>2, <2>3, <2>4, OthersGood
<1>3. ASSUME NEW r \in Requests, NEW p \in Proofs, ReceiveUbiProof(r, p)
      PROVE  CopiesInv'
  <2>1. /\ submit[p].at = "none" /\ submit'[p].at = "looking" /\ submit'[p].row = row
        /\ \A q \in Proofs \ {p} : submit'[q] = submit[q]
        /\ UNCHANGED <<row, worker, cron, sync, verdict>>
    BY <1>3, ReceivePosts DEF ReceiveUbiProof
  <2>2. HasReceipt(row) => TwoPosted'
    <3>1. HasReceipt(row) => Posted # {}
      BY DEF CopiesInv, GoodRows
    <3>2. p \notin Posted /\ p \in Posted'
      BY <2>1 DEF Posted
    <3>3. QED
      BY <1>0, <3>1, <3>2 DEF TwoPosted
  <2>3. SecondComers'
    BY <1>0, <2>1, <2>2 DEF CopiesInv, SecondComers, HasReceipt
  <2>4. \A q \in Proofs : submit'[q].row \in GoodRows'
    BY <1>0, <2>1 DEF CopiesInv
  <2>5. QED
    BY <1>0, <2>1, <2>3, <2>4, OthersGood DEF CopiesInv
<1>4. CASE Crash
  <2>1. \A q \in Proofs : submit'[q].row \in GoodRows'
    BY <1>0, <1>4, CrashEnds DEF NoSubmit, CopiesInv
  <2>2. \A r \in Requests : worker'[r].row \in GoodRows'
    BY <1>0, <1>4 DEF Crash, NoWorker
  <2>3. SecondComers'
    BY <1>4, CrashEnds DEF SecondComers, NoSubmit
  <2>4. cron'.row \in GoodRows' /\ sync'.row \in GoodRows'
    BY <1>0, <1>4 DEF Crash, CronOff
  <2>5. UNCHANGED <<row, verdict>> /\ row' \in GoodRows'
    BY <1>0, <1>4 DEF Crash, CopiesInv
  <2>6. verdict'.status # "received" => accepted' > 0
    BY <1>0, <2>5 DEF CopiesInv
  <2>7. QED
    BY <2>1, <2>2, <2>3, <2>4, <2>5, <2>6 DEF CopiesInv
<1>5. CASE Verify \/ (\E r \in Requests : HourPasses(r)) \/ DeadlinePasses
  <2>1. /\ UNCHANGED <<row, worker, cron, sync>>
        /\ verdict'.status # "received" => accepted > 0
    BY <1>5 DEF Verify, HourPasses, DeadlinePasses, CopiesInv
  <2>2. QED
    BY <1>5, <2>1, CopiesElsewhere DEF CopiesInv
<1>6. QED
  BY <1>1, <1>2, <1>3, <1>4, <1>5, CopiesHandler, CopiesWorker, CopiesCrons DEF Next, World

LEMMA CopiesInit == Init => CopiesInv
<1> SUFFICES ASSUME Init PROVE CopiesInv
  OBVIOUS
<1>1. NoRow \in GoodRows
  BY ZkInitType, GoodWrites
<1>2. QED
  BY <1>1 DEF Init, CopiesInv, SecondComers, NoWorker, NoSubmit, CronOff

\* A row says submitted, or holds a receipt, only for a proof that the chain or the
\* sequencer has: a copy written back late cannot claim what was never delivered.
THEOREM ZkSubmittedIsReal == Spec => []SubmittedIsReal
<1>1. Spec => [](TypeInv /\ CopiesInv)
  BY ZkInitType, ZkStepType, CopiesInit, CopiesStep, PTL DEF Spec
<1>2. CopiesInv => SubmittedIsReal
  BY DEF CopiesInv, GoodRows, SubmittedIsReal
<1>3. QED
  BY <1>1, <1>2, PTL

-----------------------------------------------------------------------------
(* The receipt of a proof that was delivered stays in the row. *)

\* A goroutine has a receipt that it has still to save.
Held == \E p \in Proofs : submit[p].at = "saving" /\ HasReceipt(submit[p].row)

\* Inductive: until something costs it, the receipt is in the row or in the hands of
\* a goroutine about to save it.
ReceiptInv == lost = "no" /\ Deliveries > 0 => HasReceipt(row) \/ Held

\* What a write of the row may cost is written down.
LEMMA SaveKeeps ==
    ASSUME NEW entity, NEW why \in Causes \ {"no"}, SaveTaskEntity(entity, why), lost' = "no"
    PROVE  lost = "no" /\ (HasReceipt(row) => HasReceipt(row'))
<1>1. CASE HasReceipt(row) /\ ~HasReceipt(entity)
  BY <1>1 DEF SaveTaskEntity, Lose, Causes
<1>2. CASE ~(HasReceipt(row) /\ ~HasReceipt(entity))
  BY <1>2 DEF SaveTaskEntity
<1>3. QED
  BY <1>1, <1>2

LEMMA RowKeeps ==
    ASSUME TypeInv, lost' = "no",
           \/ \E r \in Requests : Handler(r) \/ Worker(r)
           \/ Crons
           \/ Verify \/ (\E r \in Requests : HourPasses(r)) \/ DeadlinePasses
    PROVE  lost = "no" /\ (HasReceipt(row) => HasReceipt(row'))
<1>0. {"resent", "stale"} \subseteq Causes \ {"no"}
  BY DEF Causes
<1>1. ASSUME NEW r \in Requests, Handler(r)
      PROVE  lost = "no" /\ (HasReceipt(row) => HasReceipt(row'))
  <2>1. CASE Receive(r)
    BY <1>0, <2>1, SaveKeeps DEF Receive
  <2>2. CASE Refuse(r)
    <3>1. \E entity : SaveTaskEntity(entity, "resent")
      BY <2>2, Zenon DEF Refuse
    <3>2. QED
      BY <1>0, <3>1, SaveKeeps
  <2>3. CASE Leave(r) \/ Accept(r)
    BY <2>3 DEF Leave, Accept
  <2>4. QED
    BY <1>1, <2>1, <2>2, <2>3 DEF Handler
<1>2. ASSUME NEW r \in Requests, Worker(r)
      PROVE  lost = "no" /\ (HasReceipt(row) => HasReceipt(row'))
  <2>1. CASE \/ StartProver(r) \/ StartFails(r) \/ LosesSight(r) \/ Reread(r)
             \/ RereadFails(r) \/ ProverEnds(r)
    BY <2>1 DEF StartProver, StartFails, LosesSight, Reread, RereadFails, ProverEnds
  <2>2. CASE StartRefused(r)
    <3>1. \E entity : SaveTaskEntity(entity, "resent")
      BY <2>2, Zenon DEF StartRefused
    <3>2. QED
      BY <1>0, <3>1, SaveKeeps
  <2>3. CASE SeenRunning(r)
    BY <2>3 DEF SeenRunning, UpdateTaskStatusById, HasReceipt, TypeInv, TypeOK, Rows
  <2>4. CASE WorkerSaves(r)
    BY <1>0, <2>4, SaveKeeps DEF WorkerSaves
  <2>5. QED
    BY <1>2, <2>1, <2>2, <2>3, <2>4 DEF Worker
<1>3. ASSUME Crons
      PROVE  lost = "no" /\ (HasReceipt(row) => HasReceipt(row'))
  <2>1. CASE CronReads \/ CronQueryFails \/ SyncReads \/ SyncSkips
    BY <2>1 DEF CronReads, CronQueryFails, SyncReads, SyncSkips
  <2>2. CASE CronSaves
    <3>1. \E entity : SaveTaskEntity(entity, "stale")
      BY <2>2, Zenon DEF CronSaves
    <3>2. QED
      BY <1>0, <3>1, SaveKeeps
  <2>3. CASE SyncWrites
    <3>1. PICK item : item \in Rows /\ UpdateTaskEntityByTaskId(item)
      <4>1. [sync.row EXCEPT !.status = verdict.status, !.addr = verdict.addr] \in Rows
        BY DEF TypeInv, TypeOK, Rows, Statuses, Pending
      <4>2. QED
        BY <2>3, <4>1, Zenon DEF SyncWrites
    <3>2. /\ row'.contract = (item.contract \/ row.contract)
          /\ row'.block = (item.block \/ row.block)
      BY <3>1 DEF UpdateTaskEntityByTaskId, Rows
    <3>3. lost = "no"
      BY <2>3 DEF SyncWrites
    <3>4. QED
      BY <3>2, <3>3 DEF HasReceipt
  <2>4. QED
    BY <1>3, <2>1, <2>2, <2>3 DEF Crons
<1>4. CASE Verify \/ (\E r \in Requests : HourPasses(r)) \/ DeadlinePasses
  BY <1>4 DEF Verify, HourPasses, DeadlinePasses
<1>5. QED
  BY <1>1, <1>2, <1>3, <1>4

\* The goroutine of a proof keeps what it holds until it saves it.
LEMMA SubmitterKeeps ==
    ASSUME TypeInv, ReceiptInv, NEW p \in Proofs, Submitter(p), lost' = "no", Deliveries' > 0
    PROVE  HasReceipt(row') \/ Held'
<1>0. /\ submit \in [Proofs -> Submits]
      /\ \A q \in Proofs \ {p} : submit'[q] = submit[q]
  BY SubmitterDelivers DEF TypeInv, TypeOK, Submits
<1>1. ASSUME UNCHANGED <<contracts, accepted, lost, row>>, submit[p].at # "saving"
      PROVE  HasReceipt(row') \/ Held'
  <2>1. HasReceipt(row) \/ Held
    BY <1>1 DEF ReceiptInv, Deliveries
  <2>2. Held => Held'
    BY <1>0, <1>1 DEF Held, HasReceipt
  <2>3. QED
    BY <1>1, <2>1, <2>2 DEF HasReceipt
<1>2. CASE \/ Drop(p) \/ TooLate(p) \/ Choose(p) \/ SendTimeout(p) \/ SecondChoice(p)
           \/ SetupFails(p) \/ DeployTimeout(p)
  <2>1. UNCHANGED <<contracts, accepted, lost>> /\ SubmitOnly /\ submit[p].at # "saving"
    BY <1>2 DEF Drop, TooLate, Choose, SendTimeout, SecondChoice, SetupFails, DeployTimeout
  <2>2. QED
    BY <1>1, <2>1 DEF SubmitOnly
<1>3. CASE TrySequencer(p)
  <2>1. Sent(p) \in Submits
    BY <1>3, SentType DEF TrySequencer, MaySend
  <2>2. submit'[p].at = "saving" /\ submit'[p].row.block = TRUE
    BY <1>0, <1>3, <2>1 DEF TrySequencer, Submits, Rows
  <2>3. QED
    BY <2>2 DEF Held, HasReceipt
<1>4. CASE SendFails(p)
  <2>1. ~Lose("unseen")
    BY DEF Lose
  <2>2. UNCHANGED <<contracts, accepted, lost>> /\ SubmitOnly /\ submit[p].at # "saving"
    BY <1>4, <2>1 DEF SendFails, MaySend
  <2>3. QED
    BY <1>1, <2>2 DEF SubmitOnly
<1>5. CASE CreateTaskContract(p)
  <2>1. submit'[p].at = "saving" /\ submit'[p].row.contract = TRUE
    BY <1>0, <1>5 DEF CreateTaskContract, Submits, Rows
  <2>2. QED
    BY <2>1 DEF Held, HasReceipt
<1>6. CASE DeployedUnseen(p)
  BY <1>6 DEF DeployedUnseen, Lose
<1>7. CASE SubmitSaves(p)
  <2>1. lost = "no" /\ (HasReceipt(row) => HasReceipt(row'))
    <3>1. "stale" \in Causes \ {"no"}
      BY DEF Causes
    <3>2. QED
      BY <1>7, <3>1, SaveKeeps DEF SubmitSaves
  <2>2. row' = submit[p].row /\ UNCHANGED <<contracts, accepted>>
    BY <1>7 DEF SubmitSaves, SaveTaskEntity
  <2>3. HasReceipt(row) \/ Held
    BY <2>1, <2>2 DEF ReceiptInv, Deliveries
  <2>4. CASE Held
    <3>1. PICK q \in Proofs : submit[q].at = "saving" /\ HasReceipt(submit[q].row)
      BY <2>4 DEF Held
    <3>2. CASE q = p
      BY <2>2, <3>1, <3>2 DEF HasReceipt
    <3>3. CASE q # p
      BY <1>0, <3>1, <3>3 DEF Held, HasReceipt
    <3>4. QED
      BY <3>2, <3>3
  <2>5. QED
    BY <2>1, <2>3, <2>4
<1>8. CASE SubmitSaveFails(p)
  <2>1. ~HasReceipt(submit[p].row) /\ lost = "no"
    BY <1>8 DEF SubmitSaveFails, Lose
  <2>2. SubmitOnly /\ UNCHANGED <<contracts, accepted>>
    BY <1>8 DEF SubmitSaveFails
  <2>3. HasReceipt(row) \/ Held
    BY <2>1, <2>2 DEF ReceiptInv, Deliveries
  <2>4. Held => Held'
    BY <1>0, <2>1 DEF Held, HasReceipt
  <2>5. QED
    BY <2>2, <2>3, <2>4 DEF SubmitOnly, HasReceipt
<1>9. QED
  BY <1>2, <1>3, <1>4, <1>5, <1>6, <1>7, <1>8 DEF Submitter

LEMMA ReceiptStep == TypeInv /\ ReceiptInv /\ [Next]_vars => ReceiptInv'
<1> SUFFICES ASSUME TypeInv, ReceiptInv, [Next]_vars, lost' = "no", Deliveries' > 0
             PROVE  HasReceipt(row') \/ Held'
  BY DEF ReceiptInv, HasReceipt
<1>1. ASSUME UNCHANGED <<contracts, accepted>>, lost = "no",
             HasReceipt(row) => HasReceipt(row'), Held => Held'
      PROVE  HasReceipt(row') \/ Held'
  BY <1>1 DEF ReceiptInv, Deliveries
<1>2. CASE UNCHANGED vars
  <2>1. Held => Held'
    BY <1>2 DEF vars, Held, HasReceipt
  <2>2. QED
    BY <1>1, <1>2, <2>1 DEF vars
<1>3. CASE \/ \E r \in Requests : Handler(r) \/ Worker(r)
           \/ Crons
           \/ Verify \/ (\E r \in Requests : HourPasses(r)) \/ DeadlinePasses
  <2>1. Held => Held'
    BY <1>3, Elsewhere DEF Held, HasReceipt
  <2>2. QED
    BY <1>1, <1>3, <2>1, Elsewhere, RowKeeps
<1>4. ASSUME NEW r \in Requests, NEW p \in Proofs, ReceiveUbiProof(r, p)
      PROVE  HasReceipt(row') \/ Held'
  <2>1. Held => Held'
    BY <1>4, ReceivePosts DEF Held, HasReceipt
  <2>2. UNCHANGED <<row, lost, contracts, accepted>>
    BY <1>4 DEF ReceiveUbiProof
  <2>3. QED
    BY <1>1, <2>1, <2>2
<1>5. CASE Crash
  <2>1. ~Held /\ lost = "no" /\ UNCHANGED <<row, contracts, accepted>>
    BY <1>5 DEF Crash, Held, Lose
  <2>2. QED
    BY <1>1, <2>1
<1>6. ASSUME NEW p \in Proofs, Submitter(p)
      PROVE  HasReceipt(row') \/ Held'
  BY <1>6, SubmitterKeeps
<1>7. QED
  BY <1>2, <1>3, <1>4, <1>5, <1>6 DEF Next, World

\* A proof that was delivered leaves its receipt in the row unless one of the named
\* causes lost it, and a row with a receipt says failed only after a second proof,
\* whatever the goroutines, crons and requests that write it back.
THEOREM ZkReceiptKept == Spec => []ReceiptKept
<1>1. Init => ReceiptInv
  BY DEF Init, ReceiptInv, Deliveries
<1>2. Spec => [](TypeInv /\ CopiesInv /\ ReceiptInv)
  BY <1>1, ZkInitType, ZkStepType, CopiesInit, CopiesStep, ReceiptStep, PTL DEF Spec
<1>3. TypeInv /\ CopiesInv /\ ReceiptInv => ReceiptKept
  <2> SUFFICES ASSUME CopiesInv, ReceiptInv, Quiet
               PROVE  /\ Deliveries > 0 /\ ~HasReceipt(row) => lost # "no"
                      /\ HasReceipt(row) /\ row.status = "failed" => Cardinality(Posted) > 1
    BY DEF ReceiptKept
  <2>1. ~Held
    BY DEF Quiet, Held
  <2>2. TwoPosted => Cardinality(Posted) > 1
    <3> SUFFICES ASSUME NEW p \in Posted, NEW q \in Posted, p # q
                 PROVE  Cardinality(Posted) > 1
      BY DEF TwoPosted
    <3>1. IsFiniteSet({p}) /\ Cardinality({p}) = 1
      BY FS_Singleton
    <3>2. Cardinality({p} \cup {q}) = 2
      <4>1. Cardinality({p} \cup {q}) = IF q \in {p} THEN Cardinality({p}) ELSE Cardinality({p}) + 1
        BY <3>1, FS_AddElement, Zenon
      <4>2. q \notin {p}
        OBVIOUS
      <4>3. QED
        BY <3>1, <4>1, <4>2
    <3>3. {p} \cup {q} \in SUBSET Posted
      OBVIOUS
    <3>4. 2 <= Cardinality(Posted)
      BY <3>2, <3>3, SettledCount, FS_Subset
    <3>5. QED
      BY <3>4, SettledCount
  <2>3. Deliveries > 0 /\ ~HasReceipt(row) => lost # "no"
    BY <2>1 DEF ReceiptInv
  <2>4. HasReceipt(row) /\ row.status = "failed" => Cardinality(Posted) > 1
    BY <2>2 DEF CopiesInv, GoodRows
  <2>5. QED
    BY <2>3, <2>4
<1>4. QED
  BY <1>2, <1>3, PTL

=============================================================================
