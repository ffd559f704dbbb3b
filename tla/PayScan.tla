------------------------------ MODULE PayScan ------------------------------
(***************************************************************************)
(* The scanner of payments in the ECP daemon. Every half hour it asks the  *)
(* chain for the TransferToCPBeneficiary events of the blocks after the    *)
(* last one it has processed, adds each amount to the reward of its job in *)
(* t_ecp_job, and stores the block of the last one in t_scan_chain when it *)
(* is through. Nothing ties the two tables together: a pass that is broken *)
(* off leaves its rewards booked and the block where it was.               *)
(*                                                                         *)
(* One step is one call to the chain or one row of the database. A payment *)
(* may also end its job; that part of handleEdgeTask is in EcpJob.         *)
(***************************************************************************)
EXTENDS Naturals

CONSTANTS
    Payments,   \* TransferToCPBeneficiary events for this provider
    Jobs,       \* ECP jobs, each with one row
    Job,        \* the job each payment is for
    Amount,     \* what it transfers
    Created,    \* EdgeTaskPaymentCreated: where to begin without a row
    Faults,     \* out of Breaks, and "row"
    MaxHeight,  \* bound: blocks of the chain
    MaxBroken   \* bound: passes that are broken off

\* What breaks a pass off: the process ends, the iterator of the events fails,
\* the cursor cannot be read or cannot be written. "row" is the job's row that
\* cannot be read or written.
Breaks == {"crash", "iterator", "load", "save"}

ASSUME PayScanAssumption ==
    /\ Job \in [Payments -> Jobs]
    /\ Amount \in [Payments -> Nat \ {0}]
    /\ Created \in Nat
    /\ Faults \subseteq Breaks \cup {"row"}
    /\ MaxHeight \in Nat
    /\ Created =< MaxHeight
    /\ MaxBroken \in Nat

VARIABLES
    head,       \* height of the chain
    block,      \* the block of each payment, 0 before there is one
    pc,         \* where scanAndProcessEvents is
    last,       \* its lastProcessedBlock
    end,        \* its currentBlock, the last block the filter asks for
    todo,       \* the events the iterator has yet to return
    cursor,     \* block_number in t_scan_chain, 0 without a row
    reward,     \* reward of each job in t_ecp_job
    credit,     \* history: how often each payment was added to a reward
    missed,     \* history: the payments whose row could not be read or written
    broken      \* history: passes broken off

chain == <<head, block>>
pass  == <<pc, last, end, todo>>
books == <<reward, credit, missed>>
vars  == <<chain, pass, cursor, books, broken>>

-----------------------------------------------------------------------------
\* Every payment is in a block after the contract's own.
Init ==
    /\ head = Created
    /\ block = [p \in Payments |-> 0]
    /\ pc = "idle"
    /\ last = 0
    /\ end = 0
    /\ todo = {}
    /\ cursor = 0
    /\ reward = [j \in Jobs |-> 0]
    /\ credit = [p \in Payments |-> 0]
    /\ missed = {}
    /\ broken = 0

OnChain(p) == block[p] > 0

\* The chain: a new block with some payments in it.
Mine ==
    /\ head < MaxHeight
    /\ head' = head + 1
    /\ \E S \in SUBSET {p \in Payments : ~OnChain(p)} :
           block' = [p \in Payments |-> IF p \in S THEN head + 1 ELSE block[p]]
    /\ UNCHANGED <<pass, cursor, books, broken>>

MayBreak(fault) == fault \in Faults /\ broken < MaxBroken

Break == broken' = broken + 1

\* A pass ends here, whatever it has handled.
EndPass ==
    /\ pc' = "idle"
    /\ last' = 0
    /\ end' = 0
    /\ todo' = {}

\* Plausible bug: the stored block is not used.
LoadLastProcessedBlock_ignored(c) == Created

\* loadLastProcessedBlock: a provider without a row begins at the contract.
LoadLastProcessedBlock(c) == IF c = 0 THEN Created ELSE c

Start ==
    /\ pc = "idle"
    /\ pc' = "header"
    /\ last' = LoadLastProcessedBlock(cursor)
    /\ UNCHANGED <<chain, end, todo, cursor, books, broken>>

\* An error of the database is taken for a provider that begins.
StartUnread ==
    /\ pc = "idle"
    /\ MayBreak("load")
    /\ pc' = "header"
    /\ last' = Created
    /\ Break
    /\ UNCHANGED <<chain, end, todo, cursor, books>>

Header ==
    /\ pc = "header"
    /\ pc' = "filter"
    /\ end' = head
    /\ UNCHANGED <<chain, last, todo, cursor, books, broken>>

\* Plausible bug: the first block is taken for processed.
Events_after(from, to) ==
    {p \in Payments : OnChain(p) /\ block[p] \in (from + 1)..to}

\* FilterTransferToCPBeneficiary over the blocks from..to.
Events(from, to) == {p \in Payments : OnChain(p) /\ block[p] \in from..to}

Filter ==
    /\ pc = "filter"
    /\ pc' = "events"
    /\ todo' = Events(last + 1, end)
    /\ UNCHANGED <<chain, last, end, cursor, books, broken>>

\* No header or no events: the error is logged until the next tick.
NoAnswer ==
    /\ pc \in {"header", "filter"}
    /\ EndPass
    /\ UNCHANGED <<chain, cursor, books, broken>>

\* The iterator returns the events in the order of their blocks.
Earliest(p) == p \in todo /\ \A q \in todo : block[p] =< block[q]

\* handleEdgeTask: the reward is read, added to and written.
HandleEdgeTask(p) ==
    /\ pc = "events"
    /\ Earliest(p)
    /\ last' = block[p]
    /\ todo' = todo \ {p}
    /\ reward' = [reward EXCEPT ![Job[p]] = @ + Amount[p]]
    /\ credit' = [credit EXCEPT ![p] = @ + 1]
    /\ UNCHANGED <<chain, pc, end, cursor, missed, broken>>

\* Its errors are logged, and the next event is handled.
HandleFails(p) ==
    /\ pc = "events"
    /\ "row" \in Faults
    /\ Earliest(p)
    /\ last' = block[p]
    /\ todo' = todo \ {p}
    /\ missed' = missed \cup {p}
    /\ UNCHANGED <<chain, pc, end, cursor, reward, credit, broken>>

IteratorFails ==
    /\ pc = "events"
    /\ MayBreak("iterator")
    /\ EndPass
    /\ Break
    /\ UNCHANGED <<chain, cursor, books>>

\* Plausible bug: the height of the chain by now is stored.
Save_head ==
    /\ pc = "events"
    /\ todo = {}
    /\ cursor' = head
    /\ EndPass
    /\ UNCHANGED <<chain, books, broken>>

\* Plausible bug: the block after currentBlock is stored.
Save_next ==
    /\ pc = "events"
    /\ todo = {}
    /\ cursor' = end + 1
    /\ EndPass
    /\ UNCHANGED <<chain, books, broken>>

\* saveLastProcessedBlock: the block of the last event, not currentBlock.
Save ==
    /\ pc = "events"
    /\ todo = {}
    /\ cursor' = last
    /\ EndPass
    /\ UNCHANGED <<chain, books, broken>>

\* The error of the write is not looked at.
SaveFails ==
    /\ pc = "events"
    /\ todo = {}
    /\ MayBreak("save")
    /\ EndPass
    /\ Break
    /\ UNCHANGED <<chain, cursor, books>>

Crash ==
    /\ pc # "idle"
    /\ MayBreak("crash")
    /\ EndPass
    /\ Break
    /\ UNCHANGED <<chain, cursor, books>>

Handle == \E p \in Payments : HandleEdgeTask(p) \/ HandleFails(p)

Next ==
    \/ Mine
    \/ Start \/ StartUnread
    \/ Header \/ Filter \/ NoAnswer
    \/ Handle
    \/ IteratorFails \/ Save \/ SaveFails \/ Crash

Spec == Init /\ [][Next]_vars

\* The ticker fires for ever, a pass goes on, and the chain answers again and
\* again.
Fairness ==
    /\ WF_vars(Start)
    /\ SF_vars(Header)
    /\ SF_vars(Filter)
    /\ WF_vars(Handle)
    /\ WF_vars(Save)

FairSpec == Spec /\ Fairness

-----------------------------------------------------------------------------
\* Every variable has its type.
TypeOK ==
    /\ head \in Created..MaxHeight
    /\ block \in [Payments -> 0..MaxHeight]
    /\ pc \in {"idle", "header", "filter", "events"}
    /\ last \in 0..MaxHeight
    /\ end \in 0..MaxHeight
    /\ todo \subseteq Payments
    /\ cursor \in 0..MaxHeight
    /\ reward \in [Jobs -> Nat]
    /\ credit \in [Payments -> Nat]
    /\ missed \subseteq Payments
    /\ broken \in 0..MaxBroken

Settled(p) == credit[p] > 0 \/ p \in missed

\* A payment is added to its job's reward at most once more than passes were
\* broken off: a replay needs a pass that booked it and did not store its
\* block (scan_task_payment.go:105-108).
ReplayedOnlyIfBroken == \A p \in Payments : credit[p] =< 1 + broken

\* What the scanner does is what PayLedger promises: whatever is broken off,
\* no payment is passed over, none is booked out of turn, and the reward of a
\* job is made of its own payments only.
Ledger == INSTANCE PayLedger WITH
              Blocks <- 0..MaxHeight, Replays <- MaxBroken

BooksEveryPayment == Ledger!LedgerSpec

\* A payment on the chain is settled in the end, unless the chain stops
\* answering: broken passes are made up for by the next one.
EverySettled == []<>(\A p \in Payments : OnChain(p) => Settled(p))

=============================================================================
