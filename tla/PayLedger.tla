----------------------------- MODULE PayLedger -----------------------------
(***************************************************************************)
(* What an ECP provider may expect of the scanner that books the payments  *)
(* of its jobs: every payment on the chain is booked to the reward of its  *)
(* job, earlier blocks first, at least once and at most Replays times      *)
(* more; or it is missed, in its turn.                                     *)
(*                                                                         *)
(* PayScan implements this specification.                                  *)
(***************************************************************************)
EXTENDS Naturals

CONSTANTS
    Payments,   \* TransferToCPBeneficiary events
    Jobs,       \* ECP jobs
    Job,        \* the job each payment is for
    Amount,     \* what it transfers
    Blocks,     \* numbers of blocks
    Replays     \* how often a payment may be booked beyond the first time

\* What the constants of an instance are to be.
LedgerConstants ==
    /\ Job \in [Payments -> Jobs]
    /\ Amount \in [Payments -> Nat \ {0}]
    /\ Blocks \subseteq Nat
    /\ Replays \in Nat

VARIABLES
    block,      \* the block of each payment, 0 before there is one
    reward,     \* what has been booked to each job
    credit,     \* how often each payment has been booked
    missed      \* the payments that could not be booked

ledgerVars == <<block, reward, credit, missed>>

LedgerInit ==
    /\ block = [p \in Payments |-> 0]
    /\ reward = [j \in Jobs |-> 0]
    /\ credit = [p \in Payments |-> 0]
    /\ missed = {}

OnChain(p) == block[p] > 0
Settled(p) == credit[p] > 0 \/ p \in missed

\* Its turn has come: what is in earlier blocks is settled.
InTurn(p) ==
    /\ OnChain(p)
    /\ \A q \in Payments : OnChain(q) /\ block[q] < block[p] => Settled(q)

\* A new block that holds the payments S.
Pay(S, b) ==
    /\ \A p \in S : ~OnChain(p)
    /\ \A p \in Payments : block[p] < b
    /\ block' = [p \in Payments |-> IF p \in S THEN b ELSE block[p]]
    /\ UNCHANGED <<reward, credit, missed>>

Book(p) ==
    /\ InTurn(p)
    /\ credit[p] =< Replays
    /\ credit' = [credit EXCEPT ![p] = @ + 1]
    /\ reward' = [reward EXCEPT ![Job[p]] = @ + Amount[p]]
    /\ UNCHANGED <<block, missed>>

Miss(p) ==
    /\ InTurn(p)
    /\ missed' = missed \cup {p}
    /\ UNCHANGED <<block, reward, credit>>

LedgerNext ==
    \/ \E S \in SUBSET Payments, b \in Blocks : Pay(S, b)
    \/ \E p \in Payments : Book(p) \/ Miss(p)

LedgerSpec == LedgerInit /\ [][LedgerNext]_ledgerVars
=============================================================================
