----------------------------- MODULE TaskDeploy -----------------------------
(***************************************************************************)
(* CreateTaskContract: goroutines that deploy task contracts from one      *)
(* account, each with its own idea of the account's nonce. A nonce is the  *)
(* latest of the chain, whatever is pending; one that is taken is counted  *)
(* up, and then the chain is not asked again until it says so. What is not *)
(* confirmed in ten seconds is sent again.                                 *)
(*                                                                         *)
(* The pool of pending transactions and the chain are modelled from the    *)
(* answers the code tells apart.                                           *)
(***************************************************************************)
EXTENDS Naturals, FiniteSets

CONSTANTS
    Deployers,      \* the goroutines
    MaxNonce,       \* bound: transactions of the account
    MaxUnseen,      \* bound: answers and confirmations a goroutine misses
    MaxDropped      \* bound: transactions the pool forgets

ASSUME TaskDeployAssumption ==
    /\ MaxNonce \in Nat
    /\ MaxUnseen \in Nat
    /\ MaxDropped \in Nat
    /\ Deployers \cap {"none", "reverted"} = {}

VARIABLES
    call,       \* each goroutine: where it is (at), its nonceX and its flag
    latest,     \* the account's nonce on the chain
    pool,       \* the goroutine whose transaction is pending, of each nonce
    mined,      \* the one whose contract came up with the nonce, or "reverted"
    overdue,    \* the goroutines whose deadline has passed
    unseen,     \* history: answers and confirmations each has missed
    dropped     \* history: transactions the pool has forgotten or replaced

deployVars == <<call, latest, pool, mined, overdue, unseen, dropped>>

Nonces == 0 .. MaxNonce
Senders == Deployers \cup {"none"}

DeployInit ==
    /\ call = [d \in Deployers |-> [at |-> "turn", nonceX |-> 0, flag |-> FALSE]]
    /\ latest = 0
    /\ pool = [n \in Nonces |-> "none"]
    /\ mined = [n \in Nonces |-> "none"]
    /\ overdue = {}
    /\ unseen = [d \in Deployers |-> 0]
    /\ dropped = 0

-----------------------------------------------------------------------------
\* The top of the loop: the nonce is read, or kept.
GetNonce(d) ==
    /\ call[d].at = "turn"
    /\ d \notin overdue
    /\ call' = [call EXCEPT ![d].at = "send",
                            ![d].nonceX = IF call[d].flag THEN @ ELSE latest]
    /\ UNCHANGED <<latest, pool, mined, overdue, unseen, dropped>>

DeployTask(d) ==
    /\ call[d].at = "send"
    /\ call[d].nonceX \in latest .. MaxNonce
    /\ pool[call[d].nonceX] = "none"
    /\ pool' = [pool EXCEPT ![call[d].nonceX] = d]
    /\ call' = [call EXCEPT ![d].at = "confirm"]
    /\ UNCHANGED <<latest, mined, overdue, unseen, dropped>>

\* Slip: two are counted up.
Underpriced_two(d) ==
    /\ call[d].at = "send"
    /\ call[d].nonceX \in latest .. MaxNonce
    /\ pool[call[d].nonceX] # "none"
    /\ call[d].nonceX + 2 \in Nonces
    /\ call' = [call EXCEPT ![d] = [at |-> "turn", nonceX |-> @.nonceX + 2, flag |-> TRUE]]
    /\ UNCHANGED <<latest, pool, mined, overdue, unseen, dropped>>

\* "replacement transaction underpriced": another is pending with this nonce.
Underpriced(d) ==
    /\ call[d].at = "send"
    /\ call[d].nonceX \in latest .. MaxNonce
    /\ pool[call[d].nonceX] # "none"
    /\ call[d].nonceX + 1 \in Nonces
    /\ call' = [call EXCEPT ![d] = [at |-> "turn", nonceX |-> @.nonceX + 1, flag |-> TRUE]]
    /\ UNCHANGED <<latest, pool, mined, overdue, unseen, dropped>>

\* The price of gas has risen by now: the pending one is replaced.
Replaces(d) ==
    /\ call[d].at = "send"
    /\ call[d].nonceX \in latest .. MaxNonce
    /\ pool[call[d].nonceX] # "none"
    /\ dropped < MaxDropped
    /\ dropped' = dropped + 1
    /\ pool' = [pool EXCEPT ![call[d].nonceX] = d]
    /\ call' = [call EXCEPT ![d].at = "confirm"]
    /\ UNCHANGED <<latest, mined, overdue, unseen>>

\* "nonce too low: next nonce ...": the chain is asked again, and if it does
\* not answer the flag goes.
TooLow(d) ==
    /\ call[d].at = "send"
    /\ call[d].nonceX < latest
    /\ \/ call' = [call EXCEPT ![d].at = "turn", ![d].nonceX = latest]
       \/ call' = [call EXCEPT ![d].at = "turn", ![d].flag = FALSE]
    /\ UNCHANGED <<latest, pool, mined, overdue, unseen, dropped>>

\* Any other error: already known, no funds, no node to ask.
SendError(d) ==
    /\ call[d].at = "send"
    /\ call' = [call EXCEPT ![d].at = "turn"]
    /\ UNCHANGED <<latest, pool, mined, overdue, unseen, dropped>>

\* The transaction is taken and the answer lost, which is an error as well.
AnswerLost(d) ==
    /\ call[d].at = "send"
    /\ call[d].nonceX \in latest .. MaxNonce
    /\ pool[call[d].nonceX] = "none"
    /\ unseen[d] < MaxUnseen
    /\ unseen' = [unseen EXCEPT ![d] = @ + 1]
    /\ pool' = [pool EXCEPT ![call[d].nonceX] = d]
    /\ call' = [call EXCEPT ![d].at = "turn"]
    /\ UNCHANGED <<latest, mined, overdue, dropped>>

\* Slip: any receipt will do.
Confirmed_any(d) ==
    /\ call[d].at = "confirm"
    /\ mined[call[d].nonceX] # "none"
    /\ call' = [call EXCEPT ![d].at = "deployed"]
    /\ UNCHANGED <<latest, pool, mined, overdue, unseen, dropped>>

\* checkTransaction sees a receipt of its transaction that says success.
Confirmed(d) ==
    /\ call[d].at = "confirm"
    /\ mined[call[d].nonceX] = d
    /\ call' = [call EXCEPT ![d].at = "deployed"]
    /\ UNCHANGED <<latest, pool, mined, overdue, unseen, dropped>>

\* Slip: not confirmed counts for nothing sent, with the flag gone.
Unconfirmed_forget(d) ==
    /\ call[d].at = "confirm"
    /\ call' = [call EXCEPT ![d].at = "turn", ![d].flag = FALSE]
    /\ UNCHANGED <<latest, pool, mined, overdue, unseen, dropped>>

\* Ten seconds, or an error of the chain, and it is sent again.
Unconfirmed(d) ==
    /\ call[d].at = "confirm"
    /\ unseen[d] < MaxUnseen
    /\ call' = [call EXCEPT ![d].at = "turn"]
    /\ unseen' = [unseen EXCEPT ![d] = @ + 1]
    /\ UNCHANGED <<latest, pool, mined, overdue, dropped>>

\* The deadline is looked at between two tries only.
CallTimesOut(d) ==
    /\ call[d].at = "turn"
    /\ d \in overdue
    /\ call' = [call EXCEPT ![d].at = "gaveup"]
    /\ UNCHANGED <<latest, pool, mined, overdue, unseen, dropped>>

-----------------------------------------------------------------------------
\* The chain takes the transaction with the account's nonce and no other.
MineNext ==
    /\ latest \in Nonces
    /\ pool[latest] # "none"
    /\ latest' = latest + 1
    /\ \E out \in {pool[latest], "reverted"} : mined' = [mined EXCEPT ![latest] = out]
    /\ pool' = [pool EXCEPT ![latest] = "none"]
    /\ UNCHANGED <<call, overdue, unseen, dropped>>

PoolForgets(n) ==
    /\ pool[n] # "none"
    /\ dropped < MaxDropped
    /\ dropped' = dropped + 1
    /\ pool' = [pool EXCEPT ![n] = "none"]
    /\ UNCHANGED <<call, latest, mined, overdue, unseen>>

TimeIsUp(d) ==
    /\ d \notin overdue
    /\ overdue' = overdue \cup {d}
    /\ UNCHANGED <<call, latest, pool, mined, unseen, dropped>>

DeployNext ==
    \/ \E d \in Deployers :
        \/ GetNonce(d) \/ DeployTask(d) \/ Underpriced(d) \/ Replaces(d) \/ TooLow(d)
        \/ SendError(d) \/ AnswerLost(d) \/ Confirmed(d) \/ Unconfirmed(d)
        \/ CallTimesOut(d) \/ TimeIsUp(d)
    \/ MineNext \/ (\E n \in Nonces : PoolForgets(n))

DeploySpec == DeployInit /\ [][DeployNext]_deployVars

-----------------------------------------------------------------------------
DeployTypeOK ==
    /\ call \in [Deployers -> [at : {"turn", "send", "confirm", "deployed", "gaveup"},
                               nonceX : Nonces \cup {MaxNonce + 1}, flag : BOOLEAN]]
    /\ latest \in 0 .. (MaxNonce + 1)
    /\ pool \in [Nonces -> Senders]
    /\ mined \in [Nonces -> Senders \cup {"reverted"}]
    /\ overdue \subseteq Deployers
    /\ unseen \in [Deployers -> 0 .. MaxUnseen]
    /\ dropped \in 0 .. MaxDropped

ContractsOf(d) == Cardinality({n \in Nonces : mined[n] = d})

\* A goroutine deploys again only when it missed an answer or a confirmation:
\* as many contracts as those, and one more, are paid for at most, whatever
\* the goroutines that share the account do (task_stub.go:91-113).
DuplicatesHaveCause == \A d \in Deployers : ContractsOf(d) =< 1 + unseen[d]

\* Goroutines that share an account leave no gap between the chain's nonce and
\* a pending one, unless the pool forgot a transaction: behind a gap nothing
\* is mined and every try ends in ten seconds (task_stub.go:94-107).
NoNonceGap ==
    dropped = 0 => \A n \in Nonces : pool[n] # "none" =>
        \A k \in latest .. n : pool[k] # "none"

StateOf(d) == IF call[d].at \in {"deployed", "gaveup"} THEN call[d].at ELSE "deploying"

\* An address is returned only for a contract of one's own that has come up,
\* and giving up waits for the deadline.
Promise == INSTANCE Deployment WITH
               state <- [d \in Deployers |-> StateOf(d)],
               contracts <- [d \in Deployers |-> ContractsOf(d)],
               late <- overdue

DeploysAsPromised == Promise!DeploymentSpec

=============================================================================
