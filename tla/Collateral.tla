----------------------------- MODULE Collateral -----------------------------
(***************************************************************************)
(* `collateral add`: the owner allows the collateral contract to take an   *)
(* amount of his tokens, waits up to three minutes for that transaction,   *)
(* and deposits the amount in a second one that nobody waits for. Commands *)
(* may be given again after an error, or from two terminals at a time.     *)
(*                                                                         *)
(* The chain and the two contracts are modelled from what this code asks   *)
(* of them: an approval sets the allowance, a deposit uses it up, the      *)
(* transactions of one wallet are mined in their order, and one that would *)
(* fail at the latest block is not even sent.                              *)
(***************************************************************************)
EXTENDS Naturals, Sequences, SequencesExt

CONSTANTS
    Adds,       \* runs of `collateral add` by one wallet
    AddAmount,  \* what each adds
    MaxLosses   \* bound: transactions dropped or refused, answers lost

ASSUME CollateralAssumption ==
    /\ AddAmount \in [Adds -> Nat \ {0}]
    /\ MaxLosses \in Nat

VARIABLES
    allowance,  \* what the contract may take
    deposited,  \* the adds whose deposit is mined
    queue,      \* pending transactions, in the order sent
    add,        \* each command: where it is and the fate of its approval
    met,        \* history: those under way while another was
    unlucky,    \* history: those a transaction of which was dropped or refused
    answerLost, \* history: those whose deposit was sent with the answer lost
    losses

collVars == <<allowance, deposited, queue, add, met, unlucky, answerLost, losses>>

CollInit ==
    /\ allowance = 0
    /\ deposited = {}
    /\ queue = <<>>
    /\ add = [a \in Adds |-> [at |-> "none", approval |-> "none"]]
    /\ met = {}
    /\ unlucky = {}
    /\ answerLost = {}
    /\ losses = 0

Loss ==
    /\ losses < MaxLosses
    /\ losses' = losses + 1

UnderWay == {a \in Adds : add[a].at \in {"waiting", "approved"}}

Goto(a, at) == add' = [add EXCEPT ![a].at = at]

-----------------------------------------------------------------------------
(* The command.                                                            *)

\* Slip: an allowance for the next time as well.
Approve_more(a) ==
    /\ add[a].at = "none"
    /\ add' = [add EXCEPT ![a] = [at |-> "waiting", approval |-> "pending"]]
    /\ queue' = Append(queue, [add |-> a, call |-> "approve", amount |-> AddAmount[a] + 1])
    /\ met' = IF UnderWay = {} THEN met ELSE met \cup UnderWay \cup {a}
    /\ UNCHANGED <<allowance, deposited, unlucky, answerLost, losses>>

Approve(a) ==
    /\ add[a].at = "none"
    /\ add' = [add EXCEPT ![a] = [at |-> "waiting", approval |-> "pending"]]
    /\ queue' = Append(queue, [add |-> a, call |-> "approve", amount |-> AddAmount[a]])
    /\ met' = IF UnderWay = {} THEN met ELSE met \cup UnderWay \cup {a}
    /\ UNCHANGED <<allowance, deposited, unlucky, answerLost, losses>>

\* A receipt that says the approval is mined.
Approved(a) ==
    /\ add[a].at = "waiting"
    /\ add[a].approval = "mined"
    /\ Goto(a, "approved")
    /\ UNCHANGED <<allowance, deposited, queue, met, unlucky, answerLost, losses>>

\* A receipt that says it failed, an error of the node that is not NotFound, or
\* three minutes: the command ends, and its approval may yet be mined.
ApproveEnds(a) ==
    /\ add[a].at = "waiting"
    /\ Goto(a, "failed")
    /\ UNCHANGED <<allowance, deposited, queue, met, unlucky, answerLost, losses>>

\* The hash of the deposit is what the operator is told.
Deposit(a) ==
    /\ add[a].at = "approved"
    /\ allowance >= AddAmount[a]
    /\ queue' = Append(queue, [add |-> a, call |-> "deposit", amount |-> AddAmount[a]])
    /\ Goto(a, "told")
    /\ UNCHANGED <<allowance, deposited, met, unlucky, answerLost, losses>>

\* The node takes the deposit and its answer is lost.
DepositUnseen(a) ==
    /\ add[a].at = "approved"
    /\ allowance >= AddAmount[a]
    /\ queue' = Append(queue, [add |-> a, call |-> "deposit", amount |-> AddAmount[a]])
    /\ answerLost' = answerLost \cup {a}
    /\ Goto(a, "failed")
    /\ Loss
    /\ UNCHANGED <<allowance, deposited, met, unlucky>>

\* It would fail, or the node or the account could not be asked.
DepositFails(a) ==
    /\ add[a].at = "approved"
    /\ Goto(a, "failed")
    /\ UNCHANGED <<allowance, deposited, queue, met, unlucky, answerLost, losses>>

-----------------------------------------------------------------------------
(* The chain.                                                              *)

MineApproval ==
    /\ queue # <<>>
    /\ Head(queue).call = "approve"
    /\ queue' = Tail(queue)
    /\ allowance' = Head(queue).amount
    /\ add' = [add EXCEPT ![Head(queue).add].approval = "mined"]
    /\ UNCHANGED <<deposited, met, unlucky, answerLost, losses>>

MineDeposit ==
    /\ queue # <<>>
    /\ Head(queue).call = "deposit"
    /\ queue' = Tail(queue)
    /\ \/ /\ allowance >= Head(queue).amount
          /\ allowance' = allowance - Head(queue).amount
          /\ deposited' = deposited \cup {Head(queue).add}
       \/ /\ allowance < Head(queue).amount
          /\ UNCHANGED <<allowance, deposited>>
    /\ UNCHANGED <<add, met, unlucky, answerLost, losses>>

\* Dropped by the node, or mined as failed for want of gas.
LoseTransaction ==
    /\ \E i \in DOMAIN queue :
           /\ queue' = RemoveAt(queue, i)
           /\ unlucky' = unlucky \cup {queue[i].add}
           /\ add' = [add EXCEPT ![queue[i].add].approval =
                         IF queue[i].call = "approve" THEN "lost" ELSE @]
    /\ Loss
    /\ UNCHANGED <<allowance, deposited, met, answerLost>>

CollNext ==
    \/ \E a \in Adds :
           \/ Approve(a) \/ Approved(a) \/ ApproveEnds(a)
           \/ Deposit(a) \/ DepositUnseen(a) \/ DepositFails(a)
    \/ MineApproval \/ MineDeposit \/ LoseTransaction

CollSpec == CollInit /\ [][CollNext]_collVars

-----------------------------------------------------------------------------

CollTypeOK ==
    /\ allowance \in Nat
    /\ {deposited, met, unlucky, answerLost} \subseteq SUBSET Adds
    /\ queue \in Seq([add : Adds, call : {"approve", "deposit"}, amount : Nat])
    /\ add \in [Adds -> [at : {"none", "waiting", "approved", "told", "failed"},
                         approval : {"none", "pending", "mined", "lost"}]]
    /\ losses \in 0 .. MaxLosses

\* When all is mined, what the operator was told of a deposit is so, and the
\* contract may take no more of his tokens than what he was told had failed: a
\* command given alone deposits what it says it did, and leaves an allowance only
\* when it ended with an error (wallet.go:296-400).
AddsAsTold ==
    queue = <<>> =>
        /\ \A a \in Adds : add[a].at = "told" /\ a \notin met \cup unlucky => a \in deposited
        /\ \A a \in Adds : add[a].at = "failed" /\ a \in deposited => a \in answerLost
        /\ allowance > 0 =>
               \E a \in Adds : \/ a \in met \cup unlucky
                               \/ add[a].at \in {"waiting", "approved", "failed"}

=============================================================================
