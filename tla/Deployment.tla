----------------------------- MODULE Deployment -----------------------------
(***************************************************************************)
(* What a goroutine that hands a proof in relies on when it deploys a task *)
(* contract: it gets an address only for a contract of its own, and it is  *)
(* let go once the deadline has passed. Nothing is said of how many        *)
(* contracts there are: one may come up unseen, even after that.           *)
(***************************************************************************)
EXTENDS Naturals

CONSTANT Deployers      \* the goroutines

VARIABLES
    state,      \* of each: deploying, deployed or given up
    contracts,  \* contracts deployed by each
    late        \* those whose deadline has passed

deploymentVars == <<state, contracts, late>>

DeploymentInit ==
    /\ state = [d \in Deployers |-> "deploying"]
    /\ contracts = [d \in Deployers |-> 0]
    /\ late = {}

ComesUp(d) ==
    /\ contracts' = [contracts EXCEPT ![d] = @ + 1]
    /\ UNCHANGED <<state, late>>

Returns(d) ==
    /\ state[d] = "deploying"
    /\ contracts[d] > 0
    /\ state' = [state EXCEPT ![d] = "deployed"]
    /\ UNCHANGED <<contracts, late>>

GivesUp(d) ==
    /\ state[d] = "deploying"
    /\ d \in late
    /\ state' = [state EXCEPT ![d] = "gaveup"]
    /\ UNCHANGED <<contracts, late>>

BecomesLate(d) ==
    /\ late' = late \cup {d}
    /\ UNCHANGED <<state, contracts>>

DeploymentNext ==
    \E d \in Deployers :
        ComesUp(d) \/ Returns(d) \/ GivesUp(d) \/ BecomesLate(d)

DeploymentSpec == DeploymentInit /\ [][DeploymentNext]_deploymentVars

=============================================================================
