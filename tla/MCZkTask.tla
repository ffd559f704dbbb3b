----------------------------- MODULE MCZkTask ------------------------------
(* One task: with one fault of any kind where both ways are open, and with *)
(* docker; with two proofs on Kubernetes and sent twice with docker, where *)
(* proofs go to the chain; the other routes without a fault.               *)
EXTENDS ZkTask

CONSTANTS p1, p2

MCProviders ==
    {[platform |-> "k8s", route |-> "both", requests |-> 1, proofs |-> 1, faults |-> 1],
     [platform |-> "k8s", route |-> "chain", requests |-> 1, proofs |-> 2, faults |-> 0],
     [platform |-> "docker", route |-> "chain", requests |-> 1, proofs |-> 1, faults |-> 1],
     [platform |-> "docker", route |-> "chain", requests |-> 2, proofs |-> 1, faults |-> 0]}
    \cup [platform : {"docker"}, route : {"both", "sequencer", "none"},
          requests : {1}, proofs : {1}, faults : {0}]

=============================================================================
