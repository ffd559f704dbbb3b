----------------------------- MODULE MCSpaceJob -----------------------------
(* Instances of SpaceJob for TLC: one job of one wallet, of each kind. *)
EXTENDS SpaceJob

CONSTANTS j1, w1

MCOwner      == [j \in Jobs |-> w1]
MCDockerfile == [j \in Jobs |-> "dockerfile"]
MCYaml       == [j \in Jobs |-> "yaml"]
MCImage      == [j \in Jobs |-> "image"]
=============================================================================
