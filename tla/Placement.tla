----------------------------- MODULE Placement -----------------------------
(***************************************************************************)
(* Where a space goes on the cluster: the GPUs picked for it by the check  *)
(* of the resources, the node port of one that is reached by ssh, and the  *)
(* count of GPUs in gpuResourceCache, which is reported to the hub for the *)
(* time of a deployment. The handler picks, a goroutine deploys, and       *)
(* nothing is held between the two: a GPU counts as used once its pod      *)
(* runs, and a port once its service is there.                             *)
(*                                                                         *)
(* Pods, services and the log of the resource exporter are modelled from   *)
(* what the cluster answers to this code.                                  *)
(***************************************************************************)
EXTENDS Naturals, FiniteSets, FiniteSetsExt

CONSTANTS
    Spaces,     \* the jobs
    Need,       \* GPUs each asks for
    Gpus,       \* indices of the GPUs, all of one product
    NodePorts,  \* 30000..32767
    MaxRestarts \* bound: restarts of the provider

\* The ports are never all in use.
ASSUME PlacementAssumption ==
    /\ IsFiniteSet(Spaces)
    /\ Need \in [Spaces -> Nat]
    /\ Gpus \subseteq Nat
    /\ IsFiniteSet(Gpus)
    /\ NodePorts \subseteq Nat \ {0}
    /\ IsFiniteSet(NodePorts)
    /\ Cardinality(NodePorts) >= Cardinality(Spaces)
    /\ MaxRestarts \in Nat

VARIABLES
    place,      \* each space: where its deployment is (at), whether it went
                \* well (ok), its GPUs, its port, what it loaded of the cache
    pod,        \* its pod: none, pending or running
    service,    \* the port of its service, or 0
    cache,      \* gpuResourceCache
    overlapped, \* history: an update of the cache has undone another
    gpuRaces,   \* history: a pair when one picked before the other's pod ran
    portRaces,  \* history: a pair when one picked before the other's service
    restarts

placeVars == <<place, pod, service, cache, overlapped, gpuRaces, portRaces, restarts>>

Nowhere == [at |-> "none", ok |-> FALSE, gpus |-> {}, port |-> 0, loaded |-> 0]

PlaceInit ==
    /\ place = [s \in Spaces |-> Nowhere]
    /\ pod = [s \in Spaces |-> "none"]
    /\ service = [s \in Spaces |-> 0]
    /\ cache = 0
    /\ overlapped = FALSE
    /\ gpuRaces = {}
    /\ portRaces = {}
    /\ restarts = 0

Goes(s, at) == place' = [place EXCEPT ![s].at = at]

Leaves(s) == place' = [place EXCEPT ![s] = [Nowhere EXCEPT !.at = "over"]]

-----------------------------------------------------------------------------
(* The handler.                                                            *)

\* Slip: the pods of ssh spaces are not counted.
UsedGpus_plain ==
    UNION {place[s].gpus : s \in {t \in Spaces : pod[t] = "running" /\ service[t] = 0}}

\* The GPUs of the running pods, as the exporter and the pods tell.
UsedGpus == UNION {place[s].gpus : s \in {t \in Spaces : pod[t] = "running"}}

\* The first so many of them.
FirstOf(free, n) ==
    CHOOSE S \in kSubset(n, free) : \A g \in S, h \in free \ S : g < h

\* checkResourceAvailableForSpace. A space reached by ssh needs a port as well.
CheckResources(s) ==
    /\ place[s].at = "none"
    /\ Cardinality(Gpus \ UsedGpus) >= Need[s]
    /\ \E at \in {"port", "checked"} :
           place' = [place EXCEPT ![s] = [@ EXCEPT !.at = at,
                         !.gpus = FirstOf(Gpus \ UsedGpus, Need[s])]]
    /\ gpuRaces' = gpuRaces \cup
           {{s, t} : t \in {u \in Spaces : place[u].gpus # {} /\ pod[u] # "running"}}
    /\ UNCHANGED <<pod, service, cache, overlapped, portRaces, restarts>>

\* Slip: only the services of the namespace it will be in.
UsedPorts_none == {}

UsedPorts == {service[s] : s \in Spaces} \ {0}

\* CheckServiceNodePort(0): the first port no service has.
CheckServiceNodePort(s) ==
    /\ place[s].at = "port"
    /\ place' = [place EXCEPT ![s] = [@ EXCEPT !.at = "checked",
                    !.port = Min(NodePorts \ UsedPorts)]]
    /\ portRaces' = portRaces \cup
           {{s, t} : t \in {u \in Spaces : place[u].port # 0 /\ service[u] = 0}}
    /\ UNCHANGED <<pod, service, cache, overlapped, gpuRaces, restarts>>

\* Too little of something, or an error: an answer and nothing more.
Refused(s) ==
    /\ place[s].at \in {"none", "port", "checked"}
    /\ Leaves(s)
    /\ UNCHANGED <<pod, service, cache, overlapped, gpuRaces, portRaces, restarts>>

-----------------------------------------------------------------------------
(* The goroutine. Loading and storing are two calls.                       *)

LoadToSave(s) ==
    /\ place[s].at = "checked"
    /\ place' = [place EXCEPT ![s] = [@ EXCEPT !.at = "saving", !.loaded = cache]]
    /\ UNCHANGED <<pod, service, cache, overlapped, gpuRaces, portRaces, restarts>>

Store(s, count) ==
    /\ cache' = count
    /\ overlapped' = (overlapped \/ cache # place[s].loaded)

SaveGpuCache(s) ==
    /\ place[s].at = "saving"
    /\ Goes(s, "deploying")
    /\ Store(s, place[s].loaded + Need[s])
    /\ UNCHANGED <<pod, service, gpuRaces, portRaces, restarts>>

\* A space without ssh is done when its deployment is created.
CreateDeployment(s) ==
    /\ place[s].at = "deploying"
    /\ pod' = [pod EXCEPT ![s] = "pending"]
    /\ LET ssh == place[s].port # 0 IN
           place' = [place EXCEPT ![s] = [@ EXCEPT !.ok = ~ssh,
                         !.at = IF ssh THEN "waiting" ELSE "done"]]
    /\ UNCHANGED <<service, cache, overlapped, gpuRaces, portRaces, restarts>>

CreateService(s) ==
    /\ place[s].at = "waiting"
    /\ pod[s] = "running"
    /\ place[s].port \notin UsedPorts
    /\ service' = [service EXCEPT ![s] = place[s].port]
    /\ place' = [place EXCEPT ![s] = [@ EXCEPT !.at = "done", !.ok = TRUE]]
    /\ UNCHANGED <<pod, cache, overlapped, gpuRaces, portRaces, restarts>>

\* "provided port is already allocated"
PortRefused(s) ==
    /\ place[s].at = "waiting"
    /\ pod[s] = "running"
    /\ place[s].port \in UsedPorts
    /\ Goes(s, "done")
    /\ UNCHANGED <<pod, service, cache, overlapped, gpuRaces, portRaces, restarts>>

DeployFails(s) ==
    /\ place[s].at \in {"deploying", "waiting"}
    /\ Goes(s, "done")
    /\ UNCHANGED <<pod, service, cache, overlapped, gpuRaces, portRaces, restarts>>

LoadToDelete(s) ==
    /\ place[s].at = "done"
    /\ place' = [place EXCEPT ![s] = [@ EXCEPT !.at = "deleting", !.loaded = cache]]
    /\ UNCHANGED <<pod, service, cache, overlapped, gpuRaces, portRaces, restarts>>

\* Slip: a deployment that failed leaves its count.
DeleteGpuCache_ok(s) ==
    /\ place[s].at = "deleting"
    /\ IF place[s].ok
       THEN /\ Goes(s, "over")
            /\ Store(s, place[s].loaded - Need[s])
            /\ UNCHANGED <<pod, service>>
       ELSE /\ Leaves(s)
            /\ pod' = [pod EXCEPT ![s] = "none"]
            /\ UNCHANGED <<service, cache, overlapped>>
    /\ UNCHANGED <<gpuRaces, portRaces, restarts>>

\* The deferred part; what has failed is deleted from the cluster.
DeleteGpuCache(s) ==
    /\ place[s].at = "deleting"
    /\ Store(s, IF place[s].loaded < Need[s] THEN 0 ELSE place[s].loaded - Need[s])
    /\ IF place[s].ok
       THEN Goes(s, "over") /\ UNCHANGED <<pod, service>>
       ELSE /\ Leaves(s)
            /\ pod' = [pod EXCEPT ![s] = "none"]
            /\ UNCHANGED service
    /\ UNCHANGED <<gpuRaces, portRaces, restarts>>

-----------------------------------------------------------------------------
(* The cluster, and the provider's end.                                    *)

\* A pod runs when as many GPUs are left as it asks for, whichever they are.
PodRuns(s) ==
    /\ pod[s] = "pending"
    /\ MapThenSumSet(LAMBDA t : Need[t], {t \in Spaces : pod[t] = "running"}) + Need[s]
           =< Cardinality(Gpus)
    /\ pod' = [pod EXCEPT ![s] = "running"]
    /\ UNCHANGED <<place, service, cache, overlapped, gpuRaces, portRaces, restarts>>

\* The job is over, and what it has on the cluster is deleted.
SpaceEnds(s) ==
    /\ place[s].at = "over"
    /\ pod[s] # "none"
    /\ pod' = [pod EXCEPT ![s] = "none"]
    /\ service' = [service EXCEPT ![s] = 0]
    /\ Leaves(s)
    /\ UNCHANGED <<cache, overlapped, gpuRaces, portRaces, restarts>>

\* The cache and the goroutines are gone, the pods are not.
Restart ==
    /\ restarts < MaxRestarts
    /\ restarts' = restarts + 1
    /\ cache' = 0
    /\ place' = [s \in Spaces |->
            IF place[s].at = "none" THEN Nowhere
            ELSE IF pod[s] = "none" THEN [Nowhere EXCEPT !.at = "over"]
            ELSE [place[s] EXCEPT !.at = "over"]]
    /\ overlapped' = FALSE
    /\ UNCHANGED <<pod, service, gpuRaces, portRaces>>

PlaceNext ==
    \/ \E s \in Spaces :
        \/ CheckResources(s) \/ CheckServiceNodePort(s) \/ Refused(s)
        \/ LoadToSave(s) \/ SaveGpuCache(s) \/ CreateDeployment(s)
        \/ CreateService(s) \/ PortRefused(s) \/ DeployFails(s)
        \/ LoadToDelete(s) \/ DeleteGpuCache(s) \/ PodRuns(s) \/ SpaceEnds(s)
    \/ Restart

PlaceSpec == PlaceInit /\ [][PlaceNext]_placeVars

-----------------------------------------------------------------------------
PlaceTypeOK ==
    /\ place \in [Spaces -> [at : {"none", "port", "checked", "saving", "deploying",
                                   "waiting", "done", "deleting", "over"},
                             ok : BOOLEAN, gpus : SUBSET Gpus,
                             port : NodePorts \cup {0}, loaded : Nat]]
    /\ pod \in [Spaces -> {"none", "pending", "running"}]
    /\ service \in [Spaces -> NodePorts \cup {0}]
    /\ cache \in Nat
    /\ overlapped \in BOOLEAN
    /\ gpuRaces \subseteq SUBSET Spaces
    /\ portRaces \subseteq SUBSET Spaces
    /\ restarts \in 0 .. MaxRestarts

\* Two running spaces are given the same GPU only when one was checked before
\* the other's pod ran, be it minutes later; the GPUs of a space that has
\* ended or failed are free for the next one at once, and not before
\* (space_service.go:1849-1925).
GpuSharedOnlyByRace ==
    \A s \in Spaces : \A t \in Spaces \ {s} :
        /\ pod[s] = "running" /\ pod[t] = "running"
        /\ place[s].gpus \cap place[t].gpus # {}
        => {s, t} \in gpuRaces

\* A service is refused its port, after the pod has been started for it and
\* the hub was told of the port, only when two picked it at a time
\* (k8s_service.go:367-401, space_service.go:266-273).
PortRefusedOnlyByRace ==
    \A s \in Spaces : \A t \in Spaces \ {s} :
        place[s].at = "waiting" /\ service[t] # 0 /\ place[s].port = service[t]
        => {s, t} \in portRaces

Counted == {s \in Spaces : place[s].at \in {"deploying", "waiting", "done", "deleting"}}

\* The cache counts the GPUs of the deployments under way, and nothing is left
\* of one that is over, however it ended, unless two updates overlapped
\* (space_service.go:1341-1352, 2561-2581).
CacheCountsDeploying ==
    ~overlapped => cache = MapThenSumSet(LAMBDA s : Need[s], Counted)

=============================================================================
