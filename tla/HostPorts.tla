----------------------------- MODULE HostPorts -----------------------------
(***************************************************************************)
(* A docker job that asks for several ports gets as many ports of the host *)
(* from the configured range: handleMultiPort takes those it can listen on *)
(* for a moment, in the order of the range, and the container binds them   *)
(* once its image is there. Nothing is held in between. When the range     *)
(* does not suffice, the loop over it runs on its end, and gin answers the *)
(* panic with 500; only when every port of it has been taken, and one more *)
(* is asked for, does the function return an error, which its caller       *)
(* overwrites.                                                             *)
(*                                                                         *)
(* Docker and the other programs of the host are modelled from what        *)
(* IsPortAvailable and ContainerCreateAndStart say of them.                *)
(***************************************************************************)
EXTENDS Naturals, FiniteSets, FiniteSetsExt

CONSTANTS
    PortJobs,   \* the jobs
    Asked,      \* ports each asks for, more than one
    PortRange,  \* the ports of the configuration
    Foreign     \* ports that other programs may have

ASSUME HostPortsAssumption ==
    /\ Asked \in [PortJobs -> Nat \ {0, 1}]
    /\ PortRange \subseteq Nat
    /\ IsFiniteSet(PortRange)

VARIABLES
    others,     \* ports other programs have
    hosted,     \* each job: where it is, its ports
    hostRaces   \* history: pairs of which one picked before the other had bound

hostVars == <<others, hosted, hostRaces>>

HostInit ==
    /\ others \in SUBSET Foreign
    /\ hosted = [j \in PortJobs |-> [at |-> "none", ports |-> {}]]
    /\ hostRaces = {}

Bound == others \cup UNION {hosted[j].ports : j \in {k \in PortJobs : hosted[k].at = "running"}}

\* Slip: only the ports of other programs are looked at.
IsPortAvailable_host(port) == port \notin others

IsPortAvailable(port) == port \notin Bound

FirstPorts(n) ==
    LET free == {port \in PortRange : IsPortAvailable(port)} IN
    {S \in kSubset(n, free) : \A p \in S, q \in free \ S : p < q}

\* handleMultiPort. The answer is given, and the goroutine starts.
HandleMultiPort(j) ==
    /\ hosted[j].at = "none"
    /\ \E S \in FirstPorts(Asked[j]) : hosted' = [hosted EXCEPT ![j] = [at |-> "picked", ports |-> S]]
    /\ hostRaces' = hostRaces \cup {{j, k} : k \in {l \in PortJobs : hosted[l].at = "picked"}}
    /\ UNCHANGED others

\* Every port of the range is free and taken: the error is lost, and the job goes
\* on without ports.
RangeTaken(j) ==
    /\ hosted[j].at = "none"
    /\ Asked[j] > Cardinality(PortRange)
    /\ \A port \in PortRange : IsPortAvailable(port)
    /\ hosted' = [hosted EXCEPT ![j].at = "picked"]
    /\ UNCHANGED <<others, hostRaces>>

\* portRange[j] beyond its end.
IndexPanics(j) ==
    /\ hosted[j].at = "none"
    /\ Cardinality({port \in PortRange : IsPortAvailable(port)}) < Asked[j]
    /\ \E port \in PortRange : ~IsPortAvailable(port)
    /\ hosted' = [hosted EXCEPT ![j].at = "over"]
    /\ UNCHANGED <<others, hostRaces>>

\* The image is there, and so are the ports.
ContainerStarts(j) ==
    /\ hosted[j].at = "picked"
    /\ hosted[j].ports \cap Bound = {}
    /\ hosted' = [hosted EXCEPT ![j].at = "running"]
    /\ UNCHANGED <<others, hostRaces>>

\* "port is already allocated"
ContainerRefused(j) ==
    /\ hosted[j].at = "picked"
    /\ hosted[j].ports \cap Bound # {}
    /\ hosted' = [hosted EXCEPT ![j].at = "refused"]
    /\ UNCHANGED <<others, hostRaces>>

\* No image, or its container ended or was removed.
ContainerOver(j) ==
    /\ hosted[j].at \in {"picked", "running"}
    /\ hosted' = [hosted EXCEPT ![j] = [at |-> "over", ports |-> {}]]
    /\ UNCHANGED <<others, hostRaces>>

HostNext ==
    \E j \in PortJobs :
        \/ HandleMultiPort(j) \/ RangeTaken(j) \/ IndexPanics(j)
        \/ ContainerStarts(j) \/ ContainerRefused(j) \/ ContainerOver(j)

HostSpec == HostInit /\ [][HostNext]_hostVars

-----------------------------------------------------------------------------

HostTypeOK ==
    /\ others \subseteq Foreign
    /\ hosted \in [PortJobs -> [at : {"none", "picked", "running", "refused", "over"},
                             ports : SUBSET PortRange]]
    /\ hostRaces \subseteq SUBSET PortJobs

\* A container is refused its ports only when another job picked before it or
\* after it and neither had bound yet; and a job runs without the ports it was
\* answered to have only when it asked for more than there are
\* (ecp_image_service.go:672-690 and 793-817).
HostPortsAsAnswered ==
    \A j \in PortJobs :
        /\ hosted[j].at = "refused" => \E pair \in hostRaces : j \in pair
        /\ hosted[j].at = "running" =>
               \/ Cardinality(hosted[j].ports) = Asked[j]
               \/ Asked[j] > Cardinality(PortRange)

=============================================================================
