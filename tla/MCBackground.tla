---------------------------- MODULE MCBackground ----------------------------
(* Ten parts of the program that share no state, each by itself: a        *)
(* behaviour is one of the part it begins with, and the states of the      *)
(* others stay the initial ones.                                           *)
EXTENDS PayScan, RewardScan, MiningTask, TaskDeploy, WsLog, Placement,
        HostPorts, Keystore, CpInfo, Collateral, TLC

CONSTANTS p1, p2, p3, j1, j2, r1, r2, r3, t1, t2, x1, x2, u1, u2, d1, d2, s1, s2,
          h1, h2, h3, c1, c2, a1, a2, a3

VARIABLE part   \* the part that runs

\* Three payments for two jobs, up to three blocks after the contract's.
MCJob    == (p1 :> j1) @@ (p2 :> j1) @@ (p3 :> j2)
MCAmount == (p1 :> 1) @@ (p2 :> 2) @@ (p3 :> 1)

\* One transaction releases rewards of both tasks, another one of one more.
MCTaskOf   == (r1 :> t1) @@ (r2 :> t1) @@ (r3 :> t2)
MCTxOf     == (r1 :> x1) @@ (r2 :> x2) @@ (r3 :> x1)
MCLastTask == (x1 :> t2) @@ (x2 :> t1)

\* Two tasks at a time; one with a crash and a row that grows old.
MCQuiet == [where |-> "k8s", tasks |-> {u1, u2}, known |-> {u1}, crashes |-> 0, aging |-> {}]
MCHosts == {MCQuiet} \cup
           [where : {"k8s", "docker"}, tasks : {{u1}}, known : {{u1}}, crashes : {1}, aging : {{2}}]

\* One GPU for one space, two for the other.
MCNeed == (s1 :> 1) @@ (s2 :> 2)

\* Two jobs that fit into the range of ports one after another, and one that does
\* not.
MCAsked == (h1 :> 2) @@ (h2 :> 2) @@ (h3 :> 4)

\* Two changes of the worker, or one while the owner changes.
MCAccount == [owner |-> "o0", worker |-> "w0"]
MCChanges ==
    (c1 :> {[field |-> "worker", value |-> "w1"]}) @@
    (c2 :> {[field |-> "worker", value |-> "w2"], [field |-> "owner", value |-> "o1"]})

MCAmounts == (a1 :> 1) @@ (a2 :> 2) @@ (a3 :> 1)

daemonVars == <<vars, scanVars, miningVars, deployVars, wsVars, placeVars>>
nodeVars == <<hostVars, keyVars, infoVars, collVars>>
allVars == <<part, daemonVars, nodeVars>>

BackgroundInit ==
    /\ part \in {"pay", "reward", "mining", "deploy", "log", "place",
                "ports", "keys", "info", "collateral"}
    /\ Init /\ ScanInit /\ MiningInit /\ DeployInit /\ WsInit /\ PlaceInit
    /\ HostInit /\ KeyInit /\ InfoInit /\ CollInit
    /\ part = "mining" \/ host = MCQuiet
    /\ part = "log" \/ lines = 0
    /\ part = "ports" \/ others = {}
    /\ part = "info" \/ copy = <<>>

\* One part runs, and the others' variables stay.
OnlyPay ==
    part = "pay" /\ UNCHANGED <<part, scanVars, miningVars, deployVars, wsVars, placeVars, nodeVars>>
OnlyReward ==
    part = "reward" /\ UNCHANGED <<part, vars, miningVars, deployVars, wsVars, placeVars, nodeVars>>
OnlyMining ==
    part = "mining" /\ UNCHANGED <<part, vars, scanVars, deployVars, wsVars, placeVars, nodeVars>>
OnlyDeploy ==
    part = "deploy" /\ UNCHANGED <<part, vars, scanVars, miningVars, wsVars, placeVars, nodeVars>>
OnlyLog ==
    part = "log" /\ UNCHANGED <<part, vars, scanVars, miningVars, deployVars, placeVars, nodeVars>>
OnlyPlace ==
    part = "place" /\ UNCHANGED <<part, vars, scanVars, miningVars, deployVars, wsVars, nodeVars>>
OnlyPorts ==
    part = "ports" /\ UNCHANGED <<part, daemonVars, keyVars, infoVars, collVars>>
OnlyKeys ==
    part = "keys" /\ UNCHANGED <<part, daemonVars, hostVars, infoVars, collVars>>
OnlyInfo ==
    part = "info" /\ UNCHANGED <<part, daemonVars, hostVars, keyVars, collVars>>
OnlyCollateral ==
    part = "collateral" /\ UNCHANGED <<part, daemonVars, hostVars, keyVars, infoVars>>

BackgroundNext ==
    \/ OnlyPay /\ Next
    \/ OnlyReward /\ ScanNext
    \/ OnlyMining /\ MiningNext
    \/ OnlyDeploy /\ DeployNext
    \/ OnlyLog /\ WsNext
    \/ OnlyPlace /\ PlaceNext
    \/ OnlyPorts /\ HostNext
    \/ OnlyKeys /\ KeyNext
    \/ OnlyInfo /\ InfoNext
    \/ OnlyCollateral /\ CollNext

\* The fairness of each part while it is the one that runs. A condition of each
\* part is taken into one: at most one of them is enabled in a behaviour.
FirstStrong == \/ OnlyPay /\ Header
               \/ OnlyReward /\ Height
               \/ OnlyLog /\ SendLine
               \/ OnlyKeys /\ \E u \in Pollers : SetupWallet(u)
SecondStrong == \/ OnlyPay /\ Filter
                \/ OnlyReward /\ FilterRewardReleased
                \/ OnlyLog /\ TickerStops
                \/ OnlyKeys /\ \E u \in Pollers : PostToken(u)
FirstWeak == \/ OnlyPay /\ Start
             \/ OnlyReward /\ WakeUp
             \/ OnlyMining /\ (PollAsks \/ PollWrites)
             \/ OnlyLog /\ (ScanLine \/ ScanStops \/ LogEnds)
             \/ OnlyKeys /\ \E u \in Pollers : GetToken(u)
SecondWeak == \/ OnlyPay /\ Handle
              \/ OnlyReward /\ HandleEvent
              \/ OnlyMining /\ SettleSaves
              \/ OnlyLog /\ SendPing
              \/ OnlyKeys /\ \E u \in Users : GetWorkerAddress(u) \/ FindKey(u) \/ WalletImport(u)
ThirdWeak == \/ OnlyPay /\ Save
             \/ OnlyReward /\ SaveChunk
             \/ OnlyMining /\ \E u \in Uuids : MinerSaves(u)
             \/ OnlyLog /\ conn # "lost" /\ Writer
FourthWeak == OnlyLog /\ Reader

BackgroundSpec ==
    /\ BackgroundInit /\ [][BackgroundNext]_allVars
    /\ SF_allVars(FirstStrong) /\ SF_allVars(SecondStrong)
    /\ WF_allVars(FirstWeak) /\ WF_allVars(SecondWeak)
    /\ WF_allVars(ThirdWeak) /\ WF_allVars(FourthWeak)

\* Every variable of each part has its type.
BackgroundTypeOK ==
    /\ TypeOK /\ ScanTypeOK /\ MiningTypeOK /\ DeployTypeOK /\ WsTypeOK /\ PlaceTypeOK
    /\ HostTypeOK /\ KeyTypeOK /\ InfoTypeOK /\ CollTypeOK

\* GoroutinesEnd, of the behaviours in which a log is shown.
LogGoroutinesEnd == <>[](part = "log" => GoroutinesOver)

\* TokenRenewed, of the behaviours in which keys are used.
KeysGiveToken == []<>(part = "keys" => HasToken)

\* Both parts that give out ports: those of the cluster and those of a docker host.
PortsAsAnswered == PortRefusedOnlyByRace /\ HostPortsAsAnswered

=============================================================================
