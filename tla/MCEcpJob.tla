------------------------------ MODULE MCEcpJob ------------------------------
(* Instances of EcpJob for TLC: two requests that need one GPU each.    *)
EXTENDS EcpJob

CONSTANTS r1, r2, j1, j2

MCApart   == [r \in Requests |-> IF r = r1 THEN j1 ELSE j2]
MCResent  == [r \in Requests |-> j1]
MCOneEach == [r \in Requests |-> 1]

MCApiCli  == [j \in Jobs |-> IF j = j1 THEN {"api"} ELSE {"cli"}]
MCPayment == [j \in Jobs |-> {"payment"}]
MCNobody  == [j \in Jobs |-> {}]
=============================================================================
