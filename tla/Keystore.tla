------------------------------ MODULE Keystore ------------------------------
(***************************************************************************)
(* The keys are in one leveldb that a process, and in it one caller at a   *)
(* time, can have open. SetupWallet opens it, and tries again every second *)
(* for ten seconds; FindKey reads one key and closes it. Between the two   *)
(* submitUBIProof asks for its worker address, and when that fails it      *)
(* returns with the keys still open. The sequencer's token is asked for    *)
(* with a signature, so whoever needs a token needs the keys.              *)
(*                                                                         *)
(* The sequencer and the operator at the prompt of `wallet import` are     *)
(* modelled from what this code does with them.                            *)
(***************************************************************************)
EXTENDS Naturals

CONSTANTS
    Provers,    \* goroutines that hand in a proof
    Pollers,    \* users of the sequencer: crons, goroutines that send a proof
    Imports,    \* runs of `wallet import`, another process
    MaxTries,   \* tries of SetupWallet (ten)
    MaxImports, \* bound: times the operator imports a key
    MaxRenewals,    \* bound: tokens the sequencer ceases to accept
    MaxReboots  \* bound: restarts of the daemon

Users == Provers \cup Pollers \cup Imports

Daemon == Provers \cup Pollers

ASSUME KeystoreAssumption ==
    /\ "nobody" \notin Users
    /\ "leaked" \notin Users
    /\ {MaxTries, MaxImports, MaxRenewals, MaxReboots} \subseteq Nat

VARIABLES
    opener,     \* who has the keys open, "leaked" when its goroutine is gone
    user,       \* each user: where it is, its tries
    tokenCache, \* the token: none, one the sequencer takes, or an old one
    imports,
    renewals,
    reboots

keyVars == <<opener, user, tokenCache, imports, renewals, reboots>>

Away == [at |-> "none", tries |-> 0]

KeyInit ==
    /\ opener = "nobody"
    /\ user = [u \in Users |-> Away]
    /\ tokenCache = "none"
    /\ imports = 0
    /\ renewals = 0
    /\ reboots = 0

Leave(u) == user' = [user EXCEPT ![u] = Away]

-----------------------------------------------------------------------------
(* Who wants the keys.                                                     *)

\* A proof is ready, or the operator imports a key.
NeedsKey(u) ==
    /\ user[u].at = "none"
    /\ \/ u \in Provers /\ UNCHANGED imports
       \/ u \in Imports /\ imports < MaxImports /\ imports' = imports + 1
    /\ user' = [user EXCEPT ![u].at = "setup"]
    /\ UNCHANGED <<opener, tokenCache, renewals, reboots>>

\* Sequencer.GetToken, when there is no token before a call or the sequencer did
\* not answer it with 200. The account and the height are asked of the chain first;
\* an error there, as any other, is for the next call to mend.
GetToken(u) ==
    /\ u \in Pollers
    /\ user[u].at = "none"
    /\ tokenCache # "good"
    /\ user' = [user EXCEPT ![u].at = "setup"]
    /\ UNCHANGED <<opener, tokenCache, imports, renewals, reboots>>

-----------------------------------------------------------------------------
(* The keys.                                                               *)

SetupWallet(u) ==
    /\ user[u].at = "setup"
    /\ opener = "nobody"
    /\ opener' = u
    /\ user' = [user EXCEPT ![u] = [at |-> "open", tries |-> 0]]
    /\ UNCHANGED <<tokenCache, imports, renewals, reboots>>

\* Somebody has them open: a second later again, and in the end an error to the
\* caller. What the daemon does with them takes no second.
SetupWalletAgain(u) ==
    /\ user[u].at = "setup"
    /\ opener \in Imports \cup {"leaked"}
    /\ \/ user[u].tries < MaxTries /\ user' = [user EXCEPT ![u].tries = @ + 1]
       \/ user[u].tries >= MaxTries /\ Leave(u)
    /\ UNCHANGED <<opener, tokenCache, imports, renewals, reboots>>

\* GetOwnerAddressAndWorkerAddress answers, from the row or from the chain.
GetWorkerAddress(u) ==
    /\ u \in Provers
    /\ user[u].at = "open"
    /\ user' = [user EXCEPT ![u].at = "find"]
    /\ UNCHANGED <<opener, tokenCache, imports, renewals, reboots>>

\* Or it does not: the goroutine returns and the keys stay open.
GetWorkerAddressFails(u) ==
    /\ u \in Provers
    /\ user[u].at = "open"
    /\ opener' = "leaked"
    /\ Leave(u)
    /\ UNCHANGED <<tokenCache, imports, renewals, reboots>>

\* Slip: a key that is not there is answered before the keys are closed.
FindKey_defer(u) ==
    /\ \/ u \in Provers /\ user[u].at = "find"
       \/ u \in Pollers /\ user[u].at = "open"
    /\ \/ u \in Pollers /\ opener' = "nobody" /\ user' = [user EXCEPT ![u].at = "signed"]
       \/ u \in Provers /\ opener' \in {"nobody", opener} /\ Leave(u)
    /\ UNCHANGED <<tokenCache, imports, renewals, reboots>>

\* Found or not, they are closed. A prover goes on with its key or without, which
\* is in ZkTask; the worker's key is there for a token.
FindKey(u) ==
    /\ \/ u \in Provers /\ user[u].at = "find"
       \/ u \in Pollers /\ user[u].at = "open"
    /\ opener' = "nobody"
    /\ \/ u \in Pollers /\ user' = [user EXCEPT ![u].at = "signed"]
       \/ u \in Provers /\ Leave(u)
    /\ UNCHANGED <<tokenCache, imports, renewals, reboots>>

\* The prompt of the command ends, with a key or without.
WalletImport(u) ==
    /\ u \in Imports
    /\ user[u].at = "open"
    /\ opener' = "nobody"
    /\ Leave(u)
    /\ UNCHANGED <<tokenCache, imports, renewals, reboots>>

-----------------------------------------------------------------------------
(* The token.                                                              *)

PostToken(u) ==
    /\ user[u].at = "signed"
    /\ tokenCache' = "good"
    /\ Leave(u)
    /\ UNCHANGED <<opener, imports, renewals, reboots>>

PostTokenFails(u) ==
    /\ user[u].at = "signed"
    /\ Leave(u)
    /\ UNCHANGED <<opener, tokenCache, imports, renewals, reboots>>

\* The sequencer takes it no longer.
TokenExpires ==
    /\ tokenCache = "good"
    /\ renewals < MaxRenewals
    /\ renewals' = renewals + 1
    /\ tokenCache' = "old"
    /\ UNCHANGED <<opener, user, imports, reboots>>

\* The daemon ends and starts again: what it had open is closed.
Reboot ==
    /\ reboots < MaxReboots
    /\ reboots' = reboots + 1
    /\ opener' = IF opener \in Imports THEN opener ELSE "nobody"
    /\ user' = [u \in Users |-> IF u \in Imports THEN user[u] ELSE Away]
    /\ tokenCache' = "none"
    /\ UNCHANGED <<imports, renewals>>

KeyNext ==
    \/ \E u \in Users :
           \/ NeedsKey(u) \/ GetToken(u) \/ SetupWallet(u) \/ SetupWalletAgain(u)
           \/ GetWorkerAddress(u) \/ GetWorkerAddressFails(u) \/ FindKey(u)
           \/ WalletImport(u) \/ PostToken(u) \/ PostTokenFails(u)
    \/ TokenExpires
    \/ Reboot

KeySpec == KeyInit /\ [][KeyNext]_keyVars

-----------------------------------------------------------------------------

KeyTypeOK ==
    /\ opener \in Users \cup {"nobody", "leaked"}
    /\ user \in [Users -> [at : {"none", "setup", "open", "find", "signed"}, tries : 0 .. MaxTries]]
    /\ tokenCache \in {"none", "good", "old"}
    /\ imports \in 0 .. MaxImports
    /\ renewals \in 0 .. MaxRenewals
    /\ reboots \in 0 .. MaxReboots

\* The token is good, or somebody left the keys open.
HasToken == tokenCache = "good" \/ opener = "leaked"

\* A provider without a token the sequencer takes gets one, although everybody
\* who signs waits for the same keys and gives up after a while; only keys that a
\* prover left open keep it from that, until the daemon is restarted
\* (ubi_service.go:2013-2017, wallet.go:44-69, sequence_service.go:59-110).
TokenRenewed == []<>HasToken

=============================================================================
