------------------------------- MODULE CpInfo -------------------------------
(***************************************************************************)
(* The provider's account on the chain and its copy in t_cp_info, which    *)
(* tells the daemon with which key to sign. The `account change...`        *)
(* commands send a transaction and update the copy without waiting for it; *)
(* SyncCpAccountInfo, at the start of the daemon and where the copy is     *)
(* missing, replaces the copy by what it has read from the chain.          *)
(*                                                                         *)
(* The fields are the addresses. Task types and multi-addresses are read   *)
(* from the chain by those who need them, and their columns are made by a  *)
(* hook of gorm, which Updates does not call with the new values.          *)
(*                                                                         *)
(* The chain is modelled from what this code asks of it: transactions of   *)
(* one sender are mined in their order, one of a sender who is not the     *)
(* owner is refused, and a pending one may be dropped.                     *)
(***************************************************************************)
EXTENDS Naturals, Sequences, SequencesExt

CONSTANTS
    Account0,   \* the account at first: its addresses
    Commands,   \* runs of `account change...`, all by the first owner
    Changes,    \* what each may ask for: a field and its new value
    Syncs,      \* calls of SyncCpAccountInfo
    MaxMishaps  \* bound: writes that fail and transactions that are dropped

ASSUME CpInfoAssumption ==
    /\ Account0 \in [DOMAIN Account0 -> STRING]
    /\ {"owner", "worker"} \subseteq DOMAIN Account0
    /\ Changes \in [Commands -> SUBSET [field : DOMAIN Account0, value : STRING]]
    /\ MaxMishaps \in Nat

VARIABLES
    account,    \* the account on the chain
    pending,    \* commands whose transaction is pending, in the order sent
    copy,       \* rows of t_cp_info for the account: the first one is read
    cmd,        \* each command: where it is, its change, its transaction's fate
    sync,       \* each sync: where it is, what it has read
    blame,      \* history: why the copy of a field may be wrong
    mishaps

infoVars == <<account, pending, copy, cmd, sync, blame, mishaps>>

Fields == DOMAIN Account0

NoChange == [field |-> "none", value |-> "none"]

InfoInit ==
    /\ account = Account0
    /\ pending = <<>>
    /\ copy \in {<<>>, <<Account0>>}
    /\ cmd = [c \in Commands |-> [at |-> "none", change |-> NoChange, tx |-> "none", met |-> FALSE]]
    /\ sync = [s \in Syncs |-> [at |-> "none", read |-> Account0, met |-> FALSE, kept |-> FALSE]]
    /\ blame = [f \in Fields |-> {}]
    /\ mishaps = 0

Mishap ==
    /\ mishaps < MaxMishaps
    /\ mishaps' = mishaps + 1

PendingFor(f) == \E i \in DOMAIN pending : cmd[pending[i]].change.field = f

OwnerIsFirst == account["owner"] = Account0["owner"]

-----------------------------------------------------------------------------
(* The commands.                                                           *)

\* getVerifyAccountClient, and again the estimate of the gas: only the owner gets
\* a transaction to the node. Commands about one field that are under way at the
\* same time have met.
SendChange(c) ==
    /\ cmd[c].at = "none"
    /\ OwnerIsFirst
    /\ pending' = Append(pending, c)
    /\ \E change \in Changes[c] :
           LET others == {d \in Commands : cmd[d].at = "sent" /\ cmd[d].change.field = change.field}
           IN  cmd' = [d \in Commands |->
                   IF d = c THEN [at |-> "sent", change |-> change, tx |-> "pending",
                                  met |-> others # {}]
                   ELSE [cmd[d] EXCEPT !.met = @ \/ d \in others]]
    /\ UNCHANGED <<account, copy, sync, blame, mishaps>>

\* UpdateCpInfoByNodeId: every row, and none is no error.
UpdateCpInfo(c) ==
    LET change == cmd[c].change IN
    /\ cmd[c].at = "sent"
    /\ copy' = [i \in DOMAIN copy |-> [copy[i] EXCEPT ![change.field] = change.value]]
    /\ blame' = [blame EXCEPT ![change.field] =
                    {cause \in {"crossed"} : cmd[c].met} \cup {cause \in {"undone"} : cmd[c].tx = cause}]
    /\ cmd' = [cmd EXCEPT ![c].at = "over"]
    /\ UNCHANGED <<account, pending, sync, mishaps>>

UpdateCpInfoFails(c) ==
    /\ cmd[c].at = "sent"
    /\ Mishap
    /\ blame' = [blame EXCEPT ![cmd[c].change.field] = @ \cup {"unsaved"}]
    /\ cmd' = [cmd EXCEPT ![c].at = "over"]
    /\ UNCHANGED <<account, pending, copy, sync>>

-----------------------------------------------------------------------------
(* SyncCpAccountInfo. An error of the chain ends it before it has changed  *)
(* anything.                                                               *)

\* At the start of the daemon, or in GetOwnerAddressAndWorkerAddress when there
\* is no copy. Syncs that are under way at the same time have met.
ReadAccount(s) ==
    /\ sync[s].at = "none"
    /\ s = "start" \/ copy = <<>>
    /\ LET others == {t \in Syncs : sync[t].at \in {"read", "deleted"}}
       IN  sync' = [t \in Syncs |->
               IF t = s THEN [at |-> "read", read |-> account, met |-> others # {}, kept |-> FALSE]
               ELSE [sync[t] EXCEPT !.met = @ \/ t \in others]]
    /\ UNCHANGED <<account, pending, copy, cmd, blame, mishaps>>

\* Slip: the new row is put beside the old ones.
DeleteRows_not(s) ==
    /\ sync[s].at = "read"
    /\ copy' = copy
    /\ sync' = [sync EXCEPT ![s].at = "deleted"]
    /\ UNCHANGED <<account, pending, cmd, blame, mishaps>>

DeleteRows(s) ==
    /\ sync[s].at = "read"
    /\ copy' = <<>>
    /\ sync' = [sync EXCEPT ![s].at = "deleted"]
    /\ UNCHANGED <<account, pending, cmd, blame, mishaps>>

\* Nobody looks at the error of the deletion.
DeleteRowsFails(s) ==
    /\ sync[s].at = "read"
    /\ Mishap
    /\ sync' = [sync EXCEPT ![s] = [@ EXCEPT !.at = "deleted", !.kept = TRUE]]
    /\ UNCHANGED <<account, pending, copy, cmd, blame>>

InsertRow(s) ==
    /\ sync[s].at = "deleted"
    /\ copy' = Append(copy, sync[s].read)
    /\ blame' = [f \in Fields |->
           (IF sync[s].kept THEN blame[f] \cup {"kept"} ELSE {})
               \cup {cause \in {"met"} : sync[s].met}
               \cup {cause \in {"stale"} : PendingFor(f) \/ sync[s].read[f] # account[f]}]
    /\ sync' = [sync EXCEPT ![s].at = "over"]
    /\ UNCHANGED <<account, pending, cmd, mishaps>>

InsertRowFails(s) ==
    /\ sync[s].at = "deleted"
    /\ Mishap
    /\ sync' = [sync EXCEPT ![s].at = "over"]
    /\ UNCHANGED <<account, pending, copy, cmd, blame>>

-----------------------------------------------------------------------------
(* The chain.                                                              *)

Undo(c) ==
    /\ cmd' = [cmd EXCEPT ![c].tx = "undone"]
    /\ blame' = [blame EXCEPT ![cmd[c].change.field] =
                    @ \cup {cause \in {"undone"} : cmd[c].at = "over"}]

MineChange ==
    /\ pending # <<>>
    /\ pending' = Tail(pending)
    /\ LET c == Head(pending) IN
           \/ /\ OwnerIsFirst
              /\ account' = [account EXCEPT ![cmd[c].change.field] = cmd[c].change.value]
              /\ cmd' = [cmd EXCEPT ![c].tx = "mined"]
              /\ UNCHANGED blame
           \/ ~OwnerIsFirst /\ Undo(c) /\ UNCHANGED account
    /\ UNCHANGED <<copy, sync, mishaps>>

DropChange ==
    /\ \E i \in DOMAIN pending : pending' = RemoveAt(pending, i) /\ Undo(pending[i])
    /\ Mishap
    /\ UNCHANGED <<account, copy, sync>>

InfoNext ==
    \/ \E c \in Commands :
           SendChange(c) \/ UpdateCpInfo(c) \/ UpdateCpInfoFails(c)
    \/ \E s \in Syncs :
           \/ ReadAccount(s) \/ DeleteRows(s) \/ DeleteRowsFails(s)
           \/ InsertRow(s) \/ InsertRowFails(s)
    \/ MineChange
    \/ DropChange

InfoSpec == InfoInit /\ [][InfoNext]_infoVars

-----------------------------------------------------------------------------

Values(f) ==
    {Account0[f]} \cup {change.value : change \in
        {ch \in UNION {Changes[c] : c \in Commands} : ch.field = f}}

Accounts == {a \in [Fields -> STRING] : \A f \in Fields : a[f] \in Values(f)}

InfoTypeOK ==
    /\ account \in Accounts
    /\ pending \in Seq(Commands)
    /\ copy \in Seq(Accounts)
    /\ cmd \in [Commands -> [at : {"none", "sent", "over"},
                              change : {NoChange} \cup UNION {Changes[c] : c \in Commands},
                              tx : {"none", "pending", "mined", "undone"}, met : BOOLEAN]]
    /\ sync \in [Syncs -> [at : {"none", "read", "deleted", "over"}, read : Accounts,
                            met : BOOLEAN, kept : BOOLEAN]]
    /\ blame \in [Fields -> SUBSET {"crossed", "undone", "unsaved", "kept", "met", "stale"}]
    /\ mishaps \in 0 .. MaxMishaps

InfoAtRest ==
    /\ pending = <<>>
    /\ \A c \in Commands : cmd[c].at # "sent"
    /\ \A s \in Syncs : sync[s].at # "deleted"

\* At rest the first row says what the chain says, and so the daemon signs with
\* the key the chain expects. What can spoil a field for good: its transaction
\* did not take effect after all, or did and the row was not written, two
\* commands about it or two syncs met, a sync read the account before a change,
\* or one could not delete the old row and nobody noticed (run.go:836-850,
\* entity_service.go:210-213).
InfoIsChain ==
    InfoAtRest /\ copy # <<>> =>
        \A f \in Fields : copy[1][f] = account[f] \/ blame[f] # {}

=============================================================================
