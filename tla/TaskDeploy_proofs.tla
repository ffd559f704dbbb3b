-------------------------- MODULE TaskDeploy_proofs --------------------------
(***************************************************************************)
(* Proofs about TaskDeploy, for any goroutines and any bounds: the nonces  *)
(* of goroutines that share an account leave no gap, a contract is paid    *)
(* for twice only with a cause, and what is returned is as Deployment      *)
(* promises.                                                               *)
(***************************************************************************)
EXTENDS TaskDeploy, FiniteSetTheorems, TLAPS

\* What is pending is still to be mined, and what is mined is past.
ChainOrder ==
    \A n \in Nonces : /\ pool[n] # "none" => latest =< n
                      /\ mined[n] # "none" => n < latest

\* Up to the nonce a goroutine would use next there is no free one, so long as the
\* pool has forgotten nothing: each was counted up from one that was taken.
NoFreeBelow ==
    dropped = 0 => \A d \in Deployers : \A k \in latest .. (call[d].nonceX - 1) :
        k \in Nonces => pool[k] # "none"

\* The transactions of a goroutine that are pending or have become contracts.
Ours(d) == {n \in Nonces : mined[n] = d \/ pool[n] = d}

\* A goroutine that may send again has as many transactions out as it has missed
\* answers and confirmations; one that waits or is done has one more at most.
SentOnce ==
    \A d \in Deployers :
        /\ call[d].at \in {"turn", "send"} => Cardinality(Ours(d)) =< unseen[d]
        /\ Cardinality(Ours(d)) =< 1 + unseen[d]

\* What a goroutine waits for was sent with one of the nonces.
SentNonces == \A d \in Deployers : call[d].at = "confirm" => call[d].nonceX \in Nonces

DeployInv == ChainOrder /\ NoFreeBelow /\ NoNonceGap /\ SentOnce /\ SentNonces

-----------------------------------------------------------------------------
LEMMA NoncesFinite ==
    /\ Nonces \subseteq Nat
    /\ IsFiniteSet(Nonces)
    /\ \A S \in SUBSET Nonces : IsFiniteSet(S) /\ Cardinality(S) \in Nat
<1>1. Nonces \subseteq Nat
  BY TaskDeployAssumption DEF Nonces
<1>2. IsFiniteSet(Nonces)
  BY TaskDeployAssumption, FS_Interval DEF Nonces
<1>3. QED
  BY <1>1, <1>2, FS_Subset, FS_CardinalityType

LEMMA DeployInitType == DeployInit => DeployTypeOK
BY TaskDeployAssumption DEF DeployInit, DeployTypeOK, Nonces, Senders

Calls == [at : {"turn", "send", "confirm", "deployed", "gaveup"},
          nonceX : Nonces \cup {MaxNonce + 1}, flag : BOOLEAN]

LEMMA CallStep ==
    ASSUME DeployTypeOK, NEW d \in Deployers,
           \/ GetNonce(d) \/ Underpriced(d) \/ TooLow(d) \/ SendError(d)
           \/ DeployTask(d) \/ Replaces(d) \/ AnswerLost(d)
           \/ Confirmed(d) \/ Unconfirmed(d) \/ CallTimesOut(d)
    PROVE  \E c \in Calls : call' = [call EXCEPT ![d] = c]
<1> USE DEF Calls
<1>0. call[d] \in Calls /\ latest \in Nonces \cup {MaxNonce + 1}
  BY TaskDeployAssumption DEF DeployTypeOK, Nonces
<1>1. CASE GetNonce(d)
  <2>1. call' = [call EXCEPT ![d] = [call[d] EXCEPT !.at = "send",
                    !.nonceX = IF call[d].flag THEN @ ELSE latest]]
    BY <1>1 DEF GetNonce
  <2>2. (IF call[d].flag THEN call[d].nonceX ELSE latest) \in Nonces \cup {MaxNonce + 1}
    BY <1>0
  <2>3. [call[d] EXCEPT !.at = "send",
                        !.nonceX = IF call[d].flag THEN @ ELSE latest] \in Calls
    BY <1>0, <2>2
  <2>4. QED
    BY <2>1, <2>3
<1>2. CASE Underpriced(d)
  <2>1. [at |-> "turn", nonceX |-> call[d].nonceX + 1, flag |-> TRUE] \in Calls
    BY <1>2 DEF Underpriced
  <2>2. QED
    BY <1>2, <2>1 DEF Underpriced
<1>3. CASE TooLow(d)
  <2>1. /\ [call[d] EXCEPT !.at = "turn", !.nonceX = latest] \in Calls
        /\ [call[d] EXCEPT !.at = "turn", !.flag = FALSE] \in Calls
    BY <1>0
  <2>2. \/ call' = [call EXCEPT ![d] = [call[d] EXCEPT !.at = "turn", !.nonceX = latest]]
        \/ call' = [call EXCEPT ![d] = [call[d] EXCEPT !.at = "turn", !.flag = FALSE]]
    BY <1>3 DEF TooLow
  <2>3. QED
    BY <2>1, <2>2
<1>4. ASSUME NEW at \in {"turn", "confirm", "deployed", "gaveup"},
             call' = [call EXCEPT ![d].at = at]
      PROVE  \E c \in Calls : call' = [call EXCEPT ![d] = c]
  <2>1. [call[d] EXCEPT !.at = at] \in Calls
    BY <1>0
  <2>2. QED
    BY <1>4, <2>1
<1>5. CASE SendError(d) \/ AnswerLost(d) \/ Unconfirmed(d)
  <2>1. call' = [call EXCEPT ![d].at = "turn"]
    BY <1>5 DEF SendError, AnswerLost, Unconfirmed
  <2>2. QED
    BY <1>4, <2>1
<1>6. CASE DeployTask(d) \/ Replaces(d)
  BY <1>4, <1>6 DEF DeployTask, Replaces
<1>7. CASE Confirmed(d) \/ CallTimesOut(d)
  BY <1>4, <1>7 DEF Confirmed, CallTimesOut
<1>8. QED
  BY <1>1, <1>2, <1>3, <1>5, <1>6, <1>7

LEMMA DeployStepType == DeployTypeOK /\ [DeployNext]_deployVars => DeployTypeOK'
<1> SUFFICES ASSUME DeployTypeOK, [DeployNext]_deployVars PROVE DeployTypeOK'
  OBVIOUS
<1> USE TaskDeployAssumption DEF Senders
<1>0. call \in [Deployers -> Calls]
  BY DEF DeployTypeOK, Calls
<1>1. ASSUME NEW d \in Deployers,
             \/ GetNonce(d) \/ Underpriced(d) \/ TooLow(d) \/ SendError(d)
             \/ DeployTask(d) \/ Replaces(d) \/ AnswerLost(d)
             \/ Confirmed(d) \/ Unconfirmed(d) \/ CallTimesOut(d)
      PROVE  DeployTypeOK'
  <2>1. call' \in [Deployers -> Calls]
    <3>1. PICK c \in Calls : call' = [call EXCEPT ![d] = c]
      BY <1>1, CallStep
    <3>2. QED
      BY <1>0, <3>1
  <2>2. CASE UNCHANGED <<latest, pool, mined, overdue, unseen, dropped>>
    BY <2>1, <2>2 DEF DeployTypeOK, Calls
  <2>3. CASE DeployTask(d)
    BY <2>1, <2>3 DEF DeployTask, DeployTypeOK, Calls
  <2>4. CASE Replaces(d)
    <3>1. pool' \in [Nonces -> Senders] /\ dropped' \in 0 .. MaxDropped
      BY <2>4 DEF Replaces, DeployTypeOK
    <3>2. QED
      BY <2>1, <2>4, <3>1 DEF Replaces, DeployTypeOK, Calls
  <2>5. CASE AnswerLost(d)
    <3>1. pool' \in [Nonces -> Senders] /\ unseen' \in [Deployers -> 0 .. MaxUnseen]
      BY <2>5 DEF AnswerLost, DeployTypeOK
    <3>2. QED
      BY <2>1, <2>5, <3>1 DEF AnswerLost, DeployTypeOK, Calls
  <2>6. CASE Unconfirmed(d)
    <3>1. unseen' \in [Deployers -> 0 .. MaxUnseen]
      BY <2>6 DEF Unconfirmed, DeployTypeOK
    <3>2. QED
      BY <2>1, <2>6, <3>1 DEF Unconfirmed, DeployTypeOK, Calls
  <2>7. QED
    BY <1>1, <2>2, <2>3, <2>4, <2>5, <2>6
       DEF GetNonce, Underpriced, TooLow, SendError, Confirmed, CallTimesOut
<1> USE DEF DeployTypeOK, Nonces
<1>4. ASSUME NEW d \in Deployers, TimeIsUp(d) PROVE DeployTypeOK'
  BY <1>4 DEF TimeIsUp
<1>5. CASE MineNext
  BY <1>5 DEF MineNext
<1>6. ASSUME NEW n \in Nonces, PoolForgets(n) PROVE DeployTypeOK'
  BY <1>6 DEF PoolForgets
<1>7. CASE UNCHANGED deployVars
  BY <1>7 DEF deployVars
<1>8. QED
  BY <1>1, <1>4, <1>5, <1>6, <1>7 DEF DeployNext

\* Every state of the deployments, for any goroutines and bounds, is well formed.
THEOREM DeployTypeCorrect == DeploySpec => []DeployTypeOK
BY DeployInitType, DeployStepType, PTL DEF DeploySpec

-----------------------------------------------------------------------------
LEMMA DeployInitInv == DeployInit => DeployInv
<1> SUFFICES ASSUME DeployInit PROVE DeployInv
  OBVIOUS
<1>1. ChainOrder /\ NoFreeBelow /\ NoNonceGap
  BY TaskDeployAssumption DEF DeployInit, ChainOrder, NoFreeBelow, NoNonceGap, Nonces
<1>2. ASSUME NEW d \in Deployers PROVE Cardinality(Ours(d)) = 0
  <2>1. Ours(d) = {}
    BY TaskDeployAssumption DEF DeployInit, Ours, Nonces
  <2>2. QED
    BY <2>1, FS_EmptySet
<1>3. SentOnce
  BY <1>2 DEF DeployInit, SentOnce
<1>4. SentNonces
  BY DEF DeployInit, SentNonces
<1>5. QED
  BY <1>1, <1>3, <1>4 DEF DeployInv

LEMMA OursFinite ==
    ASSUME NEW d
    PROVE  IsFiniteSet(Ours(d)) /\ Cardinality(Ours(d)) \in Nat
BY NoncesFinite DEF Ours

\* One transaction more, or none more: what the count may become.
LEMMA OursGrows ==
    ASSUME NEW d, NEW n, Ours(d)' \subseteq Ours(d) \cup {n}
    PROVE  /\ Cardinality(Ours(d))' \in Nat
           /\ Cardinality(Ours(d))' =< Cardinality(Ours(d)) + 1
<1>1. /\ IsFiniteSet(Ours(d) \cup {n})
      /\ Cardinality(Ours(d) \cup {n}) =< Cardinality(Ours(d)) + 1
      /\ Cardinality(Ours(d) \cup {n}) \in Nat
  BY OursFinite, FS_AddElement
<1>2. /\ IsFiniteSet(Ours(d)')
      /\ Cardinality(Ours(d)') =< Cardinality(Ours(d) \cup {n})
      /\ Cardinality(Ours(d)') \in Nat
  <2>1. Ours(d)' \in SUBSET (Ours(d) \cup {n})
    OBVIOUS
  <2>2. QED
    BY <1>1, <2>1, FS_Subset, FS_CardinalityType
<1>3. QED
  BY <1>1, <1>2, OursFinite

LEMMA OursShrinks ==
    ASSUME NEW d, Ours(d)' \subseteq Ours(d)
    PROVE  /\ Cardinality(Ours(d))' \in Nat
           /\ Cardinality(Ours(d))' =< Cardinality(Ours(d))
BY OursFinite, FS_Subset, FS_CardinalityType

\* The steps of a goroutine other than those that send something.
Waits(d) == \/ GetNonce(d) \/ Underpriced(d) \/ TooLow(d) \/ SendError(d)
            \/ Confirmed(d) \/ Unconfirmed(d) \/ CallTimesOut(d)

Sends(d) == DeployTask(d) \/ Replaces(d) \/ AnswerLost(d)

LEMMA WaitsChanges ==
    ASSUME DeployTypeOK, NEW d \in Deployers, Waits(d)
    PROVE  /\ UNCHANGED <<latest, pool, mined, overdue, dropped>>
           /\ \/ call'[d].nonceX = call[d].nonceX
              \/ call'[d].nonceX = latest
              \/ /\ call'[d].nonceX = call[d].nonceX + 1
                 /\ call[d].nonceX \in latest .. MaxNonce /\ pool[call[d].nonceX] # "none"
           /\ \/ unseen' = unseen
              \/ unseen' = [unseen EXCEPT ![d] = @ + 1]
           /\ \/ call[d].at \in {"turn", "send"} /\ unseen' = unseen
              \/ call'[d].at = "turn" /\ unseen' = [unseen EXCEPT ![d] = @ + 1]
              \/ call[d].at = "confirm" /\ call'[d].at = "deployed" /\ unseen' = unseen
           /\ call'[d].at # "confirm"
           /\ \A e \in Deployers \ {d} : call'[e] = call[e]
<1> USE DEF DeployTypeOK
<1>1. CASE GetNonce(d)
  BY <1>1 DEF GetNonce
<1>2. CASE Underpriced(d)
  BY <1>2 DEF Underpriced
<1>3. CASE TooLow(d)
  BY <1>3 DEF TooLow
<1>4. CASE SendError(d)
  BY <1>4 DEF SendError
<1>5. CASE Confirmed(d)
  BY <1>5 DEF Confirmed
<1>6. CASE Unconfirmed(d)
  BY <1>6 DEF Unconfirmed
<1>7. CASE CallTimesOut(d)
  BY <1>7 DEF CallTimesOut
<1>8. QED
  BY <1>1, <1>2, <1>3, <1>4, <1>5, <1>6, <1>7 DEF Waits

LEMMA SendsChanges ==
    ASSUME DeployTypeOK, NEW d \in Deployers, Sends(d)
    PROVE  /\ UNCHANGED <<latest, mined, overdue>>
           /\ call[d].nonceX \in latest .. MaxNonce
           /\ pool' = [pool EXCEPT ![call[d].nonceX] = d]
           /\ \/ pool[call[d].nonceX] = "none" /\ dropped' = dropped
              \/ dropped' = dropped + 1
           /\ call[d].at = "send"
           /\ \/ call'[d].at = "confirm" /\ unseen' = unseen
              \/ call'[d].at = "turn" /\ unseen' = [unseen EXCEPT ![d] = @ + 1]
           /\ \A e \in Deployers : call'[e].nonceX = call[e].nonceX
           /\ \A e \in Deployers \ {d} : call'[e] = call[e]
<1> USE DEF DeployTypeOK
<1>1. CASE DeployTask(d)
  BY <1>1 DEF DeployTask
<1>2. CASE Replaces(d)
  BY <1>2 DEF Replaces
<1>3. CASE AnswerLost(d)
  BY <1>3 DEF AnswerLost
<1>4. QED
  BY <1>1, <1>2, <1>3 DEF Sends

LEMMA WaitsKeeps ==
    ASSUME DeployTypeOK, DeployInv, NEW d \in Deployers, Waits(d)
    PROVE  DeployInv'
<1> USE NoncesFinite DEF DeployTypeOK, DeployInv
<1>1. ChainOrder' /\ NoNonceGap'
  BY WaitsChanges DEF ChainOrder, NoNonceGap
<1>2. NoFreeBelow'
  <2> SUFFICES ASSUME dropped = 0, NEW e \in Deployers, NEW k \in Nonces,
                      k \in latest .. (call'[e].nonceX - 1)
               PROVE  pool[k] # "none"
    BY WaitsChanges DEF NoFreeBelow
  <2>1. \/ call'[e].nonceX = call[e].nonceX
        \/ call'[e].nonceX = latest
        \/ /\ call'[e].nonceX = call[e].nonceX + 1
           /\ call[e].nonceX \in latest .. MaxNonce /\ pool[call[e].nonceX] # "none"
    BY WaitsChanges
  <2>2. latest \in Nat /\ call[e].nonceX \in Nat
    BY TaskDeployAssumption DEF Nonces
  <2>3. QED
    BY <2>1, <2>2 DEF NoFreeBelow
<1>3. SentOnce'
  <2>1. \A e : Ours(e)' = Ours(e)
    BY WaitsChanges DEF Ours
  <2>2. SUFFICES ASSUME NEW e \in Deployers
                 PROVE  /\ call'[e].at \in {"turn", "send"} => Cardinality(Ours(e)) =< unseen'[e]
                        /\ Cardinality(Ours(e)) =< 1 + unseen'[e]
    BY <2>1 DEF SentOnce
  <2>3. /\ call[e].at \in {"turn", "send"} => Cardinality(Ours(e)) =< unseen[e]
        /\ Cardinality(Ours(e)) =< 1 + unseen[e]
        /\ Cardinality(Ours(e)) \in Nat /\ unseen[e] \in Nat
    BY OursFinite DEF SentOnce
  <2>4. CASE e = d
    BY <2>3, <2>4, WaitsChanges
  <2>5. CASE e # d
    BY <2>3, <2>5, WaitsChanges
  <2>6. QED
    BY <2>4, <2>5
<1>4. SentNonces'
  BY WaitsChanges DEF SentNonces
<1>5. QED
  BY <1>1, <1>2, <1>3, <1>4

LEMMA SendsKeeps ==
    ASSUME DeployTypeOK, DeployInv, NEW d \in Deployers, Sends(d)
    PROVE  DeployInv'
<1> USE NoncesFinite DEF DeployTypeOK, DeployInv
<1> DEFINE n == call[d].nonceX
<1>0. /\ n \in Nonces /\ latest =< n /\ d # "none"
      /\ \A k \in Nonces : pool[k] # "none" => pool'[k] # "none"
      /\ \A k \in Nonces : pool'[k] # "none" => pool[k] # "none" \/ k = n
      /\ \A k \in Nonces : pool'[k] = d => pool[k] = d \/ k = n
      /\ \A e : e # d => \A k \in Nonces : pool'[k] = e => pool[k] = e
      /\ dropped' = 0 => dropped = 0
  <2>1. n \in Nonces /\ latest =< n /\ d # "none"
    BY SendsChanges, TaskDeployAssumption DEF Nonces
  <2>2. dropped' = 0 => dropped = 0
    BY SendsChanges, TaskDeployAssumption
  <2>3. QED
    BY <2>1, <2>2, SendsChanges
<1>1. ChainOrder'
  BY <1>0, SendsChanges DEF ChainOrder
<1>2. NoFreeBelow'
  BY <1>0, SendsChanges DEF NoFreeBelow
<1>3. NoNonceGap'
  <2> SUFFICES ASSUME dropped' = 0, NEW i \in Nonces, pool'[i] # "none", NEW k \in latest .. i
               PROVE  pool'[k] # "none"
    BY SendsChanges DEF NoNonceGap
  <2>1. k \in Nonces /\ latest \in Nat /\ i \in Nat
    BY TaskDeployAssumption DEF Nonces
  <2>2. CASE pool[i] # "none"
    BY <1>0, <2>1, <2>2 DEF NoNonceGap
  <2>3. CASE i = n /\ k # n
    <3>1. k \in latest .. (n - 1)
      <4>1. k \in Nat /\ n \in Nat /\ latest =< k /\ k =< n /\ k # n
        BY <2>1, <2>3
      <4>2. QED
        BY <2>1, <4>1
    <3>2. QED
      BY <1>0, <2>1, <3>1 DEF NoFreeBelow
  <2>4. CASE k = n
    BY <1>0, <2>4, SendsChanges
  <2>5. QED
    BY <1>0, <2>2, <2>3, <2>4
<1>4. SentOnce'
  <2> SUFFICES ASSUME NEW e \in Deployers
               PROVE  /\ call'[e].at \in {"turn", "send"} => Cardinality(Ours(e))' =< unseen'[e]
                      /\ Cardinality(Ours(e))' =< 1 + unseen'[e]
    BY DEF SentOnce
  <2>1. /\ call[e].at \in {"turn", "send"} => Cardinality(Ours(e)) =< unseen[e]
        /\ Cardinality(Ours(e)) =< 1 + unseen[e]
        /\ Cardinality(Ours(e)) \in Nat /\ unseen[e] \in Nat
    BY OursFinite DEF SentOnce
  <2>2. CASE e = d
    <3>1. Ours(d)' \subseteq Ours(d) \cup {n}
      BY <1>0, SendsChanges DEF Ours
    <3>2. /\ Cardinality(Ours(d))' \in Nat
          /\ Cardinality(Ours(d))' =< Cardinality(Ours(d)) + 1
      BY <3>1, OursGrows
    <3>3. QED
      BY <2>1, <2>2, <3>2, SendsChanges
  <2>3. CASE e # d
    <3>0. mined' = mined /\ \A k \in Nonces : pool'[k] = e => pool[k] = e
      BY <1>0, <2>3, SendsChanges
    <3>1. Ours(e)' \subseteq Ours(e)
      BY <3>0 DEF Ours
    <3>2. /\ Cardinality(Ours(e))' \in Nat
          /\ Cardinality(Ours(e))' =< Cardinality(Ours(e))
      BY <3>1, OursShrinks
    <3>3. call'[e] = call[e] /\ unseen'[e] = unseen[e]
      BY <2>3, SendsChanges
    <3>4. QED
      BY <2>1, <3>2, <3>3
  <2>4. QED
    BY <2>2, <2>3
<1>5. SentNonces'
  BY <1>0, SendsChanges DEF SentNonces
<1>6. QED
  BY <1>1, <1>2, <1>3, <1>4, <1>5

LEMMA ChainKeeps ==
    ASSUME DeployTypeOK, DeployInv, MineNext \/ \E n \in Nonces : PoolForgets(n)
    PROVE  DeployInv'
<1> USE NoncesFinite DEF DeployTypeOK, DeployInv
<1>0. /\ call' = call /\ unseen' = unseen
      /\ latest \in Nat /\ latest =< latest'
      /\ dropped' = 0 => dropped = 0
      /\ \A k \in Nonces : pool'[k] = "none" \/ pool'[k] = pool[k]
      /\ \A k \in Nonces : pool'[k] # pool[k] /\ dropped' = 0 => k = latest /\ latest' = latest + 1
      /\ \A k \in Nonces : mined'[k] # mined[k] => /\ k = latest /\ latest' = latest + 1
                                                 /\ mined'[k] \in {pool[k], "reverted"}
      /\ latest' # latest => latest' = latest + 1 /\ latest \in Nonces /\ pool'[latest] = "none"
  <2>1. latest \in Nat
    BY TaskDeployAssumption
  <2>2. CASE MineNext
    BY <2>1, <2>2 DEF MineNext
  <2>3. CASE \E n \in Nonces : PoolForgets(n)
    BY <2>1, <2>3, TaskDeployAssumption DEF PoolForgets
  <2>4. QED
    BY <2>2, <2>3
<1>1. ChainOrder'
  <2> SUFFICES ASSUME NEW k \in Nonces
               PROVE  /\ pool'[k] # "none" => latest' =< k
                      /\ mined'[k] # "none" => k < latest'
    BY DEF ChainOrder
  <2>1. k \in Nat /\ latest' \in Nat
    BY <1>0
  <2>2. QED
    BY <1>0, <2>1 DEF ChainOrder
<1>2. NoFreeBelow'
  <2> SUFFICES ASSUME dropped' = 0, NEW d \in Deployers, NEW k \in Nonces,
                      k \in latest' .. (call[d].nonceX - 1)
               PROVE  pool'[k] # "none"
    BY <1>0 DEF NoFreeBelow
  <2>1. /\ k \in Nat /\ call[d].nonceX \in Nat /\ latest' \in Nat
        /\ latest' =< k /\ k =< call[d].nonceX - 1
    BY <1>0, TaskDeployAssumption DEF Nonces
  <2>2. pool'[k] = pool[k]
    BY <1>0, <2>1
  <2>3. k \in latest .. (call[d].nonceX - 1)
    BY <1>0, <2>1
  <2>4. QED
    BY <1>0, <2>2, <2>3 DEF NoFreeBelow
<1>3. NoNonceGap'
  <2> SUFFICES ASSUME dropped' = 0, NEW i \in Nonces, pool'[i] # "none", NEW k \in latest' .. i
               PROVE  pool'[k] # "none"
    BY DEF NoNonceGap
  <2>1. i \in Nat /\ latest' \in Nat
    BY <1>0
  <2>2. k \in latest .. i /\ k \in Nonces
    BY <1>0, <2>1, TaskDeployAssumption DEF Nonces
  <2>3. pool'[k] = pool[k]
    BY <1>0, <2>1, <2>2
  <2>4. QED
    BY <1>0, <2>2, <2>3 DEF NoNonceGap
<1>4. SentOnce'
  <2> SUFFICES ASSUME NEW d \in Deployers
               PROVE  /\ call[d].at \in {"turn", "send"} => Cardinality(Ours(d))' =< unseen[d]
                      /\ Cardinality(Ours(d))' =< 1 + unseen[d]
    BY <1>0 DEF SentOnce
  <2>1. d # "none" /\ d # "reverted"
    BY TaskDeployAssumption
  <2>2. Ours(d)' \subseteq Ours(d)
    BY <1>0, <2>1 DEF Ours
  <2>3. /\ Cardinality(Ours(d))' \in Nat
        /\ Cardinality(Ours(d))' =< Cardinality(Ours(d))
    BY <2>2, OursShrinks
  <2>4. Cardinality(Ours(d)) \in Nat /\ unseen[d] \in Nat
    BY OursFinite
  <2>5. QED
    BY <2>3, <2>4 DEF SentOnce
<1>5. SentNonces'
  BY <1>0 DEF SentNonces
<1>6. QED
  BY <1>1, <1>2, <1>3, <1>4, <1>5

LEMMA DeployStepInv == DeployTypeOK /\ DeployInv /\ [DeployNext]_deployVars => DeployInv'
<1> SUFFICES ASSUME DeployTypeOK, DeployInv, [DeployNext]_deployVars PROVE DeployInv'
  OBVIOUS
<1>1. CASE UNCHANGED <<call, latest, pool, mined, unseen, dropped>>
  BY <1>1 DEF DeployInv, ChainOrder, NoFreeBelow, NoNonceGap, SentOnce, SentNonces, Ours
<1>2. CASE \E d \in Deployers : Waits(d)
  BY <1>2, WaitsKeeps
<1>3. CASE \E d \in Deployers : Sends(d)
  BY <1>3, SendsKeeps
<1>4. CASE MineNext \/ \E n \in Nonces : PoolForgets(n)
  BY <1>4, ChainKeeps
<1>5. QED
  BY <1>1, <1>2, <1>3, <1>4 DEF DeployNext, Waits, Sends, TimeIsUp, deployVars

\* The inductive invariant: nonces are taken without a gap up to the one each
\* goroutine would use next, and what a goroutine has sent is accounted for.
THEOREM DeployInvariant == DeploySpec => [](DeployTypeOK /\ DeployInv)
BY DeployInitType, DeployStepType, DeployInitInv, DeployStepInv, PTL DEF DeploySpec

\* Goroutines that share an account leave no gap between the chain's nonce and a
\* pending one, unless the pool forgot a transaction (task_stub.go:94-107).
THEOREM NoncesWithoutGap == DeploySpec => []NoNonceGap
BY DeployInvariant, PTL DEF DeployInv

\* A goroutine pays for one contract more, at most, than answers and confirmations
\* it has missed (task_stub.go:91-113).
THEOREM DuplicatesAreBounded == DeploySpec => []DuplicatesHaveCause
<1>1. DeployTypeOK /\ DeployInv => DuplicatesHaveCause
  <2> SUFFICES ASSUME DeployTypeOK, DeployInv, NEW d \in Deployers
               PROVE  ContractsOf(d) =< 1 + unseen[d]
    BY DEF DuplicatesHaveCause
  <2>1. {n \in Nonces : mined[n] = d} \in SUBSET Ours(d)
    BY DEF Ours
  <2>2. ContractsOf(d) =< Cardinality(Ours(d)) /\ ContractsOf(d) \in Nat
    BY <2>1, OursFinite, FS_Subset, FS_CardinalityType DEF ContractsOf
  <2>3. Cardinality(Ours(d)) =< 1 + unseen[d] /\ unseen[d] \in Nat
    BY DEF DeployInv, SentOnce, DeployTypeOK
  <2>4. QED
    BY <2>2, <2>3, OursFinite
<1>2. QED
  BY <1>1, DeployInvariant, PTL

-----------------------------------------------------------------------------
LEMMA InitPromised == DeployInit => Promise!DeploymentInit
<1> SUFFICES ASSUME DeployInit PROVE Promise!DeploymentInit
  OBVIOUS
<1>1. ASSUME NEW d \in Deployers PROVE ContractsOf(d) = 0
  <2>1. {n \in Nonces : mined[n] = d} = {}
    BY TaskDeployAssumption DEF DeployInit
  <2>2. QED
    BY <2>1, FS_EmptySet DEF ContractsOf
<1>2. \A d \in Deployers : StateOf(d) = "deploying"
  BY DEF DeployInit, StateOf
<1>3. overdue = {}
  BY DEF DeployInit
<1>4. QED
  BY <1>1, <1>2, <1>3 DEF Promise!DeploymentInit

\* The chain's next transaction is a new contract of its sender, or nobody's.
LEMMA MinedPromised ==
    ASSUME DeployTypeOK, DeployInv, MineNext
    PROVE  \/ \E d \in Deployers : Promise!ComesUp(d)
           \/ UNCHANGED Promise!deploymentVars
<1> USE DEF DeployTypeOK
<1>1. PICK out \in {pool[latest], "reverted"} : mined' = [mined EXCEPT ![latest] = out]
  BY DEF MineNext
<1>2. /\ latest \in Nonces /\ pool[latest] \in Deployers /\ mined[latest] = "none"
      /\ UNCHANGED <<call, overdue>>
  BY NoncesFinite DEF MineNext, Senders, DeployInv, ChainOrder
<1>3. \A d \in Deployers : StateOf(d)' = StateOf(d)
  BY <1>2 DEF StateOf
<1>4. ASSUME NEW d \in Deployers, d # out
      PROVE  ContractsOf(d)' = ContractsOf(d)
  <2>1. {n \in Nonces : mined'[n] = d} = {n \in Nonces : mined[n] = d}
    BY <1>1, <1>2, <1>4, TaskDeployAssumption
  <2>2. QED
    BY <2>1 DEF ContractsOf
<1>5. CASE out = "reverted"
  <2>1. \A d \in Deployers : ContractsOf(d)' = ContractsOf(d)
    BY <1>4, <1>5, TaskDeployAssumption
  <2>2. QED
    BY <1>2, <1>3, <2>1 DEF Promise!deploymentVars
<1>6. CASE out = pool[latest]
  <2>1. out \in Deployers
    BY <1>2, <1>6
  <2>2. ContractsOf(out)' = ContractsOf(out) + 1
    <3> DEFINE S == {n \in Nonces : mined[n] = out}
    <3>1. {n \in Nonces : mined'[n] = out} = S \cup {latest} /\ latest \notin S
      BY <1>1, <1>2, <2>1, TaskDeployAssumption
    <3>2. IsFiniteSet(S)
      BY NoncesFinite
    <3>3. Cardinality(S \cup {latest}) = Cardinality(S) + 1
      BY <3>1, <3>2, FS_AddElement
    <3>4. QED
      BY <3>1, <3>3 DEF ContractsOf
  <2>3. [d \in Deployers |-> ContractsOf(d)]' =
            [[d \in Deployers |-> ContractsOf(d)] EXCEPT ![out] = @ + 1]
    BY <1>4, <2>1, <2>2
  <2>4. Promise!ComesUp(out)
    BY <1>2, <1>3, <2>3 DEF Promise!ComesUp
  <2>5. QED
    BY <2>1, <2>4
<1>7. QED
  BY <1>5, <1>6

LEMMA StepPromised ==
    DeployTypeOK /\ DeployInv /\ [DeployNext]_deployVars
        => [Promise!DeploymentNext]_(Promise!deploymentVars)
<1> SUFFICES ASSUME DeployTypeOK, DeployInv, [DeployNext]_deployVars
             PROVE  Promise!DeploymentNext \/ UNCHANGED Promise!deploymentVars
  OBVIOUS
<1> USE DEF DeployTypeOK
<1>1. ASSUME mined' = mined
      PROVE  [d \in Deployers |-> ContractsOf(d)]' = [d \in Deployers |-> ContractsOf(d)]
  BY <1>1 DEF ContractsOf
<1>2. ASSUME NEW d \in Deployers, Confirmed(d) PROVE Promise!Returns(d)
  <2>1. mined[call[d].nonceX] = d /\ call[d].nonceX \in Nonces
    BY <1>2 DEF Confirmed, DeployInv, SentNonces
  <2>2. ContractsOf(d) > 0
    BY <2>1, NoncesFinite, FS_EmptySet DEF ContractsOf
  <2>3. /\ StateOf(d) = "deploying" /\ StateOf(d)' = "deployed"
        /\ \A e \in Deployers \ {d} : StateOf(e)' = StateOf(e)
        /\ mined' = mined /\ overdue' = overdue
    BY <1>2 DEF Confirmed, StateOf
  <2>4. QED
    BY <1>1, <2>2, <2>3 DEF Promise!Returns
<1>3. ASSUME NEW d \in Deployers, CallTimesOut(d) PROVE Promise!GivesUp(d)
  <2>1. /\ StateOf(d) = "deploying" /\ StateOf(d)' = "gaveup"
        /\ \A e \in Deployers \ {d} : StateOf(e)' = StateOf(e)
        /\ mined' = mined /\ overdue' = overdue /\ d \in overdue
    BY <1>3 DEF CallTimesOut, StateOf
  <2>2. QED
    BY <1>1, <2>1 DEF Promise!GivesUp
<1>4. ASSUME NEW d \in Deployers, TimeIsUp(d) PROVE Promise!BecomesLate(d)
  <2>1. mined' = mined /\ \A e \in Deployers : StateOf(e)' = StateOf(e)
    BY <1>4 DEF TimeIsUp, StateOf
  <2>2. QED
    BY <1>1, <1>4, <2>1 DEF TimeIsUp, Promise!BecomesLate
<1>5. ASSUME /\ mined' = mined /\ overdue' = overdue
             /\ \A e \in Deployers : StateOf(e)' = StateOf(e)
      PROVE  UNCHANGED Promise!deploymentVars
  BY <1>1, <1>5 DEF Promise!deploymentVars
<1>6. ASSUME NEW d \in Deployers, GetNonce(d) \/ Underpriced(d) \/ TooLow(d) \/ SendError(d)
      PROVE  UNCHANGED Promise!deploymentVars
  BY <1>5, <1>6 DEF GetNonce, Underpriced, TooLow, SendError, StateOf
<1>7. ASSUME NEW d \in Deployers, Sends(d) \/ Unconfirmed(d)
      PROVE  UNCHANGED Promise!deploymentVars
  BY <1>5, <1>7 DEF Sends, DeployTask, Replaces, AnswerLost, Unconfirmed, StateOf
<1>8. CASE UNCHANGED deployVars \/ \E n \in Nonces : PoolForgets(n)
  BY <1>5, <1>8 DEF deployVars, PoolForgets, StateOf
<1>9. QED
  BY <1>2, <1>3, <1>4, <1>6, <1>7, <1>8, MinedPromised
     DEF DeployNext, Sends, Promise!DeploymentNext

\* CreateTaskContract does what Deployment promises: it returns an address only for
\* a contract of its own that has come up, and gives up only after the deadline.
THEOREM DeployImplementsPromise == DeploySpec => DeploysAsPromised
BY InitPromised, StepPromised, DeployInvariant, PTL
   DEF DeploySpec, DeploysAsPromised, Promise!DeploymentSpec

=============================================================================
