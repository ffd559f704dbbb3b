--------------------------- MODULE PayScan_proofs ---------------------------
(***************************************************************************)
(* Proofs about PayScan, for any payments, jobs, amounts and bounds and    *)
(* any faults: it implements PayLedger, and a payment is booked at most    *)
(* once more than passes were broken off.                                  *)
(***************************************************************************)
EXTENDS PayScan, TLAPS

\* The last block that the stored cursor stands for.
Base == LoadLastProcessedBlock(cursor)

\* Payments are in blocks of the chain, after the contract's own, and a pass
\* looks no further than the chain goes.
ChainInv ==
    /\ last =< head /\ end =< head /\ Base =< head
    /\ \A p \in Payments : OnChain(p) => block[p] > Created /\ block[p] =< head

\* What the iterator has yet to return comes after what it has returned, and
\* what it will not return has been handled or is past the last block asked for.
TodoInv ==
    /\ \A p \in todo :
           /\ pc = "events" /\ OnChain(p)
           /\ last =< block[p] /\ block[p] =< end
    /\ pc = "events" =>
           \A p \in Payments : OnChain(p) /\ p \notin todo =>
               block[p] =< last \/ block[p] > end

\* Nothing is passed over, neither by a pass nor by the stored cursor.
BehindInv ==
    /\ pc # "idle" =>
           \A p \in Payments : OnChain(p) /\ block[p] =< last /\ p \notin todo
               => Settled(p)
    /\ \A p \in Payments : OnChain(p) /\ block[p] =< Base => Settled(p)

\* What is still ahead has been booked by broken passes only, once by each.
AheadInv ==
    /\ \A p \in Payments : credit[p] =< 1 + broken
    /\ \A p \in Payments : ~OnChain(p) => credit[p] = 0
    /\ pc # "idle" =>
           \A p \in Payments : block[p] > last \/ p \in todo => credit[p] =< broken
    /\ pc # "events" =>
           \A p \in Payments : OnChain(p) /\ block[p] > Base => credit[p] =< broken

ScanInv == ChainInv /\ TodoInv /\ BehindInv /\ AheadInv

-----------------------------------------------------------------------------
LEMMA InitType == Init => TypeOK
BY PayScanAssumption DEF Init, TypeOK

LEMMA StepType == TypeOK /\ [Next]_vars => TypeOK'
<1> SUFFICES ASSUME TypeOK, [Next]_vars PROVE TypeOK'
  OBVIOUS
<1> USE PayScanAssumption DEF TypeOK
<1>1. CASE Mine
  <2>1. PICK S \in SUBSET {p \in Payments : ~OnChain(p)} :
          block' = [p \in Payments |-> IF p \in S THEN head + 1 ELSE block[p]]
    BY <1>1 DEF Mine
  <2>2. block' \in [Payments -> 0..MaxHeight]
    BY <1>1, <2>1 DEF Mine
  <2>3. QED
    BY <1>1, <2>2 DEF Mine, pass, books
<1>2. CASE Start \/ StartUnread
  BY <1>2 DEF Start, StartUnread, MayBreak, Break, LoadLastProcessedBlock, chain, books
<1>3. CASE Header \/ NoAnswer
  BY <1>3 DEF Header, NoAnswer, EndPass, chain, books
<1>4. CASE Filter
  BY <1>4 DEF Filter, Events, chain, books
<1>5. CASE Handle
  <2>1. PICK p \in Payments : HandleEdgeTask(p) \/ HandleFails(p)
    BY <1>5 DEF Handle
  <2>2. CASE HandleEdgeTask(p)
    <3>1. Job[p] \in Jobs /\ Amount[p] \in Nat
      OBVIOUS
    <3>2. reward' \in [Jobs -> Nat] /\ credit' \in [Payments -> Nat]
      BY <2>2, <3>1 DEF HandleEdgeTask
    <3>3. QED
      BY <2>2, <3>2 DEF HandleEdgeTask, chain
  <2>3. CASE HandleFails(p)
    BY <2>3 DEF HandleFails, chain
  <2>4. QED
    BY <2>1, <2>2, <2>3
<1>6. CASE Save
  BY <1>6 DEF Save, EndPass, chain, books
<1>7. CASE IteratorFails \/ SaveFails \/ Crash
  BY <1>7 DEF IteratorFails, SaveFails, Crash, MayBreak, EndPass, Break, chain, books
<1>8. CASE UNCHANGED vars
  BY <1>8 DEF vars, chain, pass, books
<1>9. QED
  BY <1>1, <1>2, <1>3, <1>4, <1>5, <1>6, <1>7, <1>8 DEF Next

\* Every state of the scanner, for any payments, jobs and bounds, is well
\* formed.
THEOREM TypeCorrect == Spec => []TypeOK
BY InitType, StepType, PTL DEF Spec

-----------------------------------------------------------------------------
LEMMA InitInv == Init => ScanInv
BY PayScanAssumption
   DEF Init, ScanInv, ChainInv, TodoInv, BehindInv, AheadInv, OnChain, Base,
       LoadLastProcessedBlock

\* A pass that ends without storing its block needs to be counted as broken
\* only if it was past the filter.
LEMMA EndUncounted ==
    ASSUME TypeOK, ScanInv, EndPass, UNCHANGED <<chain, cursor, books>>,
           \/ broken' = broken + 1
           \/ pc # "events" /\ broken' = broken
    PROVE  ScanInv'
<1> USE PayScanAssumption DEF TypeOK, ScanInv, EndPass, OnChain, Settled, Base, chain, books
<1>1. ChainInv'
  BY DEF ChainInv
<1>2. TodoInv'
  BY DEF TodoInv
<1>3. BehindInv'
  BY DEF BehindInv
<1>4. AheadInv'
  BY DEF AheadInv
<1>5. QED
  BY <1>1, <1>2, <1>3, <1>4

LEMMA MineInv == ASSUME TypeOK, ScanInv, Mine PROVE ScanInv'
<1> USE PayScanAssumption DEF TypeOK, OnChain
<1>0. Base \in Nat
  BY DEF Base, LoadLastProcessedBlock
<1>1. PICK S \in SUBSET {p \in Payments : ~OnChain(p)} :
        block' = [p \in Payments |-> IF p \in S THEN head + 1 ELSE block[p]]
  BY DEF Mine
<1>2. /\ head' = head + 1 /\ UNCHANGED <<pc, last, end, todo, cursor, credit, missed, broken>>
      /\ Base' = Base
  BY DEF Mine, pass, books, Base
<1>3. \A p \in Payments : \/ block'[p] = block[p]
                          \/ block[p] = 0 /\ block'[p] = head + 1
  BY <1>1
<1>4. ChainInv'
  BY <1>0, <1>2, <1>3 DEF ScanInv, ChainInv
<1>5. TodoInv'
  BY <1>2, <1>3 DEF ScanInv, ChainInv, TodoInv
<1>6. BehindInv'
  BY <1>0, <1>2, <1>3 DEF ScanInv, ChainInv, BehindInv, Settled
<1>7. AheadInv'
  BY <1>2, <1>3 DEF ScanInv, ChainInv, AheadInv
<1>8. QED
  BY <1>4, <1>5, <1>6, <1>7 DEF ScanInv

LEMMA StartInv == ASSUME TypeOK, ScanInv, Start \/ StartUnread PROVE ScanInv'
<1> USE PayScanAssumption DEF TypeOK, OnChain, Settled, Base, chain, books
<1>1. /\ pc = "idle" /\ pc' = "header"
      /\ UNCHANGED <<head, block, end, todo, cursor, credit, missed, Base>>
      /\ \/ last' = Base /\ broken' = broken
         \/ last' = Created /\ broken' = broken + 1
  BY DEF Start, StartUnread, Break
<1>2. Base =< head
  BY DEF ScanInv, ChainInv
<1>3. ChainInv'
  BY <1>1, <1>2 DEF ScanInv, ChainInv
<1>4. TodoInv'
  BY <1>1 DEF ScanInv, TodoInv
<1>5. BehindInv'
  BY <1>1 DEF ScanInv, ChainInv, BehindInv
<1>6. AheadInv'
  <2>1. todo = {} /\ Base \in Nat
    BY <1>1 DEF ScanInv, TodoInv, LoadLastProcessedBlock
  <2>2. \A p \in Payments : credit[p] \in Nat /\ block[p] \in Nat
    OBVIOUS
  <2>3. CASE last' = Base /\ broken' = broken
    BY <1>1, <2>1, <2>2, <2>3 DEF ScanInv, AheadInv
  <2>4. CASE broken' = broken + 1
    BY <1>1, <2>1, <2>2, <2>4 DEF ScanInv, AheadInv
  <2>5. QED
    BY <1>1, <2>3, <2>4
<1>7. QED
  BY <1>3, <1>4, <1>5, <1>6 DEF ScanInv

LEMMA FilterInv == ASSUME TypeOK, ScanInv, Header \/ Filter PROVE ScanInv'
<1> USE PayScanAssumption DEF TypeOK, OnChain, Settled, Base, chain, books
<1>1. CASE Header
  <2>1. ChainInv' /\ TodoInv'
    BY <1>1 DEF Header, ScanInv, ChainInv, TodoInv
  <2>2. BehindInv' /\ AheadInv'
    BY <1>1 DEF Header, ScanInv, BehindInv, AheadInv
  <2>3. QED
    BY <2>1, <2>2 DEF ScanInv
<1>2. CASE Filter
  <2>1. todo' = {p \in Payments : OnChain(p) /\ block[p] \in (last + 1)..end}
    BY <1>2 DEF Filter, Events
  <2>2. ChainInv' /\ TodoInv'
    BY <1>2, <2>1 DEF Filter, ScanInv, ChainInv, TodoInv
  <2>3. BehindInv'
    BY <1>2, <2>1 DEF Filter, ScanInv, TodoInv, BehindInv
  <2>4. AheadInv'
    BY <1>2, <2>1 DEF Filter, ScanInv, TodoInv, AheadInv
  <2>5. QED
    BY <2>2, <2>3, <2>4 DEF ScanInv
<1>3. QED
  BY <1>1, <1>2

\* An event that is handled is in its turn: what is in earlier blocks the
\* iterator has returned in this pass, or the cursor had passed it.
LEMMA EarliestInTurn ==
    ASSUME TypeOK, ScanInv, NEW p \in Payments, pc = "events", Earliest(p)
    PROVE  /\ OnChain(p) /\ last =< block[p] /\ block[p] =< end
           /\ credit[p] =< broken
           /\ \A q \in Payments : OnChain(q) /\ block[q] < block[p] => Settled(q)
<1> USE DEF TypeOK, OnChain
<1>1. p \in todo /\ \A q \in todo : block[p] =< block[q]
  BY DEF Earliest
<1>2. OnChain(p) /\ last =< block[p] /\ block[p] =< end /\ credit[p] =< broken
  BY <1>1 DEF ScanInv, TodoInv, AheadInv
<1>3. ASSUME NEW q \in Payments, OnChain(q), block[q] < block[p]
      PROVE  Settled(q)
  <2>1. q \notin todo
    BY <1>1, <1>3
  <2>2. block[q] =< last
    BY <1>2, <1>3, <2>1 DEF ScanInv, TodoInv
  <2>3. QED
    BY <1>3, <2>1, <2>2 DEF ScanInv, BehindInv
<1>4. QED
  BY <1>2, <1>3

LEMMA HandleInv ==
    ASSUME TypeOK, ScanInv, NEW p \in Payments, HandleEdgeTask(p) \/ HandleFails(p)
    PROVE  ScanInv'
<1> USE PayScanAssumption DEF TypeOK, OnChain
<1>1. /\ pc = "events" /\ Earliest(p) /\ last' = block[p] /\ todo' = todo \ {p}
      /\ UNCHANGED <<head, block, pc, end, cursor, broken>>
      /\ Base' = Base
  BY DEF HandleEdgeTask, HandleFails, chain, Base
<1>2. /\ OnChain(p) /\ last =< block[p] /\ block[p] =< end
      /\ credit[p] =< broken
      /\ \A q \in Payments : OnChain(q) /\ block[q] < block[p] => Settled(q)
  BY <1>1, EarliestInTurn
<1>3. p \in todo /\ \A q \in todo : block[p] =< block[q]
  BY <1>1 DEF Earliest
<1>4. /\ \A q \in Payments :
             credit'[q] = IF q = p /\ HandleEdgeTask(p) THEN credit[q] + 1 ELSE credit[q]
      /\ missed \subseteq missed'
      /\ credit'[p] = credit[p] + 1 \/ p \in missed'
  <2>1. CASE HandleEdgeTask(p)
    <3>1. /\ credit' = [credit EXCEPT ![p] = @ + 1]
          /\ missed' = missed
      BY <2>1 DEF HandleEdgeTask
    <3>2. QED
      BY <2>1, <3>1
  <2>2. CASE HandleFails(p) /\ ~HandleEdgeTask(p)
    <3>1. credit' = credit /\ missed' = missed \cup {p}
      BY <2>2 DEF HandleFails
    <3>2. QED
      BY <2>2, <3>1
  <2>3. QED
    BY <2>1, <2>2
<1>5. Settled(p)' /\ \A q \in Payments : Settled(q) => Settled(q)'
  BY <1>4 DEF Settled
<1>6. ChainInv'
  BY <1>1, <1>2 DEF ScanInv, ChainInv
<1>7. TodoInv'
  BY <1>1, <1>2, <1>3 DEF ScanInv, TodoInv
<1>8. BehindInv'
  <2>1. ASSUME NEW q \in Payments, OnChain(q), block[q] =< block[p], q \notin todo \ {p}
        PROVE  Settled(q)'
    <3>1. CASE q = p
      BY <1>5, <3>1
    <3>2. CASE q # p /\ block[q] < block[p]
      BY <1>2, <1>5, <2>1, <3>2
    <3>3. CASE q # p /\ block[q] = block[p]
      BY <1>1, <1>2, <1>5, <2>1, <3>3 DEF ScanInv, TodoInv, BehindInv
    <3>4. QED
      BY <2>1, <3>1, <3>2, <3>3
  <2>2. \A q \in Payments : OnChain(q) /\ block[q] =< Base => Settled(q)'
    BY <1>5 DEF ScanInv, BehindInv
  <2>3. QED
    BY <1>1, <2>1, <2>2 DEF BehindInv
<1>9. AheadInv'
  <2>1. ASSUME NEW q \in Payments PROVE credit'[q] =< 1 + broken
    BY <1>2, <1>4 DEF ScanInv, AheadInv
  <2>2. ASSUME NEW q \in Payments, ~OnChain(q) PROVE credit'[q] = 0
    BY <1>2, <1>4, <2>2 DEF ScanInv, AheadInv
  <2>3. ASSUME NEW q \in Payments, block[q] > block[p] \/ q \in todo \ {p}
        PROVE  credit'[q] =< broken
    BY <1>1, <1>2, <1>4, <2>3 DEF ScanInv, AheadInv
  <2>4. QED
    BY <1>1, <2>1, <2>2, <2>3 DEF AheadInv
<1>10. QED
  BY <1>6, <1>7, <1>8, <1>9 DEF ScanInv

LEMMA SaveInv == ASSUME TypeOK, ScanInv, Save PROVE ScanInv'
<1> USE PayScanAssumption DEF TypeOK, OnChain
<1>1. /\ pc = "events" /\ todo = {} /\ cursor' = last
      /\ pc' = "idle" /\ last' = 0 /\ end' = 0 /\ todo' = {}
      /\ UNCHANGED <<head, block, credit, missed, broken>>
  BY DEF Save, EndPass, chain, books
<1>2. Base' = IF last = 0 THEN Created ELSE last
  BY <1>1 DEF Base, LoadLastProcessedBlock
<1>3. ChainInv'
  BY <1>1, <1>2 DEF ScanInv, ChainInv
<1>4. TodoInv'
  BY <1>1 DEF TodoInv
<1>5. BehindInv'
  <2>1. ASSUME NEW p \in Payments, OnChain(p), block[p] =< Base' PROVE Settled(p)
    BY <1>1, <1>2, <2>1 DEF ScanInv, ChainInv, BehindInv
  <2>2. QED
    BY <1>1, <2>1 DEF BehindInv, Settled
<1>6. AheadInv'
  BY <1>1, <1>2 DEF ScanInv, AheadInv
<1>7. QED
  BY <1>3, <1>4, <1>5, <1>6 DEF ScanInv

LEMMA StepInv == TypeOK /\ ScanInv /\ [Next]_vars => ScanInv'
<1> SUFFICES ASSUME TypeOK, ScanInv, [Next]_vars PROVE ScanInv'
  OBVIOUS
<1>1. CASE NoAnswer
  BY <1>1, EndUncounted DEF NoAnswer
<1>2. CASE IteratorFails \/ SaveFails \/ Crash
  BY <1>2, EndUncounted DEF IteratorFails, SaveFails, Crash, Break
<1>3. CASE Handle
  BY <1>3, HandleInv DEF Handle
<1>4. CASE UNCHANGED vars
  BY <1>4 DEF vars, chain, pass, books, ScanInv, ChainInv, TodoInv, BehindInv,
              AheadInv, OnChain, Settled, Base
<1>5. QED
  BY <1>1, <1>2, <1>3, <1>4, MineInv, StartInv, FilterInv, SaveInv DEF Next

\* The inductive invariant: the cursor, the pass and the books agree on what
\* has been settled and on what may have been booked before.
THEOREM ScanInvariant == Spec => [](TypeOK /\ ScanInv)
BY InitType, StepType, InitInv, StepInv, PTL DEF Spec

\* A payment is booked at most once more than passes were broken off
\* (scanAndProcessEvents stores its block after the rewards).
THEOREM ReplaysAreBounded == Spec => []ReplayedOnlyIfBroken
<1>1. ScanInv => ReplayedOnlyIfBroken
  BY DEF ScanInv, AheadInv, ReplayedOnlyIfBroken
<1>2. QED
  BY <1>1, ScanInvariant, PTL

-----------------------------------------------------------------------------
LEMMA LedgerHasConstants == Ledger!LedgerConstants
BY PayScanAssumption DEF Ledger!LedgerConstants

LEMMA InitRefines == Init => Ledger!LedgerInit
BY DEF Init, Ledger!LedgerInit

LEMMA StepRefines ==
    TypeOK /\ ScanInv /\ [Next]_vars => [Ledger!LedgerNext]_(Ledger!ledgerVars)
<1> SUFFICES ASSUME TypeOK, ScanInv, [Next]_vars
             PROVE  Ledger!LedgerNext \/ UNCHANGED Ledger!ledgerVars
  OBVIOUS
<1> USE DEF TypeOK
<1>1. CASE Mine
  <2>1. PICK S \in SUBSET {p \in Payments : ~OnChain(p)} :
          block' = [p \in Payments |-> IF p \in S THEN head + 1 ELSE block[p]]
    BY <1>1 DEF Mine
  <2>2. /\ \A p \in S : ~Ledger!OnChain(p)
        /\ \A p \in Payments : block[p] < head + 1
    BY DEF ScanInv, ChainInv, OnChain, Ledger!OnChain
  <2>3. Ledger!Pay(S, head + 1)
    BY <1>1, <2>1, <2>2 DEF Mine, books, Ledger!Pay
  <2>4. head + 1 \in 0..MaxHeight
    BY <1>1, PayScanAssumption DEF Mine
  <2>5. QED
    BY <2>3, <2>4 DEF Ledger!LedgerNext
<1>2. CASE Handle
  <2>1. PICK p \in Payments : HandleEdgeTask(p) \/ HandleFails(p)
    BY <1>2 DEF Handle
  <2>2. pc = "events" /\ Earliest(p)
    BY <2>1 DEF HandleEdgeTask, HandleFails
  <2>3. Ledger!InTurn(p) /\ credit[p] =< MaxBroken
    BY <2>2, EarliestInTurn, PayScanAssumption
       DEF Ledger!InTurn, Ledger!OnChain, Ledger!Settled, OnChain, Settled
  <2>4. Ledger!Book(p) \/ Ledger!Miss(p)
    BY <2>1, <2>3 DEF HandleEdgeTask, HandleFails, chain, Ledger!Book, Ledger!Miss
  <2>5. QED
    BY <2>4 DEF Ledger!LedgerNext
<1>3. CASE UNCHANGED <<block, books>>
  BY <1>3 DEF books, Ledger!ledgerVars
<1>4. QED
  BY <1>1, <1>2, <1>3
     DEF Next, Start, StartUnread, Header, Filter, NoAnswer, IteratorFails, Save,
         SaveFails, Crash, vars, chain

\* The scanner implements PayLedger: every payment is booked or missed in its
\* turn, to its own job, and booked at most MaxBroken times too often.
THEOREM ScanImplementsLedger == Spec => BooksEveryPayment
BY InitRefines, StepRefines, ScanInvariant, PTL DEF Spec, BooksEveryPayment, Ledger!LedgerSpec
=============================================================================
