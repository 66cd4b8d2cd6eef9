---------------------------- MODULE ScannerProofs ----------------------------
(***************************************************************************)
(* Proofs about Scanner for every set of deposits, every start index, every*)
(* number of confirmations, every depth of reorganisation.                 *)
(***************************************************************************)
EXTENDS Scanner, SequenceTheorems, TLAPS

USE IndexAssumption, ConfirmAssumption, ReorgAssumption, ScanFaultAssumption

-----------------------------------------------------------------------------
(* Type correctness. *)

LEMMA TypeInit == Init => TypeOK
BY DEF Init, TypeOK

LEMMA TypeStep == TypeOK /\ [Next]_vars => TypeOK'
<1> SUFFICES ASSUME TypeOK, [Next]_vars
             PROVE  TypeOK'
  OBVIOUS
<1> USE DEF TypeOK, chain, Fault
<1>1. CASE GetBlockCount
  BY <1>1 DEF GetBlockCount
<1>2. CASE GetBlockCountFails
  BY <1>2 DEF GetBlockCountFails
<1>3. CASE FetchHash
  <2>1. hashs' \in Seq(SUBSET Deposit)
    BY <1>3 DEF FetchHash
  <2> QED
    BY <1>3, <2>1 DEF FetchHash
<1>4. CASE HashesDone
  BY <1>4 DEF HashesDone
<1>5. CASE FetchFails
  BY <1>5 DEF FetchFails
<1>6. CASE ScanTx
  <2> PICK d \in Head(hashs) :
         /\ hashs' = [hashs EXCEPT ![1] = Head(hashs) \ {d}]
         /\ safe2ethMap' = IF Qualifies(d) THEN safe2ethMap \cup {d} ELSE safe2ethMap
    BY <1>6 DEF ScanTx
  <2>1. Head(hashs) \in SUBSET Deposit /\ 1 \in 1..Len(hashs)
    BY <1>6 DEF ScanTx
  <2>2. Head(hashs) \ {d} \in SUBSET Deposit
    BY <2>1
  <2>3. hashs' \in Seq(SUBSET Deposit)
    BY <2>1, <2>2, ExceptSeq
  <2>4. safe2ethMap' \subseteq Deposit
    BY <2>1
  <2> QED
    BY <1>6, <2>3, <2>4 DEF ScanTx
<1>7. CASE NextBlock
  <2>1. hashs' \in Seq(SUBSET Deposit)
    BY <1>7 DEF NextBlock
  <2> QED
    BY <1>7, <2>1 DEF NextBlock
<1>8. CASE ScanDone
  BY <1>8 DEF ScanDone
<1>9. CASE ScanFails
  BY <1>9 DEF ScanFails
<1>10. CASE InsertRow
  BY <1>10 DEF InsertRow
<1>11. CASE InsertFails
  BY <1>11 DEF InsertFails
<1>12. CASE Advance
  BY <1>12 DEF Advance
<1>13. CASE Crash
  BY <1>13 DEF Crash
<1>14. CASE Restart
  BY <1>14 DEF Restart
<1>15. CASE Grow
  BY <1>15 DEF Grow, daemon
<1>16. CASE Reorg
  <2>1. block' \in [Deposit -> 0..tip'] /\ tip' \in 0..MaxTip
    BY <1>16 DEF Reorg
  <2> QED
    BY <1>16, <2>1 DEF Reorg, daemon
<1>17. CASE UNCHANGED vars
  BY <1>17 DEF vars
<1> QED
  BY <1>1, <1>2, <1>3, <1>4, <1>5, <1>6, <1>7, <1>8, <1>9, <1>10, <1>11, <1>12,
     <1>13, <1>14, <1>15, <1>16, <1>17 DEF Next, Daemon, Chain

\* The scan's variables keep their types and are empty between its phases.
THEOREM TypeCorrect == Spec => []TypeOK
<1> QED
  BY TypeInit, TypeStep, PTL DEF Spec

-----------------------------------------------------------------------------
(***************************************************************************)
(* Nothing is skipped.  A deposit that waits to be recorded is, at every   *)
(* moment of a round, in a block still to be fetched, in a block still to  *)
(* be read, or high enough for the next round, which starts at             *)
(* nToIndex - needed_confirms; nToIndex is below the tip, so neither a     *)
(* deposit short of confirmations nor one that a reorganisation of at most *)
(* needed_confirms + 2 blocks moves can be lower than that.                *)
(***************************************************************************)
Waits(d) ==
    d \notin rows /\ d \notin safe2ethMap /\ OnChain(d) /\ block[d] >= StartIndex

Fetched(d) == \E i \in DOMAIN hashs : d \in hashs[i]

NextRound(d) == block[d] >= nToIndex - needed_confirms

Covered(d) ==
    /\ pc = "count"  => block[d] >= g_nBeginIndex
    /\ pc = "hashes" => block[d] >= Asked \/ Fetched(d) \/ NextRound(d)
    /\ pc = "scan"   => Fetched(d) \/ NextRound(d)
    /\ pc = "insert" => NextRound(d)

IndexBelowTip ==
    /\ pc = "count" => \/ g_nBeginIndex = StartIndex
                       \/ g_nBeginIndex <= tip - needed_confirms - 1
    /\ pc \in {"hashes", "scan", "insert"} => nToIndex <= tip - 1

SInv ==
    /\ TypeOK
    /\ IndexBelowTip
    /\ \A d \in Deposit : Waits(d) => Covered(d)

LEMMA IndexStep ==
    ASSUME TypeOK, IndexBelowTip, [Next]_vars
    PROVE  IndexBelowTip'
<1>0. needed_confirms \in Nat /\ tip \in Nat /\ nToIndex \in Int /\ g_nBeginIndex \in Int
  BY DEF TypeOK
<1>1. CASE Daemon
  BY <1>0, <1>1 DEF Daemon, IndexBelowTip, chain, GetBlockCount, GetBlockCountFails,
     FetchHash, HashesDone, FetchFails, ScanTx, NextBlock, ScanDone, ScanFails,
     InsertRow, InsertFails, Advance, Crash, Restart
<1>2. CASE Chain
  BY <1>0, <1>2 DEF Chain, IndexBelowTip, Grow, Reorg, daemon
<1>3. CASE UNCHANGED vars
  BY <1>3 DEF IndexBelowTip, vars
<1> QED
  BY <1>1, <1>2, <1>3 DEF Next

\* A fault is on the log from the step in which it strikes.
LEMMA SufferedGrows ==
    ASSUME TypeOK
    PROVE  /\ [Next]_vars => Suffered \subseteq Suffered'
           /\ \A kind : Fault(kind) => kind \in Suffered'
<1>0. faults \in Seq(FaultKinds)
  BY DEF TypeOK
<1>1. ASSUME NEW kind, Fault(kind)
      PROVE  Suffered' = Suffered \cup {kind}
  <2>1. faults' = Append(faults, kind) /\ kind \in FaultKinds
    BY <1>1 DEF Fault
  <2> QED
    BY <1>0, <2>1 DEF Suffered
<1>2. ASSUME faults' = faults
      PROVE  Suffered' = Suffered
  BY <1>2 DEF Suffered
<1>3. [Next]_vars => (faults' = faults \/ \E kind : Fault(kind))
  BY DEF Next, Daemon, Chain, vars, GetBlockCount, GetBlockCountFails, FetchHash,
     HashesDone, FetchFails, ScanTx, NextBlock, ScanDone, ScanFails, InsertRow,
     InsertFails, Advance, Crash, Restart, Grow, Reorg, daemon
<1> QED
  BY <1>1, <1>2, <1>3

\* A step of the daemon keeps every waiting deposit covered.
LEMMA DaemonCovers ==
    ASSUME (Suffered \subseteq {"crash", "count"})', SInv, Daemon,
           NEW d \in Deposit, Waits(d)'
    PROVE  Covered(d)'
<1>0. /\ needed_confirms \in Nat /\ tip \in Nat /\ nToIndex \in Int
      /\ g_nBeginIndex \in Int /\ block[d] \in Nat /\ hashs \in Seq(SUBSET Deposit)
      /\ Len(hashs) \in Nat /\ tip' = tip /\ block' = block
  BY DEF SInv, TypeOK, Daemon, chain, GetBlockCount, GetBlockCountFails,
     FetchHash, HashesDone, FetchFails, ScanTx, NextBlock, ScanDone, ScanFails,
     InsertRow, InsertFails, Advance, Crash, Restart
<1>1. CASE GetBlockCount \/ GetBlockCountFails
  <2>1. Waits(d) /\ hashs = <<>>
    BY <1>1 DEF GetBlockCount, GetBlockCountFails, Waits, OnChain, chain, SInv, TypeOK
  <2>2. block[d] >= g_nBeginIndex
    BY <1>1, <2>1 DEF SInv, Covered, GetBlockCount, GetBlockCountFails
  <2>3. Asked' = g_nBeginIndex
    BY <1>0, <1>1, <2>1 DEF GetBlockCount, GetBlockCountFails, Asked
  <2> QED
    BY <1>0, <1>1, <2>2, <2>3 DEF GetBlockCount, GetBlockCountFails, Covered
<1>2. CASE FetchHash
  <2>1. Waits(d) /\ Covered(d) /\ pc = "hashes" /\ pc' = "hashes"
    BY <1>2 DEF FetchHash, Waits, OnChain, chain, SInv
  <2> DEFINE now == {e \in Deposit : OnChain(e) /\ block[e] = Asked}
  <2>2. /\ hashs' = Append(hashs, now) /\ now \in SUBSET Deposit
        /\ g_nBeginIndex' = g_nBeginIndex /\ nToIndex' = nToIndex
    BY <1>2 DEF FetchHash
  <2>3. /\ Len(hashs') = Len(hashs) + 1
        /\ \A i \in DOMAIN hashs : i \in DOMAIN hashs' /\ hashs'[i] = hashs[i]
        /\ Len(hashs) + 1 \in DOMAIN hashs' /\ hashs'[Len(hashs) + 1] = now
    BY <1>0, <2>2
  <2>4. Fetched(d) => Fetched(d)'
    BY <2>3 DEF Fetched
  <2>5. d \in now => Fetched(d)'
    BY <2>3 DEF Fetched
  <2>6. block[d] >= Asked => d \in now \/ block[d] >= Asked'
    BY <1>0, <2>1, <2>2, <2>3 DEF Asked, Waits
  <2> QED
    BY <1>0, <2>1, <2>2, <2>4, <2>5, <2>6 DEF Covered, NextRound
<1>3. CASE HashesDone
  <2>1. Waits(d) /\ Covered(d) /\ pc = "hashes" /\ pc' = "scan" /\ Asked > nToIndex
    BY <1>3 DEF HashesDone, Waits, OnChain, chain, SInv
  <2>2. Fetched(d)' <=> Fetched(d)
    BY <1>3 DEF HashesDone, Fetched
  <2>3. block[d] >= Asked => NextRound(d)
    BY <1>0, <2>1 DEF Asked, NextRound
  <2> QED
    BY <1>0, <1>3, <2>1, <2>2, <2>3 DEF Covered, NextRound, HashesDone
<1>4. CASE ScanTx
  <2> PICK e \in Head(hashs) :
         /\ hashs' = [hashs EXCEPT ![1] = Head(hashs) \ {e}]
         /\ safe2ethMap' = IF Qualifies(e) THEN safe2ethMap \cup {e} ELSE safe2ethMap
    BY <1>4 DEF ScanTx
  <2>1. /\ Waits(d) /\ Covered(d) /\ pc = "scan" /\ pc' = "scan"
        /\ nToIndex' = nToIndex /\ hashs # <<>>
    BY <1>4 DEF ScanTx, Waits, OnChain, chain, SInv
  <2>2. CASE d = e
    <3>1. ~Qualifies(e)
      BY <2>2 DEF Waits
    <3>2. Confirmations(d) < needed_confirms
      BY <1>0, <2>1, <2>2, <3>1 DEF Qualifies, Waits, Confirmations
    <3>3. nToIndex <= tip - 1
      BY <2>1 DEF SInv, IndexBelowTip
    <3>4. NextRound(d)
      BY <1>0, <3>2, <3>3 DEF Confirmations, NextRound
    <3> QED
      BY <1>0, <2>1, <3>4 DEF Covered, NextRound
  <2>3. CASE d # e
    <3>1. Fetched(d) => Fetched(d)'
      <4> SUFFICES ASSUME NEW i \in DOMAIN hashs, d \in hashs[i]
                   PROVE  d \in hashs'[i] /\ i \in DOMAIN hashs'
        BY DEF Fetched
      <4>1. i \in DOMAIN hashs' /\ hashs'[i] = IF i = 1 THEN hashs[1] \ {e} ELSE hashs[i]
        BY <1>0, <2>1
      <4> QED
        BY <4>1, <2>3
    <3> QED
      BY <1>0, <2>1, <3>1 DEF Covered, NextRound
  <2> QED
    BY <2>2, <2>3
<1>5. CASE NextBlock
  <2>1. /\ Waits(d) /\ Covered(d) /\ pc = "scan" /\ pc' = "scan"
        /\ nToIndex' = nToIndex /\ hashs # <<>> /\ Head(hashs) = {} /\ hashs' = Tail(hashs)
    BY <1>5 DEF NextBlock, Waits, OnChain, chain, SInv
  <2>2. Fetched(d) => Fetched(d)'
    <3> SUFFICES ASSUME NEW i \in DOMAIN hashs, d \in hashs[i]
                 PROVE  Fetched(d)'
      BY DEF Fetched
    <3>1. i # 1 /\ i \in 1..Len(hashs)
      BY <1>0, <2>1
    <3>2. i - 1 \in DOMAIN Tail(hashs) /\ Tail(hashs)[i - 1] = hashs[i]
      BY <1>0, <2>1, <3>1
    <3> QED
      BY <2>1, <3>2 DEF Fetched
  <2> QED
    BY <1>0, <2>1, <2>2 DEF Covered, NextRound
<1>6. CASE ScanDone
  <2>1. Waits(d) /\ Covered(d) /\ pc = "scan" /\ hashs = <<>> /\ nToIndex' = nToIndex
        /\ pc' = "insert"
    BY <1>6 DEF ScanDone, Waits, OnChain, chain, SInv
  <2>2. ~Fetched(d)
    BY <2>1 DEF Fetched
  <2> QED
    BY <1>0, <2>1, <2>2 DEF Covered, NextRound
<1>7. CASE InsertRow
  BY <1>0, <1>7 DEF InsertRow, Waits, OnChain, chain, SInv, Covered, NextRound
<1>8. CASE Advance
  BY <1>0, <1>8 DEF Advance, Waits, OnChain, chain, SInv, Covered, NextRound
<1>9. CASE Crash
  BY <1>9 DEF Crash, Covered
<1>10. CASE Restart
  BY <1>0, <1>10 DEF Restart, Covered, Waits
<1>11. CASE FetchFails \/ ScanFails \/ InsertFails
  <2>1. \E kind : Fault(kind) /\ kind \notin {"crash", "count"}
    BY <1>11 DEF FetchFails, ScanFails, InsertFails
  <2>2. ~(Suffered \subseteq {"crash", "count"})'
    BY <2>1, SufferedGrows DEF SInv
  <2> QED
    BY <2>2
<1> QED
  BY <1>1, <1>2, <1>3, <1>4, <1>5, <1>6, <1>7, <1>8, <1>9, <1>10, <1>11 DEF Daemon

\* So does a step of the chain, as deep as it may reorganise.
LEMMA ChainCovers ==
    ASSUME MaxReorg <= needed_confirms + 2, SInv, Chain,
           NEW d \in Deposit, Waits(d)'
    PROVE  Covered(d)'
<1>0. /\ needed_confirms \in Nat /\ tip \in Nat /\ nToIndex \in Int
      /\ g_nBeginIndex \in Int /\ Len(hashs) \in Nat
      /\ tip' = tip + 1 /\ UNCHANGED daemon
  BY DEF SInv, TypeOK, Chain, Grow, Reorg
<1>1. block[d] \in Nat /\ block'[d] \in Nat
  BY TypeStep DEF SInv, TypeOK, Next
<1>2. CASE block'[d] = block[d]
  <2>1. Waits(d)
    BY <1>0, <1>2 DEF Waits, OnChain, daemon
  <2> QED
    BY <1>0, <1>2, <2>1 DEF SInv, Covered, NextRound, Fetched, Asked, daemon
<1>3. CASE block'[d] # block[d]
  <2>1. block'[d] >= tip - needed_confirms - 1
    <3>1. CASE Grow
      BY <1>0, <1>1, <1>3, <3>1 DEF Grow
    <3>2. CASE Reorg
      <4> PICK k \in 1..MaxReorg :
             \A e \in Deposit :
               IF OnChain(e) /\ block[e] <= tip - k
                 THEN block'[e] = block[e]
                 ELSE block'[e] = 0 \/ block'[e] > tip - k
        BY <3>2 DEF Reorg
      <4>1. block'[d] > tip - k
        BY <1>3 DEF Waits, OnChain
      <4>2. k <= needed_confirms + 2 /\ k \in Nat
        OBVIOUS
      <4> QED
        BY <1>0, <1>1, <4>1, <4>2
    <3> QED
      BY <3>1, <3>2 DEF Chain
  <2>2. pc \in {"hashes", "scan", "insert"} => NextRound(d)'
    BY <1>0, <1>1, <2>1 DEF SInv, IndexBelowTip, NextRound, daemon
  <2>3. pc = "count" => block'[d] >= g_nBeginIndex
    BY <1>0, <1>1, <2>1 DEF SInv, IndexBelowTip, Waits, daemon
  <2> QED
    BY <1>0, <2>2, <2>3 DEF Covered, daemon
<1> QED
  BY <1>2, <1>3

\* With no failing RPC and no failing insertion, no deposit is ever left
\* behind, for every number of confirmations, every length of the chain, any
\* number of crashes, and reorganisations of up to needed_confirms + 2 blocks.
THEOREM NoDepositSkippedThm == Spec => []NoDepositSkipped
<1> DEFINE A == Suffered \subseteq {"crash", "count"} /\ MaxReorg <= needed_confirms + 2
           J == A => SInv
<1>1. Init => J
  <2> SUFFICES ASSUME Init
               PROVE  SInv
    OBVIOUS
  <2>1. TypeOK
    BY TypeInit
  <2> QED
    BY <2>1 DEF Init, SInv, IndexBelowTip, Waits, Covered
<1>2. TypeOK /\ J /\ [Next]_vars => J'
  <2>1. TypeOK /\ [Next]_vars /\ A' => A
    BY SufferedGrows
  <2> SUFFICES ASSUME A', SInv, [Next]_vars
               PROVE  SInv'
    BY <2>1
  <2>2. TypeOK' /\ IndexBelowTip'
    BY TypeStep, IndexStep DEF SInv
  <2>3. ASSUME NEW d \in Deposit, Waits(d)'
        PROVE  Covered(d)'
    <3>1. CASE Daemon
      BY <2>3, <3>1, DaemonCovers
    <3>2. CASE Chain
      BY <2>3, <3>2, ChainCovers
    <3>3. CASE UNCHANGED vars
      BY <2>3, <3>3 DEF SInv, Waits, OnChain, Covered, Fetched, NextRound, Asked, vars
    <3> QED
      BY <3>1, <3>2, <3>3 DEF Next
  <2> QED
    BY <2>2, <2>3 DEF SInv
<1>3. J => NoDepositSkipped
  <2> SUFFICES ASSUME SInv, pc = "count", NEW d \in Deposit \ rows,
                      OnChain(d), block[d] >= StartIndex
               PROVE  block[d] >= g_nBeginIndex
    BY DEF NoDepositSkipped, NothingSkipped
  <2>1. Waits(d)
    BY DEF Waits, SInv, TypeOK
  <2> QED
    BY <2>1 DEF SInv, Covered
<1> HIDE DEF J
<1> QED
  BY <1>1, <1>2, <1>3, TypeCorrect, PTL DEF Spec

-----------------------------------------------------------------------------
(***************************************************************************)
(* Recorded deposits are final: what the scan lets through is at least     *)
(* needed_confirms deep, and only grows deeper.                            *)
(***************************************************************************)
Deep(d) == OnChain(d) /\ Confirmations(d) >= needed_confirms

RecordedIsDeep == \A d \in rows \cup safe2ethMap : Deep(d)

LEMMA DeepStep ==
    ASSUME MaxReorg < needed_confirms, TypeOK, RecordedIsDeep, [Next]_vars
    PROVE  RecordedIsDeep'
<1>0. rows \cup safe2ethMap \subseteq Deposit /\ tip \in Nat /\ block \in [Deposit -> 0..tip]
  BY DEF TypeOK
<1>1. CASE ScanTx
  BY <1>1 DEF ScanTx, RecordedIsDeep, Deep, Qualifies, OnChain, Confirmations, chain
<1>2. CASE Daemon /\ ~ScanTx
  BY <1>2 DEF RecordedIsDeep, Deep, OnChain, Confirmations, chain, Daemon, GetBlockCount,
     GetBlockCountFails, FetchHash, HashesDone, FetchFails, NextBlock, ScanDone, ScanFails,
     InsertRow, InsertFails, Advance, Crash, Restart
<1>3. CASE Grow
  BY <1>0, <1>3 DEF Grow, daemon, RecordedIsDeep, Deep, OnChain, Confirmations
<1>4. CASE Reorg
  <2> PICK k \in 1..MaxReorg :
         \A d \in Deposit :
           IF OnChain(d) /\ block[d] <= tip - k
             THEN block'[d] = block[d]
             ELSE block'[d] = 0 \/ block'[d] > tip - k
    BY <1>4 DEF Reorg
  <2>1. k \in Nat /\ k <= needed_confirms - 1 /\ needed_confirms \in Nat
    OBVIOUS
  <2>2. ASSUME NEW d \in rows \cup safe2ethMap
        PROVE  Deep(d)'
    <3>1. Deep(d) /\ d \in Deposit /\ block[d] \in Nat
      BY <1>0 DEF RecordedIsDeep
    <3>2. block'[d] = block[d]
      BY <1>0, <2>1, <3>1 DEF Deep, Confirmations
    <3> QED
      BY <1>0, <1>4, <3>1, <3>2 DEF Reorg, Deep, OnChain, Confirmations
  <2> QED
    BY <1>4, <2>2 DEF Reorg, daemon, RecordedIsDeep
<1>5. CASE UNCHANGED vars
  BY <1>5 DEF vars, RecordedIsDeep, Deep, OnChain, Confirmations
<1> QED
  BY <1>1, <1>2, <1>3, <1>4, <1>5 DEF Next, Chain

\* A recorded deposit stays on the chain as long as reorganisations replace
\* fewer than needed_confirms blocks, whatever faults strike the daemon.
THEOREM RecordedDepositIsFinalThm == Spec => []RecordedDepositIsFinal
<1> DEFINE A == MaxReorg < needed_confirms
           J == A => RecordedIsDeep
<1>1. Init => J
  BY DEF Init, RecordedIsDeep
<1>2. TypeOK /\ J /\ [Next]_vars => J'
  BY DeepStep
<1>3. J => RecordedDepositIsFinal
  BY DEF RecordedIsDeep, Deep, RecordedDepositIsFinal
<1> HIDE DEF J
<1> QED
  BY <1>1, <1>2, <1>3, TypeCorrect, PTL DEF Spec
=============================================================================
