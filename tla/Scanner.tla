------------------------------- MODULE Scanner -------------------------------
(***************************************************************************)
(* The daemon's scan of the SAFE chain (mainthread, getBlockCount,         *)
(* getBlockHashes, getSafe2EthList, insert_safe2eth of                     *)
(* projects/safe2eth.cpp).  Each round asks for the height of the chain,   *)
(* fetches the hashes of the blocks from g_nBeginIndex to one below the    *)
(* tip, then the blocks and their transactions one RPC at a time, records  *)
(* the deposits it found and moves g_nBeginIndex back by needed_confirms.  *)
(* Meanwhile the chain (external) grows and reorganises.  Only             *)
(* transactions that pay g_myAddress and carry an eth: address are         *)
(* deposits; the others pass through the scan without effect.  An operator *)
(* named X_Y is X with the mistake Y.                                      *)
(***************************************************************************)
EXTENDS Integers, Sequences, FiniteSets

CONSTANTS
    Deposit,          \* deposit transactions that users may make
    StartIndex,       \* g_nBeginIndex as configured
    needed_confirms,  \* g_need_confirms
    FirstTip,         \* height of the chain when the daemon is first started
    MaxTip,           \* bound: how far the chain grows
    MaxReorg,         \* how many blocks a reorganisation may replace
    MaxReorgs,        \* bound: how many reorganisations
    Faults,           \* kinds of fault the environment may inject
    MaxFaults         \* bound: how many faults

FaultKinds == {"count", "hashes", "scan", "insert", "crash"}

ASSUME IndexAssumption ==
    /\ StartIndex \in Nat \ {0} /\ FirstTip \in Nat
    /\ MaxTip \in Nat /\ FirstTip <= MaxTip
ASSUME ConfirmAssumption == needed_confirms \in Nat \ {0}
ASSUME ReorgAssumption == MaxReorg \in Nat /\ MaxReorgs \in Nat
ASSUME ScanFaultAssumption == Faults \subseteq FaultKinds /\ MaxFaults \in Nat

VARIABLES
    tip,     \* height of the SAFE chain
    block,   \* block[d]: height of the block that holds d, 0 if none does
    rows,    \* txids with a row in table safe2eth (persistent)
    g_nBeginIndex, nToIndex,
    hashs,   \* blocks still to be read, each as the deposits it held when its
             \* hash was fetched
    safe2ethMap,  \* deposits found by this round and not yet inserted
    pc,
    reorgs,
    faults   \* history: the faults so far, oldest first

chain  == <<tip, block, reorgs>>
vars == <<tip, block, rows, g_nBeginIndex, nToIndex, hashs, safe2ethMap, pc,
          reorgs, faults>>

OnChain(d) == block[d] # 0
Confirmations(d) == tip - block[d] + 1

TypeOK ==
    /\ tip \in 0..MaxTip
    /\ block \in [Deposit -> 0..tip]
    /\ rows \subseteq Deposit
    /\ g_nBeginIndex \in Int /\ nToIndex \in Int
    /\ hashs \in Seq(SUBSET Deposit)
    /\ safe2ethMap \subseteq Deposit
    /\ pc \in {"count", "hashes", "scan", "insert", "down"}
    /\ pc \notin {"hashes", "scan"} => hashs = <<>>
    /\ pc \notin {"scan", "insert"} => safe2ethMap = {}
    /\ reorgs \in 0..MaxReorgs
    /\ faults \in Seq(FaultKinds) /\ Len(faults) <= MaxFaults

Init ==
    /\ tip = FirstTip
    /\ block \in [Deposit -> 0..FirstTip]
    /\ rows = {}
    /\ g_nBeginIndex = StartIndex
    /\ nToIndex = 0
    /\ hashs = <<>>
    /\ safe2ethMap = {}
    /\ pc = "count"
    /\ reorgs = 0
    /\ faults = <<>>

Fault(kind) ==
    /\ kind \in Faults
    /\ Len(faults) < MaxFaults
    /\ faults' = Append(faults, kind)

Suffered == {faults[i] : i \in DOMAIN faults}

-----------------------------------------------------------------------------
(* The daemon. *)

\* getBlockCount waits until the chain is higher than g_nBeginIndex.
GetBlockCount ==
    /\ pc = "count"
    /\ g_nBeginIndex < tip
    /\ nToIndex' = tip - 1
    /\ pc' = "hashes"
    /\ UNCHANGED <<chain, rows, g_nBeginIndex, hashs, safe2ethMap, faults>>

\* Its RPC fails and it returns 0.
GetBlockCountFails ==
    /\ pc = "count"
    /\ Fault("count")
    /\ nToIndex' = 0 - 1
    /\ pc' = "hashes"
    /\ UNCHANGED <<chain, rows, g_nBeginIndex, hashs, safe2ethMap>>

\* The height getBlockHashes asks for next.
Asked == g_nBeginIndex + Len(hashs)

\* getblockhash succeeds for the heights from 0 to the tip.
FetchHash ==
    /\ pc = "hashes"
    /\ Asked <= nToIndex /\ Asked \in 0..tip
    /\ hashs' = Append(hashs, {d \in Deposit : OnChain(d) /\ block[d] = Asked})
    /\ UNCHANGED <<chain, rows, g_nBeginIndex, nToIndex, safe2ethMap, pc, faults>>

HashesDone ==
    /\ pc = "hashes"
    /\ Asked > nToIndex
    /\ hashs # <<>>        \* otherwise sleep and ask again
    /\ pc' = "scan"
    /\ UNCHANGED <<chain, rows, g_nBeginIndex, nToIndex, hashs, safe2ethMap, faults>>

\* A getblockhash fails: the loop goes on with the hashes it has, if any.
FetchFails ==
    /\ pc = "hashes"
    /\ Asked <= nToIndex
    /\ Fault("hashes")
    /\ pc' = IF hashs = <<>> THEN "hashes" ELSE "scan"
    /\ UNCHANGED <<chain, rows, g_nBeginIndex, nToIndex, hashs, safe2ethMap>>

Qualifies_OffByOne(d) == OnChain(d) /\ Confirmations(d) + 1 >= needed_confirms
Qualifies(d) == OnChain(d) /\ Confirmations(d) >= needed_confirms

\* The next transaction of the block being read: its confirmations are those
\* of now, wherever it is mined now.
ScanTx ==
    /\ pc = "scan"
    /\ hashs # <<>>
    /\ \E d \in Head(hashs) :
         /\ hashs' = [hashs EXCEPT ![1] = Head(hashs) \ {d}]
         /\ safe2ethMap' = IF Qualifies(d) THEN safe2ethMap \cup {d}
                                           ELSE safe2ethMap
    /\ UNCHANGED <<chain, rows, g_nBeginIndex, nToIndex, pc, faults>>

NextBlock ==
    /\ pc = "scan"
    /\ hashs # <<>> /\ Head(hashs) = {}
    /\ hashs' = Tail(hashs)
    /\ UNCHANGED <<chain, rows, g_nBeginIndex, nToIndex, safe2ethMap, pc, faults>>

ScanDone ==
    /\ pc = "scan"
    /\ hashs = <<>>
    /\ pc' = "insert"
    /\ UNCHANGED <<chain, rows, g_nBeginIndex, nToIndex, hashs, safe2ethMap, faults>>

ScanFails_KeepsHashes ==
    /\ pc = "scan"
    /\ hashs # <<>>
    /\ Fault("scan")
    /\ pc' = "insert"
    /\ UNCHANGED <<chain, rows, g_nBeginIndex, nToIndex, hashs, safe2ethMap>>

\* getblock or getrawtransaction fails: getSafe2EthList returns, and what it
\* has put in the map so far is used.
ScanFails ==
    /\ pc = "scan"
    /\ hashs # <<>>
    /\ Fault("scan")
    /\ hashs' = <<>>
    /\ pc' = "insert"
    /\ UNCHANGED <<chain, rows, g_nBeginIndex, nToIndex, safe2ethMap>>

InsertRow ==
    /\ pc = "insert"
    /\ \E d \in safe2ethMap :
         /\ rows' = rows \cup {d}
         /\ safe2ethMap' = safe2ethMap \ {d}
    /\ UNCHANGED <<chain, g_nBeginIndex, nToIndex, hashs, pc, faults>>

\* insert_safe2eth fails: a line is printed, the record is dropped.
InsertFails ==
    /\ pc = "insert"
    /\ Fault("insert")
    /\ \E d \in safe2ethMap : safe2ethMap' = safe2ethMap \ {d}
    /\ UNCHANGED <<chain, rows, g_nBeginIndex, nToIndex, hashs, pc>>

Advance_NoOverlap ==
    /\ pc = "insert" /\ safe2ethMap = {}
    /\ g_nBeginIndex' = nToIndex + 1
    /\ pc' \in {"count", "down"}
    /\ UNCHANGED <<chain, rows, nToIndex, hashs, safe2ethMap, faults>>

Advance_Forward ==
    /\ pc = "insert" /\ safe2ethMap = {}
    /\ g_nBeginIndex' = nToIndex + needed_confirms
    /\ pc' \in {"count", "down"}
    /\ UNCHANGED <<chain, rows, nToIndex, hashs, safe2ethMap, faults>>

\* Whether or not get_eth2safe succeeds, the next round starts
\* needed_confirms blocks below the last height asked for.  If it succeeds,
\* checkfinance runs, which may end the process (SUM over an empty table is
\* NULL, and insert_callback hands it to atoi).
Advance ==
    /\ pc = "insert" /\ safe2ethMap = {}
    /\ g_nBeginIndex' = nToIndex - needed_confirms
    /\ pc' \in {"count", "down"}
    /\ UNCHANGED <<chain, rows, nToIndex, hashs, safe2ethMap, faults>>

\* The process dies, by itself or on the lookup of a previous transaction
\* that failed (vin_tx.vout is empty then); g_nBeginIndex was never saved.
Crash ==
    /\ pc # "down"
    /\ Fault("crash")
    /\ pc' = "down"
    /\ hashs' = <<>> /\ safe2ethMap' = {}
    /\ UNCHANGED <<chain, rows, g_nBeginIndex, nToIndex>>

Restart ==
    /\ pc = "down"
    /\ g_nBeginIndex' = StartIndex
    /\ pc' = "count"
    /\ UNCHANGED <<chain, rows, nToIndex, hashs, safe2ethMap, faults>>

-----------------------------------------------------------------------------
(* The SAFE chain (external). *)

daemon == <<rows, g_nBeginIndex, nToIndex, hashs, safe2ethMap, pc, faults>>

\* A new block holds some of the deposits that are in no block yet.
Grow ==
    /\ tip < MaxTip
    /\ tip' = tip + 1
    /\ \E D \in SUBSET {d \in Deposit : ~OnChain(d)} :
         block' = [d \in Deposit |-> IF d \in D THEN tip' ELSE block[d]]
    /\ UNCHANGED <<reorgs, daemon>>

\* The last k blocks are replaced by k + 1 others, in which the deposits
\* they held and those in no block may be at any height, or missing.
Reorg ==
    /\ tip < MaxTip
    /\ reorgs < MaxReorgs
    /\ reorgs' = reorgs + 1
    /\ tip' = tip + 1
    /\ \E k \in 1..MaxReorg :
         /\ k <= tip
         /\ block' \in [Deposit -> {0} \cup 1..(tip + 1)]
         /\ \A d \in Deposit :
              IF OnChain(d) /\ block[d] <= tip - k
                THEN block'[d] = block[d]
                ELSE block'[d] = 0 \/ block'[d] > tip - k
    /\ UNCHANGED daemon

-----------------------------------------------------------------------------
Daemon ==
    \/ GetBlockCount \/ GetBlockCountFails
    \/ FetchHash \/ HashesDone \/ FetchFails
    \/ ScanTx \/ NextBlock \/ ScanDone \/ ScanFails
    \/ InsertRow \/ InsertFails \/ Advance
    \/ Crash \/ Restart

Chain == Grow \/ Reorg

Next == Daemon \/ Chain

Spec == Init /\ [][Next]_vars

\* The loop runs, the chain grows, and a dead daemon is restarted.
DaemonProgress ==
    \/ GetBlockCount \/ FetchHash \/ HashesDone \/ ScanTx \/ NextBlock
    \/ ScanDone \/ InsertRow \/ Advance \/ Restart

Fairness == WF_vars(DaemonProgress) /\ WF_vars(Grow)

FairSpec == Spec /\ Fairness

-----------------------------------------------------------------------------
(* Properties. *)

\* No scan leaves a deposit behind: at the start of a round every deposit on
\* the chain at or above the configured start, and not yet in the table, is
\* at a height the round will read or that a later one will.  The comment at
\* safe2eth.cpp:884 claims it of the step back ("so that transactions that
\* had not reached the confirmations the last time are not missed").
NothingSkipped ==
    pc = "count" =>
      \A d \in Deposit \ rows :
        OnChain(d) /\ block[d] >= StartIndex => block[d] >= g_nBeginIndex

\* It is true as long as every RPC of the scan and every insertion succeeded,
\* also when the daemon crashed and when blocks are replaced while they are
\* being read, up to two more of them than the scan steps back.
NoDepositSkipped ==
    /\ Suffered \subseteq {"crash", "count"}
    /\ MaxReorg <= needed_confirms + 2
    => NothingSkipped

\* As long as reorganisations replace fewer blocks than needed_confirms, a
\* deposit that was recorded (and so may have been minted) stays on the
\* chain, although the scan reads the block and the confirmations at
\* different times.
RecordedDepositIsFinal ==
    MaxReorg < needed_confirms => \A d \in rows \cup safe2ethMap : OnChain(d)

\* A deposit that stays on the chain, deep enough to be confirmed once the
\* chain has grown, is recorded in the end, crashes or not.  The step back
\* needs StartIndex >= needed_confirms: from a lower start it asks for a
\* negative height, which never succeeds.
DepositRecorded ==
    \A d \in Deposit :
      <>[](/\ OnChain(d) /\ block[d] >= StartIndex
           /\ block[d] + needed_confirms <= MaxTip
           /\ StartIndex >= needed_confirms
           /\ Suffered \subseteq {"crash"})
      => <>(d \in rows)

\* The loop never stops going round: safe2eth.cpp:833 says of a failed
\* request for hashes that it is waiting before it asks again.
RoundsContinue == (pc = "hashes") ~> (pc # "hashes")
=============================================================================
