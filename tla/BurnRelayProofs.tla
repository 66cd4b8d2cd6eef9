---------------------------- MODULE BurnRelayProofs ----------------------------
(***************************************************************************)
(* Proofs about BurnRelay for every set of burns, every grouping of them   *)
(* into transactions, every selection of fault kinds and every number of   *)
(* faults.                                                                 *)
(***************************************************************************)
EXTENDS BurnRelay, SequenceTheorems, TLAPS

(***************************************************************************)
(* The inductive invariant has two halves.  The first is about what the    *)
(* gateway and the daemon hold in memory.                                  *)
(***************************************************************************)
FaultsTyped == faults \in Seq(FaultKinds) /\ Len(faults) <= MaxFaults

MemoryTyped ==
    /\ emitted \subseteq Burn
    /\ nodeUp \in BOOLEAN /\ subscribed \in BOOLEAN
    /\ todo \subseteq Burn /\ eth2safe_table \subseteq Burn
    /\ ~nodeUp => todo = {} /\ eth2safe_table = {} /\ rpc # "asked" /\ orphans = 0
    /\ rpc \in {"none", "asked", "replied"} /\ reply \subseteq Burn
    /\ rpc # "none" => pc = "events"
    /\ orphans \in Nat
    /\ pc \in {"select", "send", "wait", "update", "ask", "events", "insert", "down"}
    /\ eth2safeMap \subseteq Burn
    /\ FaultsTyped

(***************************************************************************)
(* The second is about the table and the payouts.  A payout is open only   *)
(* while the daemon waits for it or stores its txid, and then its row is   *)
(* one of the selected ones, none of which has a txid; so when a txid is   *)
(* stored there was none before, and there is no request for that row      *)
(* afterwards.                                                             *)
(***************************************************************************)
LedgerTyped ==
    /\ mymap \subseteq {t \in EthTx : row[t] # NoBurn}
    /\ row \in [EthTx -> Burn \cup {NoBurn}]
    /\ txid \in [EthTx -> Nat]
    /\ payouts \in Seq(PayoutRec)

Waiting == pc \in {"wait", "update"}

OpenPayoutIsCurrent ==
    /\ Waiting => /\ Len(payouts) > 0
                  /\ payouts[Len(payouts)].fate = "open"
                  /\ payouts[Len(payouts)].tx \in mymap
    /\ \A c \in DOMAIN payouts : payouts[c].fate = "open" => Waiting /\ c = Len(payouts)

SelectedRowsUnpaid == \A t \in mymap : txid[t] = 0

RecordedPayoutIsStored ==
    \A c \in DOMAIN payouts :
      payouts[c].fate = "recorded" => txid[payouts[c].tx] = c

\* A row is of the transaction it is filed under, and only rows have a txid.
RowsAreFiled ==
    \A t \in EthTx : /\ row[t] # NoBurn => TxOf[row[t]] = t
                     /\ txid[t] # 0 => row[t] # NoBurn

LedgerInv ==
    /\ LedgerTyped
    /\ OpenPayoutIsCurrent
    /\ SelectedRowsUnpaid
    /\ RecordedPayoutIsStored
    /\ RowsAreFiled

IInv == MemoryTyped /\ LedgerInv

LEMMA TypeFromInv == IInv => TypeOK
BY DEF IInv, MemoryTyped, LedgerInv, LedgerTyped, FaultsTyped, TypeOK

-----------------------------------------------------------------------------
(* Lemmas about the sequence of payouts and the log of faults. *)

\* Overwriting one payout keeps the others and the length.
LEMMA PayoutUpdated ==
    ASSUME NEW s \in Seq(PayoutRec), NEW c \in DOMAIN s, NEW r \in PayoutRec
    PROVE  /\ [s EXCEPT ![c] = r] \in Seq(PayoutRec)
           /\ DOMAIN [s EXCEPT ![c] = r] = DOMAIN s
           /\ Len([s EXCEPT ![c] = r]) = Len(s)
           /\ \A i \in DOMAIN s : [s EXCEPT ![c] = r][i] = IF i = c THEN r ELSE s[i]
<1>1. c \in 1..Len(s)
  OBVIOUS
<1> QED
  BY <1>1, ExceptSeq

\* A new payout is the last one and leaves the older ones as they were.
LEMMA PayoutAppended ==
    ASSUME NEW s \in Seq(PayoutRec), NEW r \in PayoutRec
    PROVE  /\ Append(s, r) \in Seq(PayoutRec)
           /\ Len(Append(s, r)) = Len(s) + 1
           /\ DOMAIN Append(s, r) = DOMAIN s \cup {Len(s) + 1}
           /\ \A i \in DOMAIN s : Append(s, r)[i] = s[i]
           /\ Append(s, r)[Len(s) + 1] = r
  OBVIOUS

\* One injected fault keeps the log within its bound.
LEMMA FaultLogged ==
    ASSUME FaultsTyped, NEW kind, Fault(kind)
    PROVE  FaultsTyped' /\ Suffered' = Suffered \cup {kind}
<1>1. faults' = Append(faults, kind) /\ kind \in FaultKinds
  BY BurnFaultAssumption DEF Fault
<1> QED
  BY <1>1, BurnFaultAssumption DEF Fault, FaultsTyped, Suffered

-----------------------------------------------------------------------------
(* The table and the payouts, one lemma for every kind of step. *)

\* The daemon does something else; at most it selects unpaid rows.
LEMMA LocalStep ==
    ASSUME LedgerInv, UNCHANGED <<table, payouts>>, ~Waiting, ~Waiting',
           mymap' \subseteq select_eth2safe \cup mymap
    PROVE  LedgerInv'
<1> USE DEF table
<1>1. LedgerTyped'
  BY DEF LedgerInv, LedgerTyped, select_eth2safe
<1>2. OpenPayoutIsCurrent'
  BY DEF LedgerInv, OpenPayoutIsCurrent
<1>3. SelectedRowsUnpaid'
  BY DEF LedgerInv, SelectedRowsUnpaid, select_eth2safe
<1>4. RecordedPayoutIsStored'
  BY DEF LedgerInv, RecordedPayoutIsStored
<1>5. RowsAreFiled'
  BY DEF LedgerInv, RowsAreFiled
<1> QED
  BY <1>1, <1>2, <1>3, <1>4, <1>5 DEF LedgerInv

\* Somebody else moves.
LEMMA ElsewhereStep ==
    ASSUME LedgerInv, UNCHANGED <<pc, mymap, table, payouts>>
    PROVE  LedgerInv'
BY DEF LedgerInv, LedgerTyped, OpenPayoutIsCurrent, Waiting, SelectedRowsUnpaid,
       RecordedPayoutIsStored, RowsAreFiled, table

\* One payout changes without changing its transaction and its fate.
LEMMA WalletStepKeeps ==
    ASSUME LedgerInv, NEW c \in DOMAIN payouts, NEW to \in {"paid", "refused"},
           WalletStep(c, to)
    PROVE  LedgerInv'
<1> DEFINE r == [payouts[c] EXCEPT !.wallet = to]
<1> USE DEF table
<1>1. payouts[c] \in PayoutRec /\ payouts \in Seq(PayoutRec)
  BY DEF LedgerInv, LedgerTyped
<1>2. r \in PayoutRec /\ r.tx = payouts[c].tx /\ r.fate = payouts[c].fate
  BY <1>1 DEF PayoutRec
<1>3. payouts' = [payouts EXCEPT ![c] = r] /\ UNCHANGED <<pc, mymap, row, txid>>
  BY <1>1 DEF WalletStep
<1>4. /\ payouts' \in Seq(PayoutRec)
      /\ DOMAIN payouts' = DOMAIN payouts
      /\ Len(payouts') = Len(payouts)
      /\ \A i \in DOMAIN payouts : payouts'[i] = IF i = c THEN r ELSE payouts[i]
  BY <1>1, <1>2, <1>3, PayoutUpdated
<1> HIDE DEF r
<1>5. \A i \in DOMAIN payouts : /\ payouts'[i].tx = payouts[i].tx
                                /\ payouts'[i].fate = payouts[i].fate
  BY <1>2, <1>4
<1>6. Len(payouts) > 0 => Len(payouts) \in DOMAIN payouts
  BY <1>1
<1>7. LedgerTyped'
  BY <1>3, <1>4 DEF LedgerInv, LedgerTyped
<1>8. OpenPayoutIsCurrent'
  BY <1>3, <1>4, <1>5, <1>6 DEF LedgerInv, OpenPayoutIsCurrent, Waiting
<1>9. SelectedRowsUnpaid' /\ RowsAreFiled'
  BY <1>3 DEF LedgerInv, SelectedRowsUnpaid, RowsAreFiled
<1>10. RecordedPayoutIsStored'
  BY <1>3, <1>4, <1>5 DEF LedgerInv, RecordedPayoutIsStored
<1> QED
  BY <1>7, <1>8, <1>9, <1>10 DEF LedgerInv

(***************************************************************************)
(* The daemon lets go of the current payout without storing its txid: it   *)
(* is left abandoned and its row is still unpaid.                          *)
(***************************************************************************)
Abandons(left) ==
    /\ Waiting /\ ~Waiting'
    /\ payouts' = [payouts EXCEPT ![Len(payouts)].fate = "abandoned"]
    /\ left \subseteq mymap /\ mymap' = left
    /\ UNCHANGED table

LEMMA AbandonsKeeps ==
    ASSUME LedgerInv, NEW left, Abandons(left)
    PROVE  LedgerInv'
<1> DEFINE L == Len(payouts)
           r == [payouts[L] EXCEPT !.fate = "abandoned"]
<1> USE DEF table
<1>1. L \in DOMAIN payouts /\ payouts[L] \in PayoutRec /\ payouts \in Seq(PayoutRec)
  BY DEF Abandons, Waiting, LedgerInv, LedgerTyped, OpenPayoutIsCurrent
<1>2. r \in PayoutRec /\ r.fate = "abandoned" /\ r.tx = payouts[L].tx
  BY <1>1 DEF PayoutRec
<1>3. payouts' = [payouts EXCEPT ![L] = r]
  BY <1>1 DEF Abandons
<1>4. /\ payouts' \in Seq(PayoutRec)
      /\ DOMAIN payouts' = DOMAIN payouts
      /\ \A i \in DOMAIN payouts : payouts'[i] = IF i = L THEN r ELSE payouts[i]
  BY <1>1, <1>2, <1>3, PayoutUpdated
<1> HIDE DEF r
<1>5. LedgerTyped'
  BY <1>4 DEF LedgerInv, LedgerTyped, Abandons
<1>6. OpenPayoutIsCurrent'
  BY <1>2, <1>4 DEF LedgerInv, OpenPayoutIsCurrent, Abandons
<1>7. SelectedRowsUnpaid' /\ RowsAreFiled'
  BY DEF LedgerInv, SelectedRowsUnpaid, RowsAreFiled, Abandons
<1>8. RecordedPayoutIsStored'
  BY <1>2, <1>4 DEF LedgerInv, RecordedPayoutIsStored, Abandons
<1> QED
  BY <1>5, <1>6, <1>7, <1>8 DEF LedgerInv

\* The txid is stored in the row of the current payout, which had none.
LEMMA StoreTxidKeeps ==
    ASSUME LedgerInv, StoreTxid
    PROVE  LedgerInv'
<1> DEFINE L == Len(payouts)
           t == payouts[L].tx
           r == [payouts[L] EXCEPT !.fate = "recorded"]
<1>1. /\ L \in DOMAIN payouts /\ L # 0 /\ L \in Nat
      /\ payouts[L] \in PayoutRec /\ payouts \in Seq(PayoutRec)
      /\ t \in mymap
  BY DEF StoreTxid, Waiting, LedgerInv, LedgerTyped, OpenPayoutIsCurrent
<1>2. r \in PayoutRec /\ r.fate = "recorded" /\ r.tx = t
  BY <1>1 DEF PayoutRec
<1>3. /\ payouts' = [payouts EXCEPT ![L] = r]
      /\ row' = row /\ txid' = [txid EXCEPT ![t] = L]
      /\ mymap' = mymap \ {t} /\ pc' = "send"
  BY <1>1 DEF StoreTxid, update_eth2safe, Finish, Cur
<1>4. /\ payouts' \in Seq(PayoutRec)
      /\ DOMAIN payouts' = DOMAIN payouts
      /\ \A i \in DOMAIN payouts : payouts'[i] = IF i = L THEN r ELSE payouts[i]
  BY <1>1, <1>2, <1>3, PayoutUpdated
<1>5. t \in EthTx /\ row[t] # NoBurn /\ txid[t] = 0 /\ txid \in [EthTx -> Nat]
  BY <1>1 DEF LedgerInv, LedgerTyped, SelectedRowsUnpaid
<1>6. txid'[t] = L /\ \A u \in EthTx : u # t => txid'[u] = txid[u]
  BY <1>3, <1>5
<1> HIDE DEF r, t
<1>7. LedgerTyped'
  BY <1>1, <1>3, <1>4, <1>5 DEF LedgerInv, LedgerTyped
<1>8. OpenPayoutIsCurrent'
  BY <1>2, <1>3, <1>4 DEF LedgerInv, OpenPayoutIsCurrent, Waiting
<1>9. SelectedRowsUnpaid'
  BY <1>3, <1>6 DEF LedgerInv, LedgerTyped, SelectedRowsUnpaid
<1>10. RecordedPayoutIsStored'
  <2> SUFFICES ASSUME NEW c \in DOMAIN payouts, payouts'[c].fate = "recorded"
               PROVE  txid'[payouts'[c].tx] = c
    BY <1>4 DEF RecordedPayoutIsStored
  <2>1. CASE c = L
    BY <2>1, <1>2, <1>4, <1>6
  <2>2. CASE c # L
    <3>1. payouts'[c] = payouts[c] /\ txid[payouts[c].tx] = c
      BY <2>2, <1>4 DEF LedgerInv, RecordedPayoutIsStored
    <3>2. payouts[c] \in PayoutRec /\ c # 0
      BY <1>1
    <3>3. payouts[c].tx \in EthTx /\ payouts[c].tx # t
      BY <3>1, <3>2, <1>5 DEF PayoutRec
    <3> QED
      BY <3>1, <3>3, <1>6
  <2> QED
    BY <2>1, <2>2
<1>11. RowsAreFiled'
  BY <1>3, <1>5, <1>6 DEF LedgerInv, RowsAreFiled
<1> QED
  BY <1>7, <1>8, <1>9, <1>10, <1>11 DEF LedgerInv

\* A payout is requested for an unpaid row while no other is open.
LEMMA SendPayoutKeeps ==
    ASSUME LedgerInv, SendPayout
    PROVE  LedgerInv'
<1> PICK t \in mymap :
       payouts' = Append(payouts, [tx |-> t, fate |-> "open", wallet |-> "asked"])
  BY DEF SendPayout
<1> DEFINE L == Len(payouts)
           r == [tx |-> t, fate |-> "open", wallet |-> "asked"]
<1>1. r \in PayoutRec /\ r.fate = "open" /\ r.tx = t
  BY DEF LedgerInv, LedgerTyped, PayoutRec
<1>2. /\ payouts' \in Seq(PayoutRec)
      /\ Len(payouts') = L + 1 /\ L \in Nat /\ L + 1 \notin DOMAIN payouts
      /\ DOMAIN payouts' = DOMAIN payouts \cup {L + 1}
      /\ \A i \in DOMAIN payouts : payouts'[i] = payouts[i]
      /\ payouts'[L + 1] = r
  BY <1>1, PayoutAppended DEF LedgerInv, LedgerTyped
<1>3. pc = "send" /\ pc' = "wait" /\ UNCHANGED <<row, txid, mymap>>
  BY DEF SendPayout, table
<1> HIDE DEF r
<1>4. LedgerTyped'
  BY <1>2, <1>3 DEF LedgerInv, LedgerTyped
<1>5. OpenPayoutIsCurrent'
  BY <1>1, <1>2, <1>3 DEF LedgerInv, OpenPayoutIsCurrent, Waiting
<1>6. SelectedRowsUnpaid' /\ RowsAreFiled'
  BY <1>3 DEF LedgerInv, SelectedRowsUnpaid, RowsAreFiled
<1>7. RecordedPayoutIsStored'
  BY <1>1, <1>2, <1>3 DEF LedgerInv, RecordedPayoutIsStored
<1> QED
  BY <1>4, <1>5, <1>6, <1>7 DEF LedgerInv

\* What an insertion does to the table: a new row without a txid, or nothing.
LEMMA InsertEffect ==
    ASSUME LedgerInv, NEW b \in Burn, insert_eth2safe(b)
    PROVE  /\ txid' = txid
           /\ \/ row' = row /\ row[TxOf[b]] # NoBurn
              \/ row[TxOf[b]] = NoBurn /\ row' = [row EXCEPT ![TxOf[b]] = b]
           /\ TxOf[b] \in EthTx
<1>1. TxOf[b] \in EthTx
  BY DEF EthTx
<1>2. CASE row[TxOf[b]] # NoBurn
  BY <1>1, <1>2 DEF insert_eth2safe, table
<1>3. CASE row[TxOf[b]] = NoBurn
  <2>1. /\ row' = [row EXCEPT ![TxOf[b]] = b]
        /\ txid' = [txid EXCEPT ![TxOf[b]] = 0]
    BY <1>3 DEF insert_eth2safe
  <2>2. txid[TxOf[b]] = 0 /\ txid \in [EthTx -> Nat]
    BY <1>1, <1>3 DEF LedgerInv, LedgerTyped, RowsAreFiled
  <2> QED
    BY <1>1, <1>3, <2>1, <2>2
<1> QED
  BY <1>2, <1>3

LEMMA InsertRowKeeps ==
    ASSUME LedgerInv, NEW b \in Burn, insert_eth2safe(b),
           UNCHANGED <<pc, mymap, payouts>>
    PROVE  LedgerInv'
<1>1. /\ txid' = txid /\ TxOf[b] \in EthTx /\ b # NoBurn
      /\ row \in [EthTx -> Burn \cup {NoBurn}]
      /\ \/ row' = row
         \/ row[TxOf[b]] = NoBurn /\ row' = [row EXCEPT ![TxOf[b]] = b]
  BY InsertEffect, BurnAssumption DEF LedgerInv, LedgerTyped
<1>2. /\ row' \in [EthTx -> Burn \cup {NoBurn}]
      /\ \A t \in EthTx : \/ row'[t] = row[t]
                          \/ row[t] = NoBurn /\ row'[t] = b /\ TxOf[b] = t
  BY <1>1
<1>3. LedgerTyped'
  BY <1>1, <1>2 DEF LedgerInv, LedgerTyped
<1>4. OpenPayoutIsCurrent' /\ SelectedRowsUnpaid' /\ RecordedPayoutIsStored'
  BY <1>1 DEF LedgerInv, OpenPayoutIsCurrent, Waiting, SelectedRowsUnpaid,
              RecordedPayoutIsStored
<1>5. RowsAreFiled'
  BY <1>1, <1>2 DEF LedgerInv, RowsAreFiled
<1> QED
  BY <1>3, <1>4, <1>5 DEF LedgerInv

-----------------------------------------------------------------------------
(* The invariant holds initially and is preserved by every action. *)

LEMMA InitInv == Init => IInv
BY BurnFaultAssumption
   DEF Init, IInv, MemoryTyped, FaultsTyped, LedgerInv, LedgerTyped, OpenPayoutIsCurrent,
       Waiting, SelectedRowsUnpaid, RecordedPayoutIsStored, RowsAreFiled

\* The memories of the gateway and of the daemon keep their types.
LEMMA MemoryStep ==
    ASSUME IInv, [Next]_vars
    PROVE  MemoryTyped'
<1> USE DEF MemoryTyped
<1>0. /\ MemoryTyped
      /\ \A kind : Fault(kind) => FaultsTyped'
      /\ faults' = faults => FaultsTyped'
  BY FaultLogged DEF IInv, FaultsTyped
<1>1. ASSUME NEW b \in Burn, Emit(b) \/ DropBurn(b) \/ Deliver(b)
      PROVE  MemoryTyped'
  BY <1>0, <1>1 DEF Emit, DropBurn, Deliver
<1>2. CASE SocketDrops \/ NodeCrash \/ NodeRestart
  <2>1. CASE SocketDrops
    BY <1>0, <2>1 DEF SocketDrops
  <2>2. CASE NodeCrash
    BY <1>0, <2>2 DEF NodeCrash
  <2>3. CASE NodeRestart
    BY <1>0, <2>3 DEF NodeRestart
  <2> QED
    BY <1>2, <2>1, <2>2, <2>3
<1>3. CASE Drain \/ DrainForNobody
  BY <1>0, <1>3 DEF Drain, DrainForNobody
<1>4. CASE Ask \/ ReceiveEvents \/ AskFails
  BY <1>0, <1>4 DEF Ask, ReceiveEvents, AskFails, gateway
<1>5. CASE LoseReply \/ Crash
  BY <1>0, <1>5 DEF LoseReply, Crash, HangUp, gateway
<1>6. CASE InsertRow \/ InsertFails \/ RoundEnds
  BY <1>0, <1>6 DEF InsertRow, InsertFails, RoundEnds, gateway
<1>7. CASE SelectPending \/ SelectFails \/ SendPayout \/ ReceiveTxid \/ ThreadEnds \/ Restart
  BY <1>0, <1>7 DEF SelectPending, SelectFails, SendPayout, ReceiveTxid, ThreadEnds,
                    Restart, gateway
<1>8. CASE ReceiveError \/ Timeout \/ StoreTxid \/ StoreFails
  BY <1>0, <1>8 DEF ReceiveError, Timeout, StoreTxid, StoreFails, Finish, gateway
<1>9. ASSUME NEW c \in DOMAIN payouts, WalletPays(c) \/ WalletRefuses(c)
      PROVE  MemoryTyped'
  BY <1>0, <1>9 DEF WalletPays, WalletRefuses, WalletStep, gateway
<1>10. CASE UNCHANGED vars
  BY <1>0, <1>10 DEF vars, gateway
<1> QED
  BY <1>1, <1>2, <1>3, <1>4, <1>5, <1>6, <1>7, <1>8, <1>9, <1>10
     DEF Next, Gateway, Daemon, Ethereum, Wallet

\* So do the table and the payouts.
LEMMA LedgerStep ==
    ASSUME IInv, [Next]_vars
    PROVE  LedgerInv'
<1>0. LedgerInv /\ payouts \in Seq(PayoutRec)
  BY DEF IInv, LedgerInv, LedgerTyped
<1>1. CASE Gateway \/ Ethereum \/ UNCHANGED vars
  <2>1. UNCHANGED <<pc, mymap, table, payouts>>
    BY <1>1 DEF Gateway, Ethereum, vars, Emit, DropBurn, Deliver, SocketDrops, NodeCrash,
                NodeRestart, Drain, DrainForNobody
  <2> QED
    BY <1>0, <2>1, ElsewhereStep
<1>2. CASE Wallet
  <2>1. PICK c \in DOMAIN payouts : WalletStep(c, "paid") \/ WalletStep(c, "refused")
    BY <1>2 DEF Wallet, WalletPays, WalletRefuses
  <2> QED
    BY <1>0, <2>1, WalletStepKeeps
<1>3. CASE Ask \/ ReceiveEvents \/ AskFails \/ LoseReply \/ InsertFails \/ RoundEnds
           \/ SelectPending \/ SelectFails \/ ThreadEnds \/ Restart
  <2>1. /\ UNCHANGED <<table, payouts>> /\ ~Waiting /\ ~Waiting'
        /\ mymap' \subseteq select_eth2safe \cup mymap
    BY <1>3 DEF Ask, ReceiveEvents, AskFails, LoseReply, InsertFails, RoundEnds,
                SelectPending, SelectFails, ThreadEnds, Restart, Waiting
  <2> QED
    BY <1>0, <2>1, LocalStep
<1>4. CASE InsertRow
  <2>1. PICK b \in eth2safeMap : insert_eth2safe(b)
    BY <1>4 DEF InsertRow
  <2>2. b \in Burn
    BY DEF IInv, MemoryTyped
  <2> QED
    BY <1>0, <1>4, <2>1, <2>2, InsertRowKeeps DEF InsertRow
<1>5. CASE SendPayout
  BY <1>0, <1>5, SendPayoutKeeps
<1>6. CASE ReceiveTxid
  BY <1>0, <1>6 DEF ReceiveTxid, LedgerInv, LedgerTyped, OpenPayoutIsCurrent, Waiting,
                    SelectedRowsUnpaid, RecordedPayoutIsStored, RowsAreFiled, table
<1>7. CASE ReceiveError \/ Timeout \/ StoreFails
  <2>1. Abandons(mymap \ {payouts[Cur].tx})
    BY <1>7 DEF ReceiveError, Timeout, StoreFails, Finish, Cur, Abandons, Waiting
  <2> QED
    BY <1>0, <2>1, AbandonsKeeps
<1>8. CASE StoreTxid
  BY <1>0, <1>8, StoreTxidKeeps
<1>9. CASE Crash
  <2>1. CASE Waiting
    <3>1. Abandons({})
      BY <1>9, <2>1 DEF Crash, Cur, Abandons, Waiting
    <3> QED
      BY <1>0, <3>1, AbandonsKeeps
  <2>2. CASE ~Waiting
    BY <1>0, <1>9, <2>2, LocalStep DEF Crash, Waiting
  <2> QED
    BY <2>1, <2>2
<1> QED
  BY <1>1, <1>2, <1>3, <1>4, <1>5, <1>6, <1>7, <1>8, <1>9 DEF Next, Daemon

\* The inductive invariant holds in every reachable state.
THEOREM Invariance == Spec => []IInv
<1>1. IInv /\ [Next]_vars => IInv'
  BY MemoryStep, LedgerStep DEF IInv
<1> QED
  BY InitInv, <1>1, PTL DEF Spec

\* The memories, the table and the payouts of the peg-out relay keep their
\* types.
THEOREM TypeCorrect == Spec => []TypeOK
BY Invariance, TypeFromInv, PTL

\* Of the payments for one burn transaction at most one belongs to a request
\* whose outcome the daemon did not lose: an open one is the last and its row
\* is unpaid, a recorded one is the one its row names.
THEOREM OneAccountedPayoutThm == Spec => []OneAccountedPayout
<1>1. IInv => OneAccountedPayout
  <2> SUFFICES ASSUME IInv, NEW t \in EthTx, NEW b \in Paid(t), NEW c \in Paid(t), b # c,
                      payouts[b].fate # "abandoned", payouts[c].fate # "abandoned"
               PROVE  FALSE
    BY DEF OneAccountedPayout
  <2>1. /\ b \in DOMAIN payouts /\ payouts[b] \in PayoutRec /\ payouts[b].tx = t
        /\ c \in DOMAIN payouts /\ payouts[c] \in PayoutRec /\ payouts[c].tx = t
        /\ b # 0 /\ c # 0
    BY DEF Paid, IInv, LedgerInv, LedgerTyped
  <2>2. payouts[b].fate \in {"open", "recorded"} /\ payouts[c].fate \in {"open", "recorded"}
    BY <2>1 DEF PayoutRec
  <2>3. \A i \in DOMAIN payouts :
          /\ payouts[i].fate = "open" =>
               /\ Waiting /\ i = Len(payouts)
               /\ txid[payouts[Len(payouts)].tx] = 0
          /\ payouts[i].fate = "recorded" => txid[payouts[i].tx] = i
    BY DEF IInv, LedgerInv, OpenPayoutIsCurrent, SelectedRowsUnpaid, RecordedPayoutIsStored
  <2> QED
    BY <2>1, <2>2, <2>3
<1> QED
  BY <1>1, Invariance, PTL

\* A stored payout is never forgotten or replaced: an insertion leaves known
\* rows alone, and a txid is stored only in a selected, hence unpaid, row.
THEOREM StoredPayoutIsFinalThm == Spec => StoredPayoutIsFinal
<1> DEFINE Final ==
      \A t \in EthTx : txid[t] # 0 => row'[t] = row[t] /\ txid'[t] = txid[t]
<1>1. IInv /\ [Next]_vars => Final
  <2> SUFFICES ASSUME IInv, [Next]_vars, NEW t \in EthTx, txid[t] # 0
               PROVE  row'[t] = row[t] /\ txid'[t] = txid[t]
    OBVIOUS
  <2>0. LedgerInv /\ row[t] # NoBurn /\ row \in [EthTx -> Burn \cup {NoBurn}]
        /\ txid \in [EthTx -> Nat] /\ eth2safeMap \subseteq Burn
    BY DEF IInv, MemoryTyped, LedgerInv, LedgerTyped, RowsAreFiled
  <2>1. CASE InsertRow
    <3>1. PICK b \in Burn : insert_eth2safe(b)
      BY <2>0, <2>1 DEF InsertRow
    <3>2. /\ txid' = txid
          /\ \/ row' = row
             \/ row[TxOf[b]] = NoBurn /\ row' = [row EXCEPT ![TxOf[b]] = b]
      BY <2>0, <3>1, InsertEffect
    <3> QED
      BY <2>0, <3>2
  <2>2. CASE StoreTxid
    <3>1. payouts[Cur].tx # t
      BY <2>0, <2>2 DEF StoreTxid, Cur, LedgerInv, OpenPayoutIsCurrent, Waiting,
                        SelectedRowsUnpaid
    <3> QED
      BY <2>0, <2>2, <3>1 DEF StoreTxid, update_eth2safe
  <2>3. CASE ~InsertRow /\ ~StoreTxid
    <3>1. UNCHANGED table
      BY <2>3 DEF Next, Gateway, Daemon, Ethereum, Wallet, vars, Emit, DropBurn, Deliver,
         SocketDrops, NodeCrash, NodeRestart, Drain, DrainForNobody, Ask, ReceiveEvents,
         AskFails, LoseReply, InsertFails, RoundEnds, SelectPending, SelectFails,
         SendPayout, ReceiveTxid, ReceiveError, Timeout, StoreFails, ThreadEnds, Crash,
         Restart, WalletPays, WalletRefuses, WalletStep
    <3> QED
      BY <3>1 DEF table
  <2> QED
    BY <2>1, <2>2, <2>3
<1>2. IInv /\ [Next]_vars => [Final]_vars
  BY <1>1
<1>3. StoredPayoutIsFinal <=> [][Final]_vars
  BY DEF StoredPayoutIsFinal
<1> HIDE DEF Final
<1> QED
  BY <1>2, <1>3, Invariance, PTL DEF Spec

-----------------------------------------------------------------------------
(* What holds while only some kinds of fault have struck. *)

\* A fault is on the log from the step in which it strikes, and stays there.
LEMMA SufferedGrows ==
    ASSUME IInv, [Next]_vars
    PROVE  /\ Suffered \subseteq Suffered'
           /\ \A kind : Fault(kind) => kind \in Suffered'
<1>0. FaultsTyped
  BY DEF IInv, MemoryTyped
<1>1. \A kind : Fault(kind) => Suffered' = Suffered \cup {kind}
  BY <1>0, FaultLogged
<1>2. faults' = faults => Suffered' = Suffered
  BY DEF Suffered
<1>3. faults' = faults \/ \E kind : Fault(kind)
  BY DEF Next, Gateway, Daemon, Ethereum, Wallet, vars, Emit, DropBurn, Deliver,
     SocketDrops, NodeCrash, NodeRestart, Drain, DrainForNobody, Ask, ReceiveEvents,
     AskFails, LoseReply, InsertRow, InsertFails, RoundEnds, SelectPending, SelectFails,
     SendPayout, ReceiveTxid, ReceiveError, Timeout, StoreTxid, StoreFails, ThreadEnds,
     Crash, Restart, WalletPays, WalletRefuses
<1> QED
  BY <1>1, <1>2, <1>3

(***************************************************************************)
(* As long as no fault leaves the outcome of a payment in doubt, a payout  *)
(* is abandoned only after the wallet refused it, and a refused payout is  *)
(* never paid.                                                             *)
(***************************************************************************)
AbandonedIsRefused ==
    \A c \in DOMAIN payouts :
      payouts[c].fate = "abandoned" => payouts[c].wallet = "refused"

LEMMA RefusedStep ==
    ASSUME (Suffered \subseteq NoDoubtFaults)', IInv, AbandonedIsRefused, [Next]_vars
    PROVE  AbandonedIsRefused'
<1>0. /\ payouts \in Seq(PayoutRec)
      /\ \A c \in DOMAIN payouts : payouts[c] \in PayoutRec
      /\ \A kind : Fault(kind) => kind \in NoDoubtFaults
  BY SufferedGrows DEF IInv, LedgerInv, LedgerTyped
<1>1. ASSUME NEW c \in DOMAIN payouts, NEW r \in PayoutRec, payouts' = [payouts EXCEPT ![c] = r],
             r.fate = "abandoned" => r.wallet = "refused"
      PROVE  AbandonedIsRefused'
  <2>1. /\ DOMAIN payouts' = DOMAIN payouts
        /\ \A i \in DOMAIN payouts : payouts'[i] = IF i = c THEN r ELSE payouts[i]
    BY <1>0, <1>1, PayoutUpdated
  <2> QED
    BY <2>1, <1>1 DEF AbandonedIsRefused
<1>2. ASSUME payouts' = payouts
      PROVE  AbandonedIsRefused'
  BY <1>2 DEF AbandonedIsRefused
<1>3. CASE SendPayout
  <2> PICK t \in mymap :
         payouts' = Append(payouts, [tx |-> t, fate |-> "open", wallet |-> "asked"])
    BY <1>3 DEF SendPayout
  <2> DEFINE r == [tx |-> t, fate |-> "open", wallet |-> "asked"]
  <2>1. r \in PayoutRec /\ r.fate = "open"
    BY DEF IInv, LedgerInv, LedgerTyped, PayoutRec
  <2>2. /\ DOMAIN payouts' = DOMAIN payouts \cup {Len(payouts) + 1}
        /\ \A i \in DOMAIN payouts : payouts'[i] = payouts[i]
        /\ payouts'[Len(payouts) + 1] = r
    BY <1>0, <2>1, PayoutAppended
  <2> HIDE DEF r
  <2> QED
    BY <2>1, <2>2 DEF AbandonedIsRefused
<1>4. CASE ReceiveError \/ StoreTxid
  <2> DEFINE L == Len(payouts)
  <2>1. L \in DOMAIN payouts
    BY <1>0, <1>4 DEF ReceiveError, StoreTxid, IInv, LedgerInv, OpenPayoutIsCurrent, Waiting
  <2>2. PICK fate \in {"recorded", "abandoned"} :
          /\ payouts' = [payouts EXCEPT ![L].fate = fate]
          /\ fate = "abandoned" => payouts[L].wallet = "refused"
    BY <1>4 DEF ReceiveError, StoreTxid, Finish, Cur
  <2> DEFINE r == [payouts[L] EXCEPT !.fate = fate]
  <2>3. r \in PayoutRec /\ r.fate = fate /\ r.wallet = payouts[L].wallet
    BY <1>0, <2>1 DEF PayoutRec
  <2>4. payouts' = [payouts EXCEPT ![L] = r]
    BY <2>1, <2>2
  <2>5. r.fate = "abandoned" => r.wallet = "refused"
    BY <2>2, <2>3
  <2> HIDE DEF r, L
  <2> QED
    BY <1>1, <2>1, <2>3, <2>4, <2>5
<1>5. CASE Timeout \/ StoreFails \/ Crash
  BY <1>0, <1>5 DEF Timeout, StoreFails, Crash, NoDoubtFaults
<1>6. CASE Wallet
  <2>1. PICK c \in DOMAIN payouts, to \in {"paid", "refused"} : WalletStep(c, to)
    BY <1>6 DEF Wallet, WalletPays, WalletRefuses
  <2> DEFINE r == [payouts[c] EXCEPT !.wallet = to]
  <2>2. r \in PayoutRec /\ r.fate = payouts[c].fate
    BY <1>0 DEF PayoutRec
  <2>3. payouts' = [payouts EXCEPT ![c] = r] /\ payouts[c].fate # "abandoned"
    BY <2>1 DEF WalletStep, AbandonedIsRefused
  <2> HIDE DEF r
  <2> QED
    BY <1>1, <2>2, <2>3
<1>7. CASE Gateway \/ Ethereum \/ UNCHANGED vars
  BY <1>2, <1>7 DEF Gateway, Ethereum, vars, Emit, DropBurn, Deliver, SocketDrops,
     NodeCrash, NodeRestart, Drain, DrainForNobody
<1>8. CASE Ask \/ ReceiveEvents \/ AskFails \/ LoseReply \/ InsertRow \/ InsertFails
           \/ RoundEnds \/ SelectPending \/ SelectFails \/ ReceiveTxid \/ ThreadEnds \/ Restart
  BY <1>2, <1>8 DEF Ask, ReceiveEvents, AskFails, LoseReply, InsertRow, InsertFails,
     RoundEnds, SelectPending, SelectFails, ReceiveTxid, ThreadEnds, Restart
<1> QED
  BY <1>3, <1>4, <1>5, <1>6, <1>7, <1>8 DEF Next, Daemon

\* However often the gateway loses answers, crashes, and has every burn
\* delivered again, no burn is paid twice.
THEOREM ReplayPaysOnceThm == Spec => []ReplayPaysOnce
<1> DEFINE J == Suffered \subseteq NoDoubtFaults => AbandonedIsRefused
<1>1. Init => J
  BY DEF Init, AbandonedIsRefused
<1>2. J /\ IInv /\ [Next]_vars => J'
  BY RefusedStep, SufferedGrows
<1>3. OneAccountedPayout /\ J => ReplayPaysOnce
  <2> SUFFICES ASSUME OneAccountedPayout, AbandonedIsRefused,
                      NEW t \in EthTx, NEW b \in Paid(t), NEW c \in Paid(t)
               PROVE  b = c
    BY DEF ReplayPaysOnce
  <2>1. payouts[b].fate # "abandoned" /\ payouts[c].fate # "abandoned"
    BY DEF AbandonedIsRefused, Paid
  <2> QED
    BY <2>1 DEF OneAccountedPayout
<1> HIDE DEF J
<1> QED
  BY <1>1, <1>2, <1>3, Invariance, OneAccountedPayoutThm, PTL DEF Spec

(***************************************************************************)
(* As long as nothing was lost, a burn is handed over from one holder to   *)
(* the next: no abandoned request is left to empty the gateway's table,    *)
(* and an answer or a map is overwritten only when it is empty.            *)
(***************************************************************************)
HandOver ==
    /\ orphans = 0
    /\ rpc # "replied" => reply = {}
    /\ pc # "insert" => eth2safeMap = {}
    /\ EveryBurnKept

LEMMA HandOverStep ==
    ASSUME NothingLost', IInv, HandOver, [Next]_vars
    PROVE  HandOver'
<1> USE DEF HandOver, EveryBurnKept
<1>0. /\ \A kind : Fault(kind) => kind \in NoLossFaults
      /\ OneBurnPerTx
      /\ MemoryTyped /\ LedgerInv
  BY SufferedGrows DEF NothingLost, OneBurnPerTx, IInv
<1>1. ASSUME NEW b \in Burn, Emit(b) \/ DropBurn(b) \/ Deliver(b)
      PROVE  HandOver'
  <2>2. UNCHANGED <<nodeUp, subscribed, rpc, reply, orphans, pc, eth2safeMap, row>>
    BY <1>1 DEF Emit, DropBurn, Deliver, table
  <2>3. \A a \in emitted' : Kept(a)'
    BY <1>1, <2>2 DEF Emit, DropBurn, Deliver, Kept
  <2> QED
    BY <2>2, <2>3
<1>2. CASE LoseReply \/ InsertFails \/ Crash
  BY <1>0, <1>2 DEF LoseReply, InsertFails, Crash, NoLossFaults
<1>3. CASE NodeCrash \/ NodeRestart \/ SocketDrops
  <2>1. CASE NodeCrash
    BY <2>1 DEF NodeCrash, Kept
  <2>2. CASE NodeRestart
    BY <2>2 DEF NodeRestart, Kept
  <2>3. CASE SocketDrops
    BY <2>3 DEF SocketDrops, Kept
  <2> QED
    BY <1>3, <2>1, <2>2, <2>3
<1>4. CASE Drain \/ DrainForNobody
  <2>1. ~DrainForNobody
    BY DEF DrainForNobody
  <2>2. reply = {} /\ reply' = eth2safe_table
        /\ UNCHANGED <<emitted, nodeUp, subscribed, todo, orphans, pc, eth2safeMap, row>>
        /\ rpc' = "replied"
    BY <1>4, <2>1 DEF Drain, table
  <2>3. \A a \in emitted' : Kept(a)'
    BY <2>2 DEF Kept
  <2> QED
    BY <2>2, <2>3
<1>5. CASE ReceiveEvents
  <2>1. PICK M \in SUBSET reply : OnePerTx(reply, M) /\ eth2safeMap' = M
    BY <1>5 DEF ReceiveEvents
  <2>2. reply \subseteq M
    BY <1>0, <2>1 DEF OnePerTx, OneBurnPerTx, MemoryTyped
  <2>3. /\ eth2safeMap = {} /\ rpc' = "none" /\ reply' = {} /\ pc' = "insert"
        /\ UNCHANGED <<emitted, nodeUp, subscribed, todo, eth2safe_table, orphans, row>>
    BY <1>5 DEF ReceiveEvents, table
  <2>4. \A a \in emitted' : Kept(a)'
    BY <2>1, <2>2, <2>3 DEF Kept
  <2> QED
    BY <2>3, <2>4
<1>6. CASE InsertRow
  <2>1. PICK b \in eth2safeMap : insert_eth2safe(b) /\ eth2safeMap' = eth2safeMap \ {b}
    BY <1>6 DEF InsertRow
  <2>2. /\ b \in Burn /\ row \in [EthTx -> Burn \cup {NoBurn}]
        /\ \A t \in EthTx : row[t] # NoBurn => TxOf[row[t]] = t
    BY <1>0 DEF MemoryTyped, LedgerInv, LedgerTyped, RowsAreFiled
  <2>3. /\ TxOf[b] \in EthTx
        /\ \/ row' = row /\ row[TxOf[b]] # NoBurn
           \/ row[TxOf[b]] = NoBurn /\ row' = [row EXCEPT ![TxOf[b]] = b]
    BY <1>0, <2>1, <2>2, InsertEffect
  <2>4. row'[TxOf[b]] = b
    BY <1>0, <2>2, <2>3 DEF OneBurnPerTx
  <2>5. \A a \in Burn : row[TxOf[a]] = a => row'[TxOf[a]] = a
    <3>1. \A a \in Burn : TxOf[a] \in EthTx /\ a # NoBurn
      BY BurnAssumption DEF EthTx
    <3> QED
      BY <3>1, <2>2, <2>3
  <2>6. UNCHANGED <<emitted, nodeUp, subscribed, todo, eth2safe_table, rpc, reply,
                    orphans, pc>>
    BY <1>6 DEF InsertRow, gateway
  <2>7. \A a \in emitted' : Kept(a)'
    BY <1>0, <2>1, <2>4, <2>5, <2>6 DEF Kept, MemoryTyped
  <2> QED
    BY <1>6, <2>6, <2>7 DEF InsertRow
<1>7. CASE Wallet \/ UNCHANGED vars
  <2>1. UNCHANGED <<emitted, gateway, pc, eth2safeMap, row>>
    BY <1>7 DEF Wallet, WalletPays, WalletRefuses, WalletStep, vars, table
  <2> QED
    BY <2>1 DEF Kept, gateway
<1>8. CASE Ask \/ AskFails \/ RoundEnds \/ SelectPending \/ SelectFails \/ SendPayout
           \/ ReceiveTxid \/ ReceiveError \/ Timeout \/ StoreTxid \/ StoreFails
           \/ ThreadEnds \/ Restart
  <2>0. rpc # "none" => pc = "events"
    BY <1>0 DEF MemoryTyped
  <2>1. /\ UNCHANGED <<emitted, nodeUp, subscribed, todo, eth2safe_table, reply, orphans,
                       eth2safeMap, row>>
        /\ rpc' = rpc \/ (rpc' = "asked" /\ reply = {})
        /\ pc' # "insert" /\ eth2safeMap = {}
    BY <1>8, <2>0 DEF Ask, AskFails, RoundEnds, SelectPending, SelectFails, SendPayout,
       ReceiveTxid, ReceiveError, Timeout, StoreTxid, StoreFails, Finish, update_eth2safe,
       ThreadEnds, Restart, gateway, table
  <2>2. \A a \in emitted' : Kept(a)'
    BY <2>1 DEF Kept
  <2> QED
    BY <2>1, <2>2
<1> QED
  BY <1>1, <1>2, <1>3, <1>4, <1>5, <1>6, <1>7, <1>8 DEF Next, Gateway, Daemon, Ethereum

\* While every transaction carries one burn and every answer of the gateway
\* reached the table, a burn on the chain is always on its way to its row, or
\* in it, whatever crashes of the gateway and failed payments happen.
THEOREM BurnKeptWithoutLossThm == Spec => []BurnKeptWithoutLoss
<1> DEFINE J == NothingLost => HandOver
<1>1. Init => J
  BY DEF Init, HandOver, EveryBurnKept
<1>2. J /\ IInv /\ [Next]_vars => J'
  <2> SUFFICES ASSUME J, IInv, [Next]_vars, NothingLost'
               PROVE  HandOver'
    OBVIOUS
  <2>1. NothingLost
    BY SufferedGrows DEF NothingLost, OneBurnPerTx
  <2> QED
    BY <2>1, HandOverStep
<1>3. J => BurnKeptWithoutLoss
  BY DEF BurnKeptWithoutLoss, HandOver
<1> HIDE DEF J
<1> QED
  BY <1>1, <1>2, <1>3, Invariance, PTL DEF Spec

-----------------------------------------------------------------------------
(***************************************************************************)
(* BurnRelay implements Settlement.  The claims are the rows, so only the  *)
(* steps that append a payout, end one, pay one or insert a row are        *)
(* visible.  A txid is only known of a payout the wallet has made.         *)
(***************************************************************************)
KnownTxidIsPaid ==
    /\ pc = "update" => payouts[Len(payouts)].wallet = "paid"
    /\ \A c \in DOMAIN payouts :
         payouts[c].fate = "recorded" => payouts[c].wallet = "paid"

RInv == IInv /\ KnownTxidIsPaid

\* A step of everybody but the wallet and the daemon's three dealings with a
\* payout: at most the row of a new burn is filed.
LEMMA QuietRefines ==
    ASSUME RInv, payouts' = payouts, pc' # "update" \/ pc' = pc,
           UNCHANGED table \/ InsertRow
    PROVE  KnownTxidIsPaid' /\ [PegOut!Next]_(PegOut!vars)
<1>1. KnownTxidIsPaid'
  BY DEF RInv, KnownTxidIsPaid
<1>2. ASSUME UNCHANGED table
      PROVE  [PegOut!Next]_(PegOut!vars)
  BY <1>2 DEF PegOut!vars, Attempt, table
<1>3. ASSUME InsertRow
      PROVE  [PegOut!Next]_(PegOut!vars)
  <2>1. PICK b \in Burn : insert_eth2safe(b)
    BY <1>3 DEF InsertRow, RInv, IInv, MemoryTyped
  <2>2. /\ txid' = txid /\ TxOf[b] \in EthTx /\ b # NoBurn
        /\ row \in [EthTx -> Burn \cup {NoBurn}]
        /\ \/ row' = row
           \/ row[TxOf[b]] = NoBurn /\ row' = [row EXCEPT ![TxOf[b]] = b]
    BY <2>1, InsertEffect, BurnAssumption DEF RInv, IInv, LedgerInv, LedgerTyped
  <2>3. CASE row' = row
    BY <1>2, <2>2, <2>3 DEF table
  <2>4. CASE row[TxOf[b]] = NoBurn /\ row' = [row EXCEPT ![TxOf[b]] = b]
    <3> PICK k : k = TxOf[b]
      OBVIOUS
    <3>1. \A t \in EthTx : row'[t] = IF t = k THEN b ELSE row[t]
      BY <2>2, <2>4
    <3>2. PegOut!File(k)
      BY <2>2, <2>4, <3>1 DEF PegOut!File, Attempt
    <3>3. k \in EthTx
      BY <2>2
    <3> QED
      BY <3>2, <3>3, Zenon DEF PegOut!Next
  <2> QED
    BY <2>2, <2>3, <2>4
<1> QED
  BY <1>1, <1>2, <1>3

\* The wallet refuses, unseen, or pays a payout that was not yet recorded.
LEMMA WalletRefines ==
    ASSUME RInv, NEW c \in DOMAIN payouts, NEW to \in {"paid", "refused"},
           WalletStep(c, to)
    PROVE  KnownTxidIsPaid' /\ [PegOut!Next]_(PegOut!vars)
<1> DEFINE r == [payouts[c] EXCEPT !.wallet = to]
<1>1. /\ payouts[c] \in PayoutRec /\ payouts \in Seq(PayoutRec)
      /\ payouts[c].wallet = "asked"
  BY DEF RInv, IInv, LedgerInv, LedgerTyped, WalletStep
<1>2. r \in PayoutRec /\ r.tx = payouts[c].tx /\ r.fate = payouts[c].fate /\ r.wallet = to
  BY <1>1 DEF PayoutRec
<1>3. payouts' = [payouts EXCEPT ![c] = r] /\ UNCHANGED <<pc, row, txid>>
  BY <1>1 DEF WalletStep, table
<1>4. /\ DOMAIN payouts' = DOMAIN payouts
      /\ Len(payouts') = Len(payouts)
      /\ \A i \in DOMAIN payouts : payouts'[i] = IF i = c THEN r ELSE payouts[i]
  BY <1>1, <1>2, <1>3, PayoutUpdated
<1> HIDE DEF r
<1>5. payouts[c].fate \in {"open", "abandoned"} /\ ~(pc = "update" /\ c = Len(payouts))
  <2>1. payouts[c].fate # "recorded" /\ ~(pc = "update" /\ c = Len(payouts))
    BY <1>1 DEF RInv, KnownTxidIsPaid
  <2> QED
    BY <1>1, <2>1 DEF PayoutRec
<1>6. KnownTxidIsPaid'
  <2>1. pc = "update" => Len(payouts) \in DOMAIN payouts
    BY DEF RInv, IInv, LedgerInv, LedgerTyped, OpenPayoutIsCurrent, Waiting
  <2> QED
    BY <1>2, <1>3, <1>4, <1>5, <2>1 DEF RInv, KnownTxidIsPaid
<1>7. ASSUME to = "refused"
      PROVE  UNCHANGED PegOut!vars
  BY <1>1, <1>2, <1>3, <1>4, <1>7 DEF PegOut!vars, Attempt
<1>8. ASSUME to = "paid"
      PROVE  PegOut!Next
  <2> PICK a : a = Attempt(c)
    OBVIOUS
  <2>1. PegOut!TakeEffect(a)
    BY <1>1, <1>2, <1>3, <1>4, <1>5, <1>8 DEF PegOut!TakeEffect, Attempt
  <2>2. a \in {Attempt(i) : i \in {j \in DOMAIN payouts : payouts[j].fate = "open"}}
             \cup {Attempt(i) : i \in {j \in DOMAIN payouts : payouts[j].fate = "abandoned"}}
    BY <1>5
  <2> QED
    BY <2>1, <2>2, Zenon DEF PegOut!Next
<1> QED
  BY <1>6, <1>7, <1>8

\* A payout is requested: an attempt under a number never used before.
LEMMA SendPayoutRefines ==
    ASSUME RInv, SendPayout
    PROVE  KnownTxidIsPaid' /\ PegOut!Next
<1> PICK t \in mymap :
       payouts' = Append(payouts, [tx |-> t, fate |-> "open", wallet |-> "asked"])
  BY DEF SendPayout
<1> DEFINE n == Len(payouts) + 1
           r == [tx |-> t, fate |-> "open", wallet |-> "asked"]
<1> PICK a : a = <<t, n>>
  OBVIOUS
<1>1. t \in EthTx /\ row[t] # NoBurn /\ txid[t] = 0
  BY DEF RInv, IInv, LedgerInv, LedgerTyped, SelectedRowsUnpaid
<1>2. r \in PayoutRec /\ r.fate = "open" /\ r.tx = t /\ r.wallet = "asked"
  BY <1>1 DEF PayoutRec
<1>3. /\ n \notin DOMAIN payouts
      /\ DOMAIN payouts' = DOMAIN payouts \cup {n}
      /\ \A i \in DOMAIN payouts : payouts'[i] = payouts[i]
      /\ payouts'[n] = r
  BY <1>2, PayoutAppended DEF RInv, IInv, LedgerInv, LedgerTyped
<1>4. pc = "send" /\ pc' = "wait" /\ UNCHANGED <<row, txid>>
  BY DEF SendPayout, table
<1>5. \A i \in DOMAIN payouts : payouts[i].fate # "open"
  BY <1>4 DEF RInv, IInv, LedgerInv, OpenPayoutIsCurrent, Waiting
<1> HIDE DEF r
<1>6. KnownTxidIsPaid'
  BY <1>2, <1>3, <1>4 DEF RInv, KnownTxidIsPaid
<1>7. PegOut!Start(a)
  BY <1>1, <1>2, <1>3, <1>4, <1>5 DEF PegOut!Start, Attempt
<1>8. a \in {Attempt(c) : c \in {i \in DOMAIN payouts : payouts[i].fate = "open"}}'
  BY <1>7 DEF PegOut!Start
<1>9. PegOut!Next
  BY <1>7, <1>8, Zenon DEF PegOut!Next
<1> QED
  BY <1>6, <1>9

\* The daemon gives the current payout up.
LEMMA AbandonRefines ==
    ASSUME RInv, Waiting, pc' # "update",
           payouts' = [payouts EXCEPT ![Len(payouts)].fate = "abandoned"],
           UNCHANGED table
    PROVE  KnownTxidIsPaid' /\ PegOut!Next
<1> DEFINE L == Len(payouts)
           r == [payouts[L] EXCEPT !.fate = "abandoned"]
<1> PICK a : a = Attempt(L)
  OBVIOUS
<1>1. /\ L \in DOMAIN payouts /\ payouts[L] \in PayoutRec /\ payouts \in Seq(PayoutRec)
      /\ payouts[L].fate = "open"
  BY DEF Waiting, RInv, IInv, LedgerInv, LedgerTyped, OpenPayoutIsCurrent
<1>2. r \in PayoutRec /\ r.fate = "abandoned" /\ r.tx = payouts[L].tx
      /\ r.wallet = payouts[L].wallet
  BY <1>1 DEF PayoutRec
<1>3. payouts' = [payouts EXCEPT ![L] = r] /\ UNCHANGED <<row, txid>>
  BY <1>1 DEF table
<1>4. /\ DOMAIN payouts' = DOMAIN payouts
      /\ \A i \in DOMAIN payouts : payouts'[i] = IF i = L THEN r ELSE payouts[i]
  BY <1>1, <1>2, <1>3, PayoutUpdated
<1>5. \A i \in DOMAIN payouts : payouts[i].fate = "open" => i = L
  BY DEF RInv, IInv, LedgerInv, OpenPayoutIsCurrent
<1> HIDE DEF r
<1>6. KnownTxidIsPaid'
  BY <1>2, <1>4 DEF RInv, KnownTxidIsPaid
<1>7. PegOut!LoseTrack(a)
  BY <1>1, <1>2, <1>3, <1>4, <1>5 DEF PegOut!LoseTrack, Attempt
<1>8. a \in {Attempt(c) : c \in {i \in DOMAIN payouts : payouts[i].fate = "open"}}
  BY <1>1
<1>9. PegOut!Next
  BY <1>7, <1>8, Zenon DEF PegOut!Next
<1> QED
  BY <1>6, <1>9

\* The txid is stored: the settlement of the row of the current payout.
LEMMA StoreTxidRefines ==
    ASSUME RInv, StoreTxid
    PROVE  KnownTxidIsPaid' /\ PegOut!Next
<1> DEFINE L == Len(payouts)
           t == payouts[L].tx
           r == [payouts[L] EXCEPT !.fate = "recorded"]
<1> PICK a : a = Attempt(L)
  OBVIOUS
<1>1. /\ L \in DOMAIN payouts /\ L # 0
      /\ payouts[L] \in PayoutRec /\ payouts \in Seq(PayoutRec)
      /\ payouts[L].fate = "open" /\ payouts[L].wallet = "paid"
      /\ t \in mymap
  <2>1. pc = "update"
    BY DEF StoreTxid
  <2> QED
    BY <2>1 DEF Waiting, RInv, IInv, LedgerInv, LedgerTyped, OpenPayoutIsCurrent, KnownTxidIsPaid
<1>2. r \in PayoutRec /\ r.fate = "recorded" /\ r.tx = t /\ r.wallet = "paid"
  BY <1>1 DEF PayoutRec
<1>3. /\ payouts' = [payouts EXCEPT ![L] = r]
      /\ row' = row /\ txid' = [txid EXCEPT ![t] = L] /\ pc' = "send"
  BY <1>1 DEF StoreTxid, update_eth2safe, Finish, Cur
<1>4. /\ DOMAIN payouts' = DOMAIN payouts
      /\ \A i \in DOMAIN payouts : payouts'[i] = IF i = L THEN r ELSE payouts[i]
  BY <1>1, <1>2, <1>3, PayoutUpdated
<1>5. t \in EthTx /\ txid[t] = 0 /\ txid \in [EthTx -> Nat]
  BY <1>1 DEF RInv, IInv, LedgerInv, LedgerTyped, SelectedRowsUnpaid
<1>6. \A u \in EthTx : txid'[u] = IF u = t THEN L ELSE txid[u]
  BY <1>3, <1>5
<1>7. \A i \in DOMAIN payouts : payouts[i].fate = "open" => i = L
  BY DEF RInv, IInv, LedgerInv, OpenPayoutIsCurrent
<1> HIDE DEF r
<1>8. KnownTxidIsPaid'
  BY <1>2, <1>3, <1>4 DEF RInv, KnownTxidIsPaid
<1>9. {<<u, txid[u]>> : u \in {v \in EthTx : txid[v] # 0}}'
        = {<<u, txid[u]>> : u \in {v \in EthTx : txid[v] # 0}} \cup {<<t, L>>}
  BY <1>1, <1>5, <1>6
<1>10. PegOut!Settle(a)
  BY <1>1, <1>2, <1>3, <1>4, <1>7, <1>9 DEF PegOut!Settle, Attempt
<1>11. a \in {Attempt(c) : c \in {i \in DOMAIN payouts : payouts[i].fate = "open"}}
  BY <1>1
<1>12. PegOut!Next
  BY <1>10, <1>11, Zenon DEF PegOut!Next
<1> QED
  BY <1>8, <1>12

LEMMA InitRefines == Init => KnownTxidIsPaid /\ PegOut!Init
  BY DEF Init, KnownTxidIsPaid, PegOut!Init

LEMMA StepRefines ==
    ASSUME RInv, [Next]_vars
    PROVE  KnownTxidIsPaid' /\ [PegOut!Next]_(PegOut!vars)
<1>1. CASE Gateway \/ Ethereum \/ UNCHANGED vars
  <2>1. UNCHANGED <<pc, table, payouts>>
    BY <1>1 DEF Gateway, Ethereum, vars, Emit, DropBurn, Deliver, SocketDrops, NodeCrash,
                NodeRestart, Drain, DrainForNobody
  <2> QED
    BY <2>1, QuietRefines
<1>2. CASE Wallet
  <2>1. PICK c \in DOMAIN payouts : WalletStep(c, "paid") \/ WalletStep(c, "refused")
    BY <1>2 DEF Wallet, WalletPays, WalletRefuses
  <2> QED
    BY <2>1, WalletRefines
<1>3. CASE Ask \/ ReceiveEvents \/ AskFails \/ LoseReply \/ InsertFails \/ RoundEnds
           \/ SelectPending \/ SelectFails \/ ThreadEnds \/ Restart
  <2>1. payouts' = payouts /\ UNCHANGED table /\ pc' # "update"
    BY <1>3 DEF Ask, ReceiveEvents, AskFails, LoseReply, InsertFails, RoundEnds,
                SelectPending, SelectFails, ThreadEnds, Restart
  <2> QED
    BY <2>1, QuietRefines
<1>4. CASE InsertRow
  BY <1>4, QuietRefines DEF InsertRow
<1>5. CASE ReceiveTxid
  <2>1. payouts[Len(payouts)].wallet = "paid" /\ UNCHANGED <<table, payouts>>
    BY <1>5 DEF ReceiveTxid, Cur
  <2>2. KnownTxidIsPaid'
    BY <2>1 DEF RInv, KnownTxidIsPaid
  <2>3. UNCHANGED PegOut!vars
    BY <2>1 DEF PegOut!vars, Attempt, table
  <2> QED
    BY <2>2, <2>3
<1>6. CASE SendPayout
  BY <1>6, SendPayoutRefines
<1>7. CASE StoreTxid
  BY <1>7, StoreTxidRefines
<1>8. CASE ReceiveError \/ Timeout \/ StoreFails
  BY <1>8, AbandonRefines DEF ReceiveError, Timeout, StoreFails, Finish, Cur, Waiting
<1>9. CASE Crash
  <2>1. CASE Waiting
    BY <1>9, <2>1, AbandonRefines DEF Crash, Cur, Waiting
  <2>2. CASE ~Waiting
    BY <1>9, <2>2, QuietRefines DEF Crash, Waiting
  <2> QED
    BY <2>1, <2>2
<1> QED
  BY <1>1, <1>2, <1>3, <1>4, <1>5, <1>6, <1>7, <1>8, <1>9 DEF Next, Daemon

\* The peg-out relay implements Settlement, so DoubledOnlyInDoubt and
\* SettledOnce hold of burns and payouts.
THEOREM ImplementsPegOutThm == Spec => ImplementsPegOut
<1>1. Init => KnownTxidIsPaid /\ PegOut!Init
  BY InitRefines
<1>2. IInv /\ KnownTxidIsPaid /\ [Next]_vars => KnownTxidIsPaid' /\ [PegOut!Next]_(PegOut!vars)
  BY StepRefines DEF RInv
<1> QED
  BY <1>1, <1>2, Invariance, PTL DEF Spec, ImplementsPegOut, PegOut!Spec

=============================================================================
