--------------------------- MODULE MintRelayProofs ---------------------------
(***************************************************************************)
(* Proofs about MintRelay for every set of deposits, every amount, every   *)
(* selection of fault kinds and every number of faults.                    *)
(***************************************************************************)
EXTENDS MintRelay, SequenceTheorems, TLAPS

FaultsTyped == faults \in Seq(FaultKinds) /\ Len(faults) <= MaxFaults

USE DEF FaultsTyped

(***************************************************************************)
(* The inductive invariant.  A call is open only while the daemon waits    *)
(* for it or stores its answer, and then its row is one of the selected    *)
(* ones, all of which are unpaid; so when an answer is stored nothing has  *)
(* been stored for that deposit before, and nothing will be afterwards.    *)
(***************************************************************************)
Waiting == pc \in {"wait", "update"}

OpenCallIsCurrent ==
    /\ Waiting => /\ Len(calls) > 0
                  /\ calls[Len(calls)].fate = "open"
                  /\ calls[Len(calls)].dep \in mymap
    /\ \A c \in DOMAIN calls : calls[c].fate = "open" => Waiting /\ c = Len(calls)

SelectedRowsUnpaid == \A d \in mymap : eth_txid[d] = NoTx

RecordedCallIsStored ==
    \A c \in DOMAIN calls :
      calls[c].fate = "recorded" => eth_txid[calls[c].dep] = c

StoredTxIsMined ==
    \A d \in Deposit : eth_txid[d] # NoTx =>
      /\ d \in rows
      /\ eth_txid[d] \in DOMAIN calls
      /\ calls[eth_txid[d]].dep = d
      /\ calls[eth_txid[d]].tx = "mined"

AnswerNeedsReceipt ==
    /\ \A c \in DOMAIN calls :
         /\ calls[c].handler \in {"gasprice", "replied"} => calls[c].tx = "mined"
         /\ calls[c].handler = "unlock" => calls[c].tx = "none"
    /\ pc = "update" => calls[Len(calls)].handler = "replied"

IInv ==
    /\ TypeOK
    /\ OpenCallIsCurrent
    /\ SelectedRowsUnpaid
    /\ RecordedCallIsStored
    /\ StoredTxIsMined
    /\ AnswerNeedsReceipt

-----------------------------------------------------------------------------
(* Lemmas about the sequence of calls. *)

\* Overwriting one call keeps the others and the length.
LEMMA CallUpdated ==
    ASSUME NEW s \in Seq(CallRec), NEW c \in DOMAIN s, NEW r \in CallRec
    PROVE  /\ [s EXCEPT ![c] = r] \in Seq(CallRec)
           /\ DOMAIN [s EXCEPT ![c] = r] = DOMAIN s
           /\ Len([s EXCEPT ![c] = r]) = Len(s)
           /\ \A i \in DOMAIN s : [s EXCEPT ![c] = r][i] = IF i = c THEN r ELSE s[i]
<1>1. c \in 1..Len(s)
  OBVIOUS
<1> QED
  BY <1>1, ExceptSeq

\* A new call is the last one and leaves the older ones as they were.
LEMMA CallAppended ==
    ASSUME NEW s \in Seq(CallRec), NEW r \in CallRec
    PROVE  /\ Append(s, r) \in Seq(CallRec)
           /\ Len(Append(s, r)) = Len(s) + 1
           /\ DOMAIN Append(s, r) = DOMAIN s \cup {Len(s) + 1}
           /\ \A i \in DOMAIN s : Append(s, r)[i] = s[i]
           /\ Append(s, r)[Len(s) + 1] = r
  OBVIOUS

(***************************************************************************)
(* A step of a handler or of the chain: one call changes, its deposit and  *)
(* its fate do not, and a mined transaction stays mined.                   *)
(***************************************************************************)
CallMoves(c, r) ==
    /\ calls' = [calls EXCEPT ![c] = r]
    /\ r \in CallRec
    /\ r.dep = calls[c].dep /\ r.fate = calls[c].fate
    /\ calls[c].tx = "mined" => r.tx = "mined"
    /\ calls[c].handler = "replied" => r.handler = "replied"
    /\ r.handler \in {"gasprice", "replied"} => r.tx = "mined"
    /\ r.handler = "unlock" => r.tx = "none"
    /\ UNCHANGED <<rows, eth_txid, pc, mymap, nodeUp>>
    /\ FaultsTyped'

LEMMA CallMovesInv ==
    ASSUME IInv, NEW c \in DOMAIN calls, NEW r, CallMoves(c, r)
    PROVE  IInv'
<1>1. /\ calls' \in Seq(CallRec)
      /\ DOMAIN calls' = DOMAIN calls
      /\ Len(calls') = Len(calls)
      /\ \A i \in DOMAIN calls : calls'[i] = IF i = c THEN r ELSE calls[i]
  BY CallUpdated DEF CallMoves, IInv, TypeOK
<1>2. TypeOK'
  BY <1>1 DEF IInv, TypeOK, CallMoves
<1>3. /\ \A i \in DOMAIN calls :
           /\ calls'[i].dep = calls[i].dep
           /\ calls'[i].fate = calls[i].fate
           /\ calls[i].tx = "mined" => calls'[i].tx = "mined"
           /\ calls[i].handler = "replied" => calls'[i].handler = "replied"
  BY <1>1 DEF CallMoves
<1>4. Len(calls) > 0 => Len(calls) \in DOMAIN calls
  BY DEF IInv, TypeOK
<1>5. OpenCallIsCurrent'
  BY <1>1, <1>3, <1>4 DEF IInv, OpenCallIsCurrent, Waiting, CallMoves
<1>6. SelectedRowsUnpaid'
  BY DEF IInv, SelectedRowsUnpaid, CallMoves
<1>7. RecordedCallIsStored'
  BY <1>1, <1>3 DEF IInv, RecordedCallIsStored, CallMoves
<1>8. StoredTxIsMined'
  BY <1>1, <1>3 DEF IInv, StoredTxIsMined, CallMoves
<1>9. AnswerNeedsReceipt'
  BY <1>1, <1>3, <1>4 DEF IInv, AnswerNeedsReceipt, OpenCallIsCurrent, Waiting, CallMoves
<1> QED
  BY <1>2, <1>5, <1>6, <1>7, <1>8, <1>9 DEF IInv


(***************************************************************************)
(* The daemon lets go of the current call without storing anything: it is  *)
(* left abandoned and its row is still unpaid.                             *)
(***************************************************************************)
Abandons(to, left) ==
    /\ Waiting
    /\ calls' = [calls EXCEPT ![Len(calls)].fate = "abandoned"]
    /\ left \subseteq mymap /\ mymap' = left
    /\ to \in {"send", "down"} /\ pc' = to
    /\ UNCHANGED <<rows, eth_txid, nodeUp>>
    /\ FaultsTyped'

LEMMA AbandonsInv ==
    ASSUME IInv, NEW to, NEW left, Abandons(to, left)
    PROVE  IInv'
<1> DEFINE L == Len(calls)
           r == [calls[L] EXCEPT !.fate = "abandoned"]
<1>1. L \in DOMAIN calls /\ calls[L] \in CallRec
  BY DEF Abandons, Waiting, IInv, TypeOK, OpenCallIsCurrent
<1>2. r \in CallRec /\ r.fate = "abandoned" /\ r.dep = calls[L].dep
      /\ r.tx = calls[L].tx /\ r.handler = calls[L].handler
  BY <1>1 DEF CallRec
<1>3. calls' = [calls EXCEPT ![L] = r]
  BY <1>1 DEF Abandons
<1>4. /\ calls' \in Seq(CallRec)
      /\ DOMAIN calls' = DOMAIN calls
      /\ Len(calls') = L
      /\ \A i \in DOMAIN calls : calls'[i] = IF i = L THEN r ELSE calls[i]
  BY <1>1, <1>2, <1>3, CallUpdated DEF IInv, TypeOK
<1> HIDE DEF r
<1>5. TypeOK'
  BY <1>4 DEF IInv, TypeOK, Abandons
<1>6. OpenCallIsCurrent'
  BY <1>2, <1>4 DEF IInv, OpenCallIsCurrent, Waiting, Abandons
<1>7. SelectedRowsUnpaid'
  BY DEF IInv, SelectedRowsUnpaid, Abandons
<1>8. RecordedCallIsStored'
  BY <1>2, <1>4 DEF IInv, RecordedCallIsStored, Abandons
<1>9. StoredTxIsMined'
  BY <1>2, <1>4 DEF IInv, StoredTxIsMined, Abandons
<1>10. AnswerNeedsReceipt'
  BY <1>2, <1>4 DEF IInv, AnswerNeedsReceipt, Abandons
<1> QED
  BY <1>5, <1>6, <1>7, <1>8, <1>9, <1>10 DEF IInv

\* The answer is stored: the row named by the current call becomes paid.
LEMMA StoreReplyInv ==
    ASSUME IInv, StoreReply
    PROVE  IInv'
<1> DEFINE L == Len(calls)
           d == calls[L].dep
           r == [calls[L] EXCEPT !.fate = "recorded"]
<1>1. L \in DOMAIN calls /\ L # NoTx /\ calls[L] \in CallRec /\ d \in mymap /\ d \in rows
  BY DEF StoreReply, Waiting, IInv, TypeOK, OpenCallIsCurrent, NoTx
<1>2. r \in CallRec /\ r.fate = "recorded" /\ r.dep = d
      /\ r.tx = "mined" /\ r.handler = "replied"
  BY <1>1 DEF CallRec, IInv, AnswerNeedsReceipt, StoreReply
<1>3. /\ calls' = [calls EXCEPT ![L] = r]
      /\ eth_txid' = [eth_txid EXCEPT ![d] = L]
      /\ mymap' = mymap \ {d}
      /\ pc' = "send" /\ UNCHANGED <<rows, nodeUp, faults>>
  BY <1>1 DEF StoreReply, Finish, Cur, update_safe2eth
<1>4. /\ calls' \in Seq(CallRec)
      /\ DOMAIN calls' = DOMAIN calls
      /\ Len(calls') = L
      /\ \A i \in DOMAIN calls : calls'[i] = IF i = L THEN r ELSE calls[i]
  BY <1>1, <1>2, <1>3, CallUpdated DEF IInv, TypeOK
<1>5. d \in Deposit /\ eth_txid[d] = NoTx /\ L \in Nat /\ eth_txid \in [Deposit -> Nat]
  BY <1>1 DEF IInv, TypeOK, SelectedRowsUnpaid
<1> HIDE DEF r, d
<1>6. TypeOK'
  BY <1>3, <1>4, <1>5 DEF IInv, TypeOK
<1>7. OpenCallIsCurrent'
  BY <1>2, <1>3, <1>4 DEF IInv, OpenCallIsCurrent, Waiting
<1>8. SelectedRowsUnpaid'
  BY <1>3, <1>5 DEF IInv, SelectedRowsUnpaid, TypeOK
<1>9. RecordedCallIsStored'
  <2> SUFFICES ASSUME NEW c \in DOMAIN calls, calls'[c].fate = "recorded"
               PROVE  eth_txid'[calls'[c].dep] = c
    BY <1>4 DEF RecordedCallIsStored
  <2>1. CASE c = L
    BY <2>1, <1>1, <1>2, <1>3, <1>4, <1>5
  <2>2. CASE c # L
    <3>1. calls[c].fate = "recorded" /\ eth_txid[calls[c].dep] = c
          /\ calls'[c].dep = calls[c].dep
      BY <2>2, <1>4 DEF IInv, RecordedCallIsStored
    <3>2. c # NoTx /\ calls[c].dep \in Deposit
      <4>1. calls[c] \in CallRec /\ c # 0
        BY DEF IInv, TypeOK
      <4> QED
        BY <4>1 DEF CallRec, NoTx
    <3>3. calls[c].dep # d
      BY <3>1, <3>2, <1>5
    <3>4. \A e \in Deposit : e # d => eth_txid'[e] = eth_txid[e]
      BY <1>3, <1>5
    <3> QED
      BY <3>1, <3>2, <3>3, <3>4
  <2> QED
    BY <2>1, <2>2
<1>10. StoredTxIsMined'
  <2> SUFFICES ASSUME NEW e \in Deposit, eth_txid'[e] # NoTx
               PROVE  /\ e \in rows'
                      /\ eth_txid'[e] \in DOMAIN calls'
                      /\ calls'[eth_txid'[e]].dep = e
                      /\ calls'[eth_txid'[e]].tx = "mined"
    BY DEF StoredTxIsMined
  <2>1. CASE e = d
    <3>1. eth_txid'[e] = L
      BY <2>1, <1>3, <1>5
    <3> QED
      BY <2>1, <3>1, <1>1, <1>2, <1>3, <1>4
  <2>2. CASE e # d
    <3>1. eth_txid'[e] = eth_txid[e]
      BY <2>2, <1>3, <1>5
    <3>2. /\ e \in rows
          /\ eth_txid[e] \in DOMAIN calls
          /\ calls[eth_txid[e]].dep = e
          /\ calls[eth_txid[e]].tx = "mined"
      BY <3>1 DEF IInv, StoredTxIsMined
    <3>3. eth_txid[e] # L
      BY <3>2, <2>2, <1>2 DEF d
    <3> QED
      BY <3>1, <3>2, <3>3, <1>3, <1>4
  <2> QED
    BY <2>1, <2>2
<1>11. AnswerNeedsReceipt'
  BY <1>2, <1>3, <1>4 DEF IInv, AnswerNeedsReceipt
<1> QED
  BY <1>6, <1>7, <1>8, <1>9, <1>10, <1>11 DEF IInv

\* A call is made for an unpaid row while no other call is open.
LEMMA SendCallInv ==
    ASSUME IInv, SendCall
    PROVE  IInv'
<1> PICK d \in mymap :
       calls' = Append(calls, [dep |-> d, fate |-> "open",
                               handler |-> "unlock", tx |-> "none"])
  BY DEF SendCall
<1> DEFINE L == Len(calls)
           r == [dep |-> d, fate |-> "open", handler |-> "unlock", tx |-> "none"]
<1>1. r \in CallRec /\ r.fate = "open" /\ r.dep = d /\ r.handler = "unlock" /\ r.tx = "none"
  BY DEF IInv, TypeOK, CallRec
<1>2. /\ calls' \in Seq(CallRec)
      /\ Len(calls') = L + 1 /\ L \in Nat /\ L + 1 \notin DOMAIN calls
      /\ DOMAIN calls' = DOMAIN calls \cup {L + 1}
      /\ \A i \in DOMAIN calls : calls'[i] = calls[i]
      /\ calls'[L + 1] = r
  BY <1>1, CallAppended DEF IInv, TypeOK
<1>3. pc = "send" /\ pc' = "wait" /\ UNCHANGED <<rows, eth_txid, mymap, nodeUp, faults>>
  BY DEF SendCall
<1> HIDE DEF r
<1>4. TypeOK'
  BY <1>2, <1>3 DEF IInv, TypeOK
<1>5. OpenCallIsCurrent'
  BY <1>1, <1>2, <1>3 DEF IInv, OpenCallIsCurrent, Waiting
<1>6. SelectedRowsUnpaid'
  BY <1>3 DEF IInv, SelectedRowsUnpaid
<1>7. RecordedCallIsStored'
  BY <1>1, <1>2, <1>3 DEF IInv, RecordedCallIsStored
<1>8. StoredTxIsMined'
  BY <1>2, <1>3 DEF IInv, StoredTxIsMined
<1>9. AnswerNeedsReceipt'
  <2>1. \A c \in DOMAIN calls :
          /\ calls[c].handler \in {"gasprice", "replied"} => calls[c].tx = "mined"
          /\ calls[c].handler = "unlock" => calls[c].tx = "none"
    BY DEF IInv, AnswerNeedsReceipt
  <2>2. calls'[L + 1].handler = "unlock" /\ calls'[L + 1].tx = "none"
    BY <1>1, <1>2
  <2>3. pc' # "update"
    BY <1>3
  <2> QED
    BY <2>1, <2>2, <2>3, <1>2 DEF AnswerNeedsReceipt
<1> QED
  BY <1>4, <1>5, <1>6, <1>7, <1>8, <1>9 DEF IInv

\* The daemon moves between rows and phases; no call changes.
LEMMA LocalStepInv ==
    ASSUME IInv, ~Waiting, UNCHANGED <<eth_txid, calls, nodeUp>>,
           rows' \subseteq Deposit, rows \subseteq rows',
           mymap' \subseteq select_safe2eth \cup mymap,
           pc' \in {"select", "send", "scan", "down"},
           FaultsTyped'
    PROVE  IInv'
<1>1. TypeOK'
  BY DEF IInv, TypeOK, select_safe2eth
<1>2. OpenCallIsCurrent'
  BY DEF IInv, OpenCallIsCurrent, Waiting
<1>3. SelectedRowsUnpaid'
  BY DEF IInv, SelectedRowsUnpaid, select_safe2eth
<1>4. RecordedCallIsStored'
  BY DEF IInv, RecordedCallIsStored
<1>5. StoredTxIsMined'
  BY DEF IInv, StoredTxIsMined
<1>6. AnswerNeedsReceipt'
  BY DEF IInv, AnswerNeedsReceipt
<1> QED
  BY <1>1, <1>2, <1>3, <1>4, <1>5, <1>6 DEF IInv

-----------------------------------------------------------------------------
(* The invariant holds initially and is preserved by every action. *)

LEMMA InitInv == Init => IInv
BY FaultAssumption DEF Init, IInv, TypeOK, OpenCallIsCurrent, Waiting, SelectedRowsUnpaid,
       RecordedCallIsStored, StoredTxIsMined, AnswerNeedsReceipt, NoTx

\* One injected fault keeps the count within its bound.
LEMMA FaultCounted ==
    ASSUME IInv, NEW kind, Fault(kind)
    PROVE  FaultsTyped'
BY FaultAssumption DEF IInv, TypeOK, Fault

LEMMA DaemonInv == IInv /\ Daemon => IInv'
<1> SUFFICES ASSUME IInv, Daemon
             PROVE  IInv'
  OBVIOUS
<1> USE DEF Waiting
<1>0. FaultsTyped /\ rows \subseteq Deposit /\ mymap \subseteq rows
  BY DEF IInv, TypeOK
<1>1. CASE SelectPending
  BY <1>0, <1>1, LocalStepInv DEF SelectPending
<1>2. CASE SelectFails
  BY <1>0, <1>2, LocalStepInv, FaultCounted DEF SelectFails
<1>3. CASE SkipRow
  BY <1>0, <1>3, LocalStepInv DEF SkipRow
<1>4. CASE SendCall
  BY <1>4, SendCallInv
<1>5. CASE ReceiveReply
  <2>1. Len(calls) > 0 /\ calls[Len(calls)].handler = "replied"
    BY <1>5 DEF ReceiveReply, Cur, IInv, OpenCallIsCurrent
  <2> QED
    BY <1>5, <2>1 DEF ReceiveReply, IInv, TypeOK, OpenCallIsCurrent, SelectedRowsUnpaid,
                RecordedCallIsStored, StoredTxIsMined, AnswerNeedsReceipt
<1>6. CASE ReceiveError
  BY <1>0, <1>6, AbandonsInv DEF ReceiveError, Finish, Cur, Abandons
<1>7. CASE Timeout
  BY <1>0, <1>7, AbandonsInv, FaultCounted DEF Timeout, Finish, Cur, Abandons
<1>8. CASE StoreReply
  BY <1>8, StoreReplyInv
<1>9. CASE StoreFails
  BY <1>0, <1>9, AbandonsInv, FaultCounted DEF StoreFails, Finish, Cur, Abandons
<1>10. CASE ThreadEnds
  BY <1>0, <1>10, LocalStepInv DEF ThreadEnds
<1>11. ASSUME NEW d \in Deposit, ScanReports(d)
       PROVE  IInv'
  <2>1. d \notin rows => eth_txid[d] = NoTx
    BY DEF IInv, StoredTxIsMined
  <2>2. [eth_txid EXCEPT ![d] = NoTx] = eth_txid \/ d \in rows
    BY <2>1 DEF IInv, TypeOK
  <2>3. eth_txid' = eth_txid
    BY <1>11, <2>2 DEF ScanReports, insert_safe2eth, update_safe2eth
  <2> QED
    BY <1>0, <1>11, <2>3, LocalStepInv DEF ScanReports, insert_safe2eth
<1>12. CASE RoundEnds
  BY <1>0, <1>12, LocalStepInv DEF RoundEnds
<1>13. CASE Crash
  <2>1. CASE Waiting
    BY <1>0, <1>13, <2>1, AbandonsInv, FaultCounted DEF Crash, Cur, Abandons
  <2>2. CASE ~Waiting
    BY <1>0, <1>13, <2>2, LocalStepInv, FaultCounted DEF Crash
  <2> QED
    BY <2>1, <2>2
<1>14. CASE Restart
  BY <1>0, <1>14, LocalStepInv DEF Restart
<1> QED
  BY <1>1, <1>2, <1>3, <1>4, <1>5, <1>6, <1>7, <1>8, <1>9, <1>10, <1>11, <1>12,
     <1>13, <1>14 DEF Daemon

\* A handler that only changes its own position, within its rights.
LEMMA HandlerStepInv ==
    ASSUME IInv, NEW c \in DOMAIN calls,
           NEW from \in {"unlock", "receipt", "gasprice"},
           NEW to \in {"gasprice", "replied", "failed"},
           HandlerStep(c, from, to),
           to # "failed" => calls[c].tx = "mined",
           FaultsTyped'
    PROVE  IInv'
<1> DEFINE r == [calls[c] EXCEPT !.handler = to]
<1>1. calls[c] \in CallRec
  BY DEF IInv, TypeOK
<1>2. /\ r \in CallRec /\ r.handler = to
      /\ r.dep = calls[c].dep /\ r.fate = calls[c].fate /\ r.tx = calls[c].tx
  BY <1>1 DEF CallRec
<1>3. calls' = [calls EXCEPT ![c] = r]
  BY <1>1 DEF HandlerStep
<1>4. CallMoves(c, r)
  BY <1>2, <1>3 DEF CallMoves, HandlerStep
<1> QED
  BY <1>4, CallMovesInv

LEMMA HandlerInv == ASSUME IInv, NEW c \in DOMAIN calls, Handler(c)
                    PROVE  IInv'
<1>0. FaultsTyped /\ calls[c] \in CallRec
  BY DEF IInv, TypeOK
<1>1. CASE Submit(c)
  <2> DEFINE r == [calls[c] EXCEPT !.handler = "receipt", !.tx = "pooled"]
  <2>1. /\ r \in CallRec /\ r.handler = "receipt" /\ r.tx = "pooled"
        /\ r.dep = calls[c].dep /\ r.fate = calls[c].fate
    BY <1>0 DEF CallRec
  <2>2. calls' = [calls EXCEPT ![c] = r]
    BY <1>0, <1>1 DEF Submit
  <2>3. calls[c].handler = "unlock" /\ calls[c].tx = "none"
    BY <1>1 DEF Submit, IInv, AnswerNeedsReceipt
  <2>4. CallMoves(c, r)
    BY <1>0, <1>1, <2>1, <2>2, <2>3 DEF CallMoves, Submit
  <2> QED
    BY <2>4, CallMovesInv
<1>2. CASE UnlockFails(c)
  BY <1>2, HandlerStepInv, FaultCounted DEF UnlockFails
<1>3. CASE GetReceipt(c)
  BY <1>0, <1>3, HandlerStepInv DEF GetReceipt
<1>4. CASE GetRevert(c)
  BY <1>0, <1>4, HandlerStepInv DEF GetRevert
<1>5. CASE GivesUp(c)
  BY <1>5, HandlerStepInv, FaultCounted DEF GivesUp
<1>6. CASE Reply(c)
  <2>1. calls[c].tx = "mined"
    BY <1>6 DEF Reply, HandlerStep, IInv, AnswerNeedsReceipt
  <2> QED
    BY <1>0, <1>6, <2>1, HandlerStepInv DEF Reply
<1>7. CASE GasPriceFails(c)
  BY <1>7, HandlerStepInv, FaultCounted DEF GasPriceFails
<1> QED
  BY <1>1, <1>2, <1>3, <1>4, <1>5, <1>6, <1>7 DEF Handler

LEMMA ChainInv == ASSUME IInv, NEW c \in DOMAIN calls, Mine(c) \/ MineReverted(c)
                  PROVE  IInv'
<1>0. FaultsTyped /\ calls[c] \in CallRec
  BY DEF IInv, TypeOK
<1>1. ASSUME NEW to \in {"mined", "reverted"}, TxStep(c, to), FaultsTyped'
      PROVE  IInv'
  <2> DEFINE r == [calls[c] EXCEPT !.tx = to]
  <2>1. /\ r \in CallRec /\ r.handler = calls[c].handler /\ r.tx = to
        /\ r.dep = calls[c].dep /\ r.fate = calls[c].fate
    BY <1>0 DEF CallRec
  <2>2. calls' = [calls EXCEPT ![c] = r]
    BY <1>0, <1>1 DEF TxStep
  <2>3. calls[c].tx = "pooled" /\ calls[c].handler \notin {"unlock", "gasprice", "replied"}
    BY <1>1 DEF TxStep, IInv, AnswerNeedsReceipt
  <2>4. CallMoves(c, r)
    BY <1>1, <2>1, <2>2, <2>3 DEF CallMoves, TxStep
  <2> QED
    BY <2>4, CallMovesInv
<1>2. CASE Mine(c)
  BY <1>0, <1>1, <1>2 DEF Mine
<1>3. CASE MineReverted(c)
  BY <1>1, <1>3, FaultCounted DEF MineReverted
<1> QED
  BY <1>2, <1>3

\* The gateway's death fails its running handlers; nothing else changes.
LEMMA NodeCrashInv == ASSUME IInv, NodeCrash
                      PROVE  IInv'
<1>0. FaultsTyped' /\ \A c \in DOMAIN calls : calls[c] \in CallRec
  BY FaultCounted DEF NodeCrash, IInv, TypeOK
<1>1. calls' = [c \in 1..Len(calls) |->
                  IF calls[c].handler \in {"unlock", "receipt", "gasprice"}
                    THEN [calls[c] EXCEPT !.handler = "failed"] ELSE calls[c]]
  BY DEF NodeCrash, IInv, TypeOK
<1>2. \A c \in DOMAIN calls :
        /\ calls'[c] \in CallRec
        /\ calls'[c].dep = calls[c].dep /\ calls'[c].fate = calls[c].fate
        /\ calls'[c].tx = calls[c].tx
        /\ \/ calls'[c].handler = "failed" /\ calls[c].handler # "replied"
           \/ calls'[c].handler = calls[c].handler
  <2> SUFFICES ASSUME NEW c \in DOMAIN calls
               PROVE  /\ calls'[c] \in CallRec
                      /\ calls'[c].dep = calls[c].dep /\ calls'[c].fate = calls[c].fate
                      /\ calls'[c].tx = calls[c].tx
                      /\ \/ calls'[c].handler = "failed" /\ calls[c].handler # "replied"
                         \/ calls'[c].handler = calls[c].handler
    OBVIOUS
  <2>1. calls[c] \in CallRec /\ c \in 1..Len(calls)
    BY <1>0 DEF IInv, TypeOK
  <2>2. CASE calls[c].handler \in {"unlock", "receipt", "gasprice"}
    <3>1. calls'[c] = [calls[c] EXCEPT !.handler = "failed"]
      BY <1>1, <2>1, <2>2
    <3> QED
      BY <2>1, <2>2, <3>1 DEF CallRec
  <2>3. CASE calls[c].handler \notin {"unlock", "receipt", "gasprice"}
    BY <1>1, <2>1, <2>3
  <2> QED
    BY <2>2, <2>3
<1>3. /\ calls' \in Seq(CallRec)
      /\ Len(calls') = Len(calls) /\ DOMAIN calls' = DOMAIN calls
  <2>1. Len(calls) \in Nat /\ DOMAIN calls = 1..Len(calls)
    BY DEF IInv, TypeOK
  <2>2. \A c \in 1..Len(calls) : calls'[c] \in CallRec
    BY <1>2, <2>1
  <2> QED
    BY <1>1, <2>1, <2>2
<1>4. UNCHANGED <<rows, eth_txid, pc, mymap>> /\ nodeUp' = FALSE
  BY DEF NodeCrash
<1>5. Len(calls) > 0 => Len(calls) \in DOMAIN calls
  BY DEF IInv, TypeOK
<1> HIDE <1>1
<1>6. TypeOK'
  BY <1>0, <1>3, <1>4 DEF IInv, TypeOK
<1>7. OpenCallIsCurrent'
  BY <1>2, <1>3, <1>4, <1>5 DEF IInv, OpenCallIsCurrent, Waiting
<1>8. SelectedRowsUnpaid' /\ RecordedCallIsStored' /\ StoredTxIsMined'
  BY <1>2, <1>3, <1>4 DEF IInv, SelectedRowsUnpaid, RecordedCallIsStored, StoredTxIsMined
<1>9. AnswerNeedsReceipt'
  BY <1>2, <1>3, <1>4, <1>5 DEF IInv, AnswerNeedsReceipt, OpenCallIsCurrent, Waiting
<1> QED
  BY <1>6, <1>7, <1>8, <1>9 DEF IInv

LEMMA StepInv == IInv /\ [Next]_vars => IInv'
<1> SUFFICES ASSUME IInv, [Next]_vars
             PROVE  IInv'
  OBVIOUS
<1>1. CASE Daemon
  BY <1>1, DaemonInv
<1>2. CASE NodeCrash
  BY <1>2, NodeCrashInv
<1>3. CASE NodeRestart
  BY <1>3 DEF NodeRestart, IInv, TypeOK, OpenCallIsCurrent, Waiting, SelectedRowsUnpaid,
              RecordedCallIsStored, StoredTxIsMined, AnswerNeedsReceipt
<1>4. CASE \E c \in DOMAIN calls : Handler(c)
  BY <1>4, HandlerInv
<1>5. CASE Chain
  BY <1>5, ChainInv DEF Chain
<1>6. CASE UNCHANGED vars
  BY <1>6 DEF vars, IInv, TypeOK, OpenCallIsCurrent, Waiting, SelectedRowsUnpaid,
              RecordedCallIsStored, StoredTxIsMined, AnswerNeedsReceipt
<1> QED
  BY <1>1, <1>2, <1>3, <1>4, <1>5, <1>6 DEF Next, Gateway

\* The inductive invariant holds in every reachable state of the peg-in relay
\* (safe2eth_thread and the handler SAFE.safe2eth).
THEOREM Invariance == Spec => []IInv
<1>1. Init => IInv
  BY InitInv
<1>2. IInv /\ [Next]_vars => IInv'
  BY StepInv
<1> QED
  BY <1>1, <1>2, PTL DEF Spec

-----------------------------------------------------------------------------
(* Theorems. *)

\* The tables, the daemon's map and the list of calls keep their types, and
\* the daemon only ever holds rows that are in the table.
THEOREM TypeCorrect == Spec => []TypeOK
<1>1. IInv => TypeOK
  BY DEF IInv
<1> QED
  BY <1>1, Invariance, PTL

\* An eth_txid in the table names a mined mint of that row's deposit.
THEOREM NoPhantomPaymentThm == Spec => []NoPhantomPayment
<1>1. IInv => NoPhantomPayment
  BY DEF IInv, TypeOK, StoredTxIsMined, NoPhantomPayment, Mined
<1> QED
  BY <1>1, Invariance, PTL

\* Of the mints of one deposit at most one belongs to a call that the daemon
\* did not abandon, whatever faults strike and in whatever order.
THEOREM OneAccountedMintThm == Spec => []OneAccountedMint
<1>1. IInv => OneAccountedMint
  <2> SUFFICES ASSUME IInv, NEW d \in Deposit, NEW b \in Mined(d), NEW c \in Mined(d),
                      calls[b].fate # "abandoned", calls[c].fate # "abandoned"
               PROVE  b = c
    BY DEF OneAccountedMint
  <2>1. /\ b \in DOMAIN calls /\ calls[b].dep = d
        /\ c \in DOMAIN calls /\ calls[c].dep = d
    BY DEF Mined
  <2>2. \A i \in DOMAIN calls : calls[i].fate \in {"open", "recorded", "abandoned"} /\ i # 0
    <3> SUFFICES ASSUME NEW i \in DOMAIN calls
                 PROVE  calls[i].fate \in {"open", "recorded", "abandoned"} /\ i # 0
      OBVIOUS
    <3>1. calls[i] \in CallRec /\ i # 0
      BY DEF IInv, TypeOK
    <3> QED
      BY <3>1 DEF CallRec
  <2>3. \A i \in DOMAIN calls : calls[i].fate = "open" =>
          i = Len(calls) /\ eth_txid[calls[i].dep] = NoTx
    BY DEF IInv, OpenCallIsCurrent, SelectedRowsUnpaid
  <2>4. \A i \in DOMAIN calls : calls[i].fate = "recorded" => eth_txid[calls[i].dep] = i
    BY DEF IInv, RecordedCallIsStored
  <2> QED
    BY <2>1, <2>2, <2>3, <2>4 DEF NoTx
<1> QED
  BY <1>1, Invariance, PTL

\* A paid row is never reset, overwritten or sent again.
THEOREM PaidIsFinalThm == Spec => PaidIsFinal
<1> DEFINE Final == \A d \in rows : eth_txid[d] # NoTx =>
                      /\ d \in rows'
                      /\ eth_txid'[d] = eth_txid[d]
                      /\ Len(calls') > Len(calls) => calls'[Len(calls')].dep # d
<1>1. IInv /\ [Next]_vars => Final
  <2> SUFFICES ASSUME IInv, [Next]_vars, NEW d \in rows, eth_txid[d] # NoTx
               PROVE  /\ d \in rows'
                      /\ eth_txid'[d] = eth_txid[d]
                      /\ Len(calls') > Len(calls) => calls'[Len(calls')].dep # d
    OBVIOUS
  <2>1. d \notin mymap /\ Len(calls) \in Nat /\ eth_txid \in [Deposit -> Nat] /\ d \in Deposit
        /\ calls \in Seq(CallRec)
    BY DEF IInv, TypeOK, SelectedRowsUnpaid
  <2>2. CASE SendCall
    <3> PICK e \in mymap : calls' = Append(calls, [dep |-> e, fate |-> "open",
                                                 handler |-> "unlock", tx |-> "none"])
      BY <2>2 DEF SendCall
    <3>1. calls'[Len(calls')].dep = e
      BY <2>1
    <3> QED
      BY <2>1, <2>2, <3>1 DEF SendCall
  <2>3. CASE StoreReply
    <3>1. calls[Cur].dep # d /\ rows' = rows /\ Len(calls') = Len(calls)
      BY <2>1, <2>3 DEF StoreReply, Finish, Cur, IInv, OpenCallIsCurrent, Waiting
    <3> QED
      BY <2>1, <2>3, <3>1 DEF StoreReply, update_safe2eth
  <2>4. CASE \E e \in Deposit : ScanReports(e)
    BY <2>1, <2>4 DEF ScanReports, insert_safe2eth, update_safe2eth
  <2>5. ASSUME rows' = rows, eth_txid' = eth_txid, Len(calls') = Len(calls)
        PROVE  /\ d \in rows'
               /\ eth_txid'[d] = eth_txid[d]
               /\ Len(calls') > Len(calls) => calls'[Len(calls')].dep # d
    BY <2>1, <2>5
  <2>6. CASE UNCHANGED vars
    BY <2>5, <2>6 DEF vars
  <2>7. CASE Daemon /\ ~SendCall /\ ~StoreReply /\ ~(\E e \in Deposit : ScanReports(e))
    BY <2>1, <2>5, <2>7 DEF Daemon, SelectPending, SelectFails, SkipRow, ReceiveReply,
       ReceiveError, Timeout, Finish, StoreFails, ThreadEnds, RoundEnds, Crash, Restart
  <2>8. CASE NodeCrash
    <3>1. DOMAIN calls = 1..Len(calls)
      BY <2>1
    <3>2. Len(calls') = Len(calls)
      BY <2>1, <2>8, <3>1 DEF NodeCrash
    <3> QED
      BY <2>5, <2>8, <3>2 DEF NodeCrash
  <2>9. CASE NodeRestart
    BY <2>5, <2>9 DEF NodeRestart
  <2>10. CASE \E c \in DOMAIN calls : Handler(c)
    BY <2>1, <2>5, <2>10 DEF Handler, Submit, UnlockFails, GetReceipt, GetRevert, GivesUp,
       Reply, GasPriceFails, HandlerStep
  <2>11. CASE Chain
    BY <2>1, <2>5, <2>11 DEF Chain, Mine, MineReverted, TxStep
  <2> QED
    BY <2>2, <2>3, <2>4, <2>6, <2>7, <2>8, <2>9, <2>10, <2>11 DEF Next, Gateway
<1>2. IInv /\ [Next]_vars => [Final]_vars
  BY <1>1
<1>3. PaidIsFinal <=> [][Final]_vars
  BY DEF PaidIsFinal
<1> HIDE DEF Final
<1> QED
  BY <1>2, <1>3, Invariance, PTL DEF Spec

-----------------------------------------------------------------------------
(***************************************************************************)
(* Harmless faults.  As long as nothing but refused unlocks, reverts and   *)
(* failing selections has happened, a call is abandoned only after its       *)
(* handler failed, and a failed handler leaves no effect behind.           *)
(***************************************************************************)
FailedCallHasNoEffect ==
    \A c \in DOMAIN calls :
      /\ calls[c].fate = "abandoned" => calls[c].handler = "failed"
      /\ calls[c].handler = "failed" => calls[c].tx \in {"none", "reverted"}

\* A fault is on the log from the step in which it strikes.
LEMMA SufferedGrows ==
    ASSUME IInv
    PROVE  /\ [Next]_vars => Suffered \subseteq Suffered'
           /\ \A kind : Fault(kind) => kind \in Suffered'
<1>0. faults \in Seq(FaultKinds)
  BY DEF IInv, TypeOK
<1>1. ASSUME NEW kind, Fault(kind)
      PROVE  Suffered' = Suffered \cup {kind}
  <2>1. faults' = Append(faults, kind) /\ kind \in FaultKinds
    BY <1>1, FaultAssumption DEF Fault
  <2> QED
    BY <1>0, <2>1 DEF Suffered
<1>2. ASSUME faults' = faults
      PROVE  Suffered' = Suffered
  BY <1>2 DEF Suffered
<1>3. [Next]_vars => (faults' = faults \/ \E kind : Fault(kind))
  BY DEF Next, Daemon, Gateway, Chain, Handler, vars, SelectPending, SelectFails, SkipRow,
     SendCall, ReceiveReply, ReceiveError, Timeout, StoreReply, StoreFails, ThreadEnds,
     ScanReports, RoundEnds, Crash, Restart, NodeCrash, NodeRestart, Submit, UnlockFails,
     GetReceipt, GetRevert, GivesUp, Reply, GasPriceFails, Mine, MineReverted
<1> QED
  BY <1>1, <1>2, <1>3

LEMMA NoEffectStep ==
    ASSUME (Suffered \subseteq HarmlessFaults)', IInv, FailedCallHasNoEffect, [Next]_vars
    PROVE  FailedCallHasNoEffect'
<1>1. calls \in Seq(CallRec) /\ Len(calls) \in Nat /\ DOMAIN calls = 1..Len(calls)
      /\ \A c \in DOMAIN calls : calls[c] \in CallRec
  BY DEF IInv, TypeOK
<1>2. \A kind : Fault(kind) => kind \in HarmlessFaults
  BY SufferedGrows
<1>3. ASSUME NEW c \in DOMAIN calls, NEW r \in CallRec, calls' = [calls EXCEPT ![c] = r],
             r.fate = "abandoned" => r.handler = "failed",
             r.handler = "failed" => r.tx \in {"none", "reverted"}
      PROVE  FailedCallHasNoEffect'
  <2>1. /\ DOMAIN calls' = DOMAIN calls
        /\ \A i \in DOMAIN calls : calls'[i] = IF i = c THEN r ELSE calls[i]
    BY <1>1, <1>3, CallUpdated
  <2> QED
    BY <2>1, <1>3 DEF FailedCallHasNoEffect
<1>4. ASSUME calls' = calls
      PROVE  FailedCallHasNoEffect'
  BY <1>4 DEF FailedCallHasNoEffect
<1>5. CASE SendCall
  <2> PICK e \in mymap : calls' = Append(calls, [dep |-> e, fate |-> "open",
                                               handler |-> "unlock", tx |-> "none"])
    BY <1>5 DEF SendCall
  <2> DEFINE r == [dep |-> e, fate |-> "open", handler |-> "unlock", tx |-> "none"]
  <2>1. r \in CallRec /\ r.fate = "open" /\ r.handler = "unlock"
    BY DEF IInv, TypeOK, CallRec
  <2>2. /\ DOMAIN calls' = DOMAIN calls \cup {Len(calls) + 1}
        /\ \A i \in DOMAIN calls : calls'[i] = calls[i]
        /\ calls'[Len(calls) + 1] = r
    BY <1>1, <2>1, CallAppended
  <2> HIDE DEF r
  <2> QED
    BY <2>1, <2>2 DEF FailedCallHasNoEffect
<1>6. CASE ReceiveError \/ StoreReply
  <2> DEFINE L == Len(calls)
  <2>1. L \in DOMAIN calls
    BY <1>1, <1>6 DEF ReceiveError, StoreReply, IInv, OpenCallIsCurrent, Waiting
  <2>2. PICK fate \in {"recorded", "abandoned"} :
          /\ calls' = [calls EXCEPT ![L].fate = fate]
          /\ fate = "abandoned" => calls[L].handler = "failed"
    BY <1>6 DEF ReceiveError, StoreReply, Finish, Cur
  <2> DEFINE r == [calls[L] EXCEPT !.fate = fate]
  <2>3. /\ r \in CallRec /\ r.fate = fate
        /\ r.handler = calls[L].handler /\ r.tx = calls[L].tx
    BY <1>1, <2>1 DEF CallRec
  <2>4. calls' = [calls EXCEPT ![L] = r]
    BY <2>1, <2>2
  <2> HIDE DEF r
  <2> QED
    BY <1>3, <2>1, <2>2, <2>3, <2>4 DEF FailedCallHasNoEffect
<1>7. CASE Timeout \/ StoreFails \/ Crash \/ NodeCrash
  BY <1>2, <1>7 DEF Timeout, StoreFails, Crash, NodeCrash, HarmlessFaults
<1>8. CASE SelectPending \/ SelectFails \/ SkipRow \/ ReceiveReply \/ ThreadEnds
           \/ (\E d \in Deposit : ScanReports(d)) \/ RoundEnds \/ Restart \/ NodeRestart
           \/ UNCHANGED vars
  BY <1>4, <1>8 DEF SelectPending, SelectFails, SkipRow, ReceiveReply, ThreadEnds,
     ScanReports, RoundEnds, Restart, NodeRestart, vars
<1>9. ASSUME NEW c \in DOMAIN calls, Handler(c)
      PROVE  FailedCallHasNoEffect'
  <2>1. calls[c] \in CallRec
    BY <1>1
  <2>2. ~GivesUp(c) /\ ~GasPriceFails(c)
    BY <1>2 DEF GivesUp, GasPriceFails, HarmlessFaults
  <2>3. CASE Submit(c)
    <3> DEFINE r == [calls[c] EXCEPT !.handler = "receipt", !.tx = "pooled"]
    <3>1. r \in CallRec /\ r.handler = "receipt" /\ r.fate = calls[c].fate
      BY <2>1 DEF CallRec
    <3>2. calls' = [calls EXCEPT ![c] = r] /\ calls[c].handler # "failed"
      BY <2>1, <2>3 DEF Submit
    <3> HIDE DEF r
    <3> QED
      BY <1>3, <3>1, <3>2 DEF FailedCallHasNoEffect
  <2>4. CASE UnlockFails(c) \/ GetReceipt(c) \/ GetRevert(c) \/ Reply(c)
    <3>1. PICK to \in {"gasprice", "replied", "failed"} :
            /\ calls' = [calls EXCEPT ![c].handler = to]
            /\ to = "failed" => calls[c].tx \in {"none", "reverted"}
            /\ calls[c].handler # "failed"
      BY <2>4 DEF UnlockFails, GetReceipt, GetRevert, Reply, HandlerStep, IInv,
                  AnswerNeedsReceipt
    <3> DEFINE r == [calls[c] EXCEPT !.handler = to]
    <3>2. r \in CallRec /\ r.handler = to /\ r.fate = calls[c].fate /\ r.tx = calls[c].tx
      BY <2>1 DEF CallRec
    <3>3. calls' = [calls EXCEPT ![c] = r]
      BY <2>1, <3>1
    <3> HIDE DEF r
    <3> QED
      BY <1>3, <3>1, <3>2, <3>3 DEF FailedCallHasNoEffect
  <2> QED
    BY <1>9, <2>2, <2>3, <2>4 DEF Handler
<1>10. ASSUME NEW c \in DOMAIN calls, Mine(c) \/ MineReverted(c)
       PROVE  FailedCallHasNoEffect'
  <2>1. calls[c] \in CallRec
    BY <1>1
  <2>2. PICK to \in {"mined", "reverted"} :
          calls' = [calls EXCEPT ![c].tx = to] /\ calls[c].tx = "pooled"
    BY <1>10 DEF Mine, MineReverted, TxStep
  <2> DEFINE r == [calls[c] EXCEPT !.tx = to]
  <2>3. r \in CallRec /\ r.handler = calls[c].handler /\ r.fate = calls[c].fate
    BY <2>1 DEF CallRec
  <2>4. calls' = [calls EXCEPT ![c] = r]
    BY <2>1, <2>2
  <2>5. calls[c].handler # "failed"
    BY <2>2 DEF FailedCallHasNoEffect
  <2> HIDE DEF r
  <2> QED
    BY <1>3, <2>3, <2>4, <2>5 DEF FailedCallHasNoEffect
<1> QED
  BY <1>5, <1>6, <1>7, <1>8, <1>9, <1>10 DEF Next, Daemon, Gateway, Chain

\* Under harmless faults a deposit is minted at most once, however often the
\* daemon retries it.
THEOREM HarmlessFaultsMintOnceThm == Spec => []HarmlessFaultsMintOnce
<1> DEFINE Harmless == Suffered \subseteq HarmlessFaults
           J == Harmless => FailedCallHasNoEffect
<1>1. Init => J
  BY DEF Init, FailedCallHasNoEffect
<1>2. J /\ IInv /\ [Next]_vars => J'
  BY NoEffectStep, SufferedGrows
<1>3. IInv /\ OneAccountedMint /\ J => HarmlessFaultsMintOnce
  <2> SUFFICES ASSUME OneAccountedMint, FailedCallHasNoEffect,
                      NEW d \in Deposit, NEW b \in Mined(d), NEW c \in Mined(d)
               PROVE  b = c
    BY DEF HarmlessFaultsMintOnce
  <2>1. calls[b].fate # "abandoned" /\ calls[c].fate # "abandoned"
    BY DEF FailedCallHasNoEffect, Mined
  <2> QED
    BY <2>1 DEF OneAccountedMint
<1> HIDE DEF J
<1> QED
  BY <1>1, <1>2, <1>3, Invariance, OneAccountedMintThm, PTL DEF Spec

-----------------------------------------------------------------------------
(***************************************************************************)
(* MintRelay implements Settlement.  The claims are the rows, so only the  *)
(* steps that append a call, end one or mine a transaction are visible.    *)
(***************************************************************************)

\* A step that leaves the table and, of every call, the deposit, the fate and
\* whether it minted, is a stutter.
LEMMA HiddenStep ==
    ASSUME UNCHANGED <<rows, eth_txid>>,
           DOMAIN calls' = DOMAIN calls,
           \A c \in DOMAIN calls :
             /\ calls'[c].dep = calls[c].dep
             /\ calls'[c].fate = calls[c].fate
             /\ calls'[c].tx = "mined" <=> calls[c].tx = "mined"
    PROVE  UNCHANGED PegIn!vars
  BY DEF PegIn!vars, Attempt

\* Handlers and reverted transactions change a field nobody else sees.
LEMMA HiddenCallStep ==
    ASSUME IInv, NEW c \in DOMAIN calls, NEW r \in CallRec,
           calls' = [calls EXCEPT ![c] = r],
           r.dep = calls[c].dep, r.fate = calls[c].fate,
           r.tx = "mined" <=> calls[c].tx = "mined",
           UNCHANGED <<rows, eth_txid>>
    PROVE  UNCHANGED PegIn!vars
<1>1. /\ DOMAIN calls' = DOMAIN calls
      /\ \A i \in DOMAIN calls : calls'[i] = IF i = c THEN r ELSE calls[i]
  BY CallUpdated DEF IInv, TypeOK
<1> QED
  BY <1>1, HiddenStep

LEMMA HandlerRefines ==
    ASSUME IInv, NEW c \in DOMAIN calls, Handler(c)
    PROVE  UNCHANGED PegIn!vars
<1>0. calls[c] \in CallRec
  BY DEF IInv, TypeOK
<1>1. CASE Submit(c)
  <2> DEFINE r == [calls[c] EXCEPT !.handler = "receipt", !.tx = "pooled"]
  <2>1. r \in CallRec /\ r.tx = "pooled" /\ r.dep = calls[c].dep /\ r.fate = calls[c].fate
    BY <1>0 DEF CallRec
  <2>2. calls' = [calls EXCEPT ![c] = r] /\ UNCHANGED <<rows, eth_txid>>
    BY <1>0, <1>1 DEF Submit
  <2>3. calls[c].tx = "none"
    BY <1>1 DEF Submit, IInv, AnswerNeedsReceipt
  <2> HIDE DEF r
  <2> QED
    BY <2>1, <2>2, <2>3, HiddenCallStep
<1>2. ASSUME NEW from, NEW to \in {"gasprice", "replied", "failed"}, HandlerStep(c, from, to)
      PROVE  UNCHANGED PegIn!vars
  <2> DEFINE r == [calls[c] EXCEPT !.handler = to]
  <2>1. r \in CallRec /\ r.tx = calls[c].tx /\ r.dep = calls[c].dep /\ r.fate = calls[c].fate
    BY <1>0 DEF CallRec
  <2>2. calls' = [calls EXCEPT ![c] = r] /\ UNCHANGED <<rows, eth_txid>>
    BY <1>0, <1>2 DEF HandlerStep
  <2> HIDE DEF r
  <2> QED
    BY <2>1, <2>2, HiddenCallStep
<1> QED
  BY <1>1, <1>2 DEF Handler, UnlockFails, GetReceipt, GetRevert, GivesUp, Reply, GasPriceFails

LEMMA ChainRefines ==
    ASSUME IInv, NEW c \in DOMAIN calls, Mine(c) \/ MineReverted(c)
    PROVE  [PegIn!Next]_(PegIn!vars)
<1>0. calls[c] \in CallRec /\ calls[c].tx = "pooled"
  BY DEF IInv, TypeOK, Mine, MineReverted, TxStep
<1>1. CASE MineReverted(c)
  <2> DEFINE r == [calls[c] EXCEPT !.tx = "reverted"]
  <2>1. r \in CallRec /\ r.tx = "reverted" /\ r.dep = calls[c].dep /\ r.fate = calls[c].fate
    BY <1>0 DEF CallRec
  <2>2. calls' = [calls EXCEPT ![c] = r] /\ UNCHANGED <<rows, eth_txid>>
    BY <1>0, <1>1 DEF MineReverted, TxStep
  <2> HIDE DEF r
  <2> QED
    BY <1>0, <2>1, <2>2, HiddenCallStep
<1>2. CASE Mine(c)
  <2> DEFINE r == [calls[c] EXCEPT !.tx = "mined"]
  <2> PICK a : a = Attempt(c)
    OBVIOUS
  <2>1. r \in CallRec /\ r.tx = "mined" /\ r.dep = calls[c].dep /\ r.fate = calls[c].fate
    BY <1>0 DEF CallRec
  <2>2. calls' = [calls EXCEPT ![c] = r] /\ UNCHANGED <<rows, eth_txid>>
    BY <1>0, <1>2 DEF Mine, TxStep
  <2>3. /\ DOMAIN calls' = DOMAIN calls
        /\ \A i \in DOMAIN calls : calls'[i] = IF i = c THEN r ELSE calls[i]
    BY <2>1, <2>2, CallUpdated DEF IInv, TypeOK
  <2>4. calls[c].fate # "recorded"
    <3>1. calls[c].dep \in Deposit /\ c # NoTx
      BY <1>0 DEF IInv, TypeOK, CallRec, NoTx
    <3> QED
      BY <1>0, <3>1 DEF IInv, RecordedCallIsStored, StoredTxIsMined
  <2>5. calls[c].fate \in {"open", "abandoned"}
    BY <1>0, <2>4 DEF CallRec
  <2> HIDE DEF r
  <2>6. PegIn!TakeEffect(a)
    BY <1>0, <2>1, <2>2, <2>3, <2>5 DEF PegIn!TakeEffect, Attempt
  <2>7. a \in {Attempt(i) : i \in {j \in DOMAIN calls : calls[j].fate = "open"}}
             \cup {Attempt(i) : i \in {j \in DOMAIN calls : calls[j].fate = "abandoned"}}
    BY <2>5
  <2> QED
    BY <2>6, <2>7, Zenon DEF PegIn!Next
<1> QED
  BY <1>1, <1>2

\* A call is made: an attempt under a number never used before.
LEMMA SendCallRefines ==
    ASSUME IInv, SendCall
    PROVE  PegIn!Next
<1> DEFINE n == Len(calls) + 1
<1>1. PICK d \in mymap : calls' = Append(calls, [dep |-> d, fate |-> "open",
                                               handler |-> "unlock", tx |-> "none"])
  BY DEF SendCall
<1> DEFINE r == [dep |-> d, fate |-> "open", handler |-> "unlock", tx |-> "none"]
<1> PICK a : a = <<d, n>>
  OBVIOUS
<1>2. d \in rows /\ d \in Deposit /\ eth_txid[d] = NoTx
  BY DEF IInv, TypeOK, SelectedRowsUnpaid
<1>3. r \in CallRec /\ r.dep = d /\ r.fate = "open" /\ r.tx = "none"
  BY <1>2 DEF CallRec
<1>4. /\ DOMAIN calls' = DOMAIN calls \cup {n}
      /\ \A i \in DOMAIN calls : calls'[i] = calls[i]
      /\ calls'[n] = r
  BY <1>1, <1>3, CallAppended DEF IInv, TypeOK
<1>5. n \notin DOMAIN calls /\ \A i \in DOMAIN calls : calls[i].fate # "open"
  BY DEF SendCall, IInv, TypeOK, OpenCallIsCurrent, Waiting
<1>6. UNCHANGED <<rows, eth_txid>>
  BY DEF SendCall
<1>7. \A e \in Deposit : eth_txid[e] # NoTx => eth_txid[e] \in DOMAIN calls
  BY DEF IInv, StoredTxIsMined
<1> HIDE DEF r
<1>8. PegIn!Start(a)
  BY <1>2, <1>3, <1>4, <1>5, <1>6, <1>7 DEF PegIn!Start, Attempt
<1>9. {Attempt(c) : c \in {i \in DOMAIN calls : calls[i].fate = "open"}}' = {a}
  BY <1>8 DEF PegIn!Start
<1>10. a \in {Attempt(c) : c \in {i \in DOMAIN calls : calls[i].fate = "open"}}'
  BY <1>9
<1> QED
  BY <1>8, <1>10, Zenon DEF PegIn!Next

\* The daemon gives the current call up.
LEMMA AbandonRefines ==
    ASSUME IInv, Waiting,
           calls' = [calls EXCEPT ![Len(calls)].fate = "abandoned"],
           UNCHANGED <<rows, eth_txid>>
    PROVE  PegIn!Next
<1> DEFINE L == Len(calls)
           r == [calls[L] EXCEPT !.fate = "abandoned"]
<1>1. L \in DOMAIN calls /\ calls[L] \in CallRec /\ calls[L].fate = "open"
  BY DEF Waiting, IInv, TypeOK, OpenCallIsCurrent
<1>2. r \in CallRec /\ r.fate = "abandoned" /\ r.dep = calls[L].dep /\ r.tx = calls[L].tx
  BY <1>1 DEF CallRec
<1>3. calls' = [calls EXCEPT ![L] = r]
  BY <1>1
<1>4. /\ DOMAIN calls' = DOMAIN calls
      /\ \A i \in DOMAIN calls : calls'[i] = IF i = L THEN r ELSE calls[i]
  BY <1>1, <1>2, <1>3, CallUpdated DEF IInv, TypeOK
<1>5. \A i \in DOMAIN calls : calls[i].fate = "open" => i = L
  BY DEF IInv, OpenCallIsCurrent
<1> HIDE DEF r
<1> PICK a : a = Attempt(L)
  OBVIOUS
<1>6. PegIn!LoseTrack(a)
  BY <1>1, <1>2, <1>4, <1>5 DEF PegIn!LoseTrack, Attempt
<1>7. a \in {Attempt(c) : c \in {i \in DOMAIN calls : calls[i].fate = "open"}}
  BY <1>1
<1> QED
  BY <1>6, <1>7, Zenon DEF PegIn!Next

\* The answer is stored: the settlement of the row of the current call.
LEMMA StoreReplyRefines ==
    ASSUME IInv, StoreReply
    PROVE  PegIn!Next
<1> DEFINE L == Len(calls)
           d == calls[L].dep
           r == [calls[L] EXCEPT !.fate = "recorded"]
<1>1. /\ L \in DOMAIN calls /\ L # NoTx /\ calls[L] \in CallRec
      /\ calls[L].fate = "open" /\ calls[L].tx = "mined"
      /\ d \in mymap /\ d \in Deposit
  <2>1. pc = "update"
    BY DEF StoreReply
  <2>2. /\ L \in DOMAIN calls /\ L # NoTx /\ calls[L] \in CallRec
        /\ calls[L].fate = "open" /\ d \in mymap /\ d \in Deposit
    BY <2>1 DEF Waiting, IInv, TypeOK, OpenCallIsCurrent, NoTx
  <2>3. calls[L].tx = "mined"
    BY <2>1, <2>2 DEF IInv, AnswerNeedsReceipt
  <2> QED
    BY <2>2, <2>3
<1>2. r \in CallRec /\ r.fate = "recorded" /\ r.dep = d /\ r.tx = calls[L].tx
  BY <1>1 DEF CallRec
<1>3. calls' = [calls EXCEPT ![L] = r] /\ rows' = rows
  BY <1>1 DEF StoreReply, Finish, Cur
<1>4. /\ DOMAIN calls' = DOMAIN calls
      /\ \A i \in DOMAIN calls : calls'[i] = IF i = L THEN r ELSE calls[i]
  BY <1>1, <1>2, <1>3, CallUpdated DEF IInv, TypeOK
<1>5. \A i \in DOMAIN calls : calls[i].fate = "open" => i = L
  BY DEF IInv, OpenCallIsCurrent
<1>6. /\ eth_txid \in [Deposit -> Nat] /\ eth_txid[d] = NoTx
      /\ eth_txid' = [eth_txid EXCEPT ![d] = L]
  BY <1>1 DEF IInv, TypeOK, SelectedRowsUnpaid, StoreReply, update_safe2eth, Cur
<1>7. \A e \in Deposit : eth_txid'[e] = IF e = d THEN L ELSE eth_txid[e]
  BY <1>6
<1> HIDE DEF r
<1>8. {<<e, eth_txid[e]>> : e \in {i \in Deposit : eth_txid[i] # NoTx}}'
        = {<<e, eth_txid[e]>> : e \in {i \in Deposit : eth_txid[i] # NoTx}} \cup {<<d, L>>}
  BY <1>1, <1>6, <1>7
<1> PICK a : a = Attempt(L)
  OBVIOUS
<1>9. PegIn!Settle(a)
  BY <1>1, <1>2, <1>3, <1>4, <1>5, <1>8 DEF PegIn!Settle, Attempt
<1>10. a \in {Attempt(c) : c \in {i \in DOMAIN calls : calls[i].fate = "open"}}
  BY <1>1
<1> QED
  BY <1>9, <1>10, Zenon DEF PegIn!Next

\* The scan reports a deposit: it is filed, or known already.
LEMMA ScanReportsRefines ==
    ASSUME IInv, NEW d \in Deposit, ScanReports(d)
    PROVE  [PegIn!Next]_(PegIn!vars)
<1>1. calls' = calls /\ rows' = rows \cup {d}
  BY DEF ScanReports, insert_safe2eth
<1>2. eth_txid' = eth_txid
  BY DEF ScanReports, insert_safe2eth, update_safe2eth, IInv, TypeOK, StoredTxIsMined
<1>3. CASE d \in rows
  BY <1>1, <1>2, <1>3 DEF PegIn!vars, Attempt
<1>4. CASE d \notin rows
  <2>1. PegIn!File(d)
    BY <1>1, <1>2, <1>4 DEF PegIn!File, Attempt
  <2> QED
    BY <2>1 DEF PegIn!Next
<1> QED
  BY <1>3, <1>4

LEMMA InitRefines == Init => PegIn!Init
  BY DEF Init, PegIn!Init

LEMMA StepRefines == IInv /\ [Next]_vars => [PegIn!Next]_(PegIn!vars)
<1> SUFFICES ASSUME IInv, [Next]_vars
             PROVE  [PegIn!Next]_(PegIn!vars)
  OBVIOUS
<1>1. ASSUME calls' = calls, UNCHANGED <<rows, eth_txid>>
      PROVE  UNCHANGED PegIn!vars
  BY <1>1 DEF PegIn!vars, Attempt
<1>2. CASE SelectPending \/ SelectFails \/ SkipRow \/ ReceiveReply \/ ThreadEnds
           \/ RoundEnds \/ Restart \/ NodeRestart \/ UNCHANGED vars
  BY <1>1, <1>2 DEF SelectPending, SelectFails, SkipRow, ReceiveReply, ThreadEnds,
     RoundEnds, Restart, NodeRestart, vars
<1>3. CASE SendCall
  BY <1>3, SendCallRefines
<1>4. CASE ReceiveError \/ Timeout \/ StoreFails
  BY <1>4, AbandonRefines DEF ReceiveError, Timeout, StoreFails, Finish, Cur, Waiting
<1>5. CASE StoreReply
  BY <1>5, StoreReplyRefines
<1>6. CASE \E d \in Deposit : ScanReports(d)
  BY <1>6, ScanReportsRefines
<1>7. CASE Crash
  <2>1. CASE Waiting
    BY <1>7, <2>1, AbandonRefines DEF Crash, Cur, Waiting
  <2>2. CASE ~Waiting
    BY <1>1, <1>7, <2>2 DEF Crash, Waiting
  <2> QED
    BY <2>1, <2>2
<1>8. CASE NodeCrash
  <2>1. \A c \in DOMAIN calls : calls[c] \in CallRec
    BY DEF IInv, TypeOK
  <2>2. DOMAIN calls' = DOMAIN calls /\ UNCHANGED <<rows, eth_txid>>
    BY <1>8 DEF NodeCrash
  <2>3. ASSUME NEW c \in DOMAIN calls
        PROVE  calls'[c].dep = calls[c].dep /\ calls'[c].fate = calls[c].fate
               /\ calls'[c].tx = calls[c].tx
    <3>1. \/ calls'[c] = [calls[c] EXCEPT !.handler = "failed"]
          \/ calls'[c] = calls[c]
      BY <1>8 DEF NodeCrash
    <3> QED
      BY <2>1, <3>1 DEF CallRec
  <2> QED
    BY <2>2, <2>3, HiddenStep
<1>9. ASSUME NEW c \in DOMAIN calls, Handler(c)
      PROVE  UNCHANGED PegIn!vars
  BY <1>9, HandlerRefines
<1>10. ASSUME NEW c \in DOMAIN calls, Mine(c) \/ MineReverted(c)
       PROVE  [PegIn!Next]_(PegIn!vars)
  BY <1>10, ChainRefines
<1> QED
  BY <1>2, <1>3, <1>4, <1>5, <1>6, <1>7, <1>8, <1>9, <1>10 DEF Next, Daemon, Gateway, Chain

\* The peg-in relay implements Settlement, so DoubledOnlyInDoubt and
\* SettledOnce hold of deposits and mints.
THEOREM ImplementsPegInThm == Spec => ImplementsPegIn
  BY InitRefines, StepRefines, Invariance, PTL DEF Spec, ImplementsPegIn, PegIn!Spec

=============================================================================
