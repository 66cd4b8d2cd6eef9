------------------------------ MODULE MintRelay ------------------------------
(***************************************************************************)
(* The peg-in half of the bridge, from a row of table safe2eth to a mint   *)
(* on Ethereum:                                                            *)
(*   - the daemon's safe2eth_thread, which selects the rows whose eth_txid *)
(*     is empty, asks the gateway to mint for each and stores the answer   *)
(*     (projects/safe2eth.cpp);                                            *)
(*   - the gateway's safe2eth handler (nodejs/rpc.js, nodejs/safe.js), an  *)
(*     async function that keeps running when its client has gone away;    *)
(*   - the Ethereum transaction it submits, which may be mined long after  *)
(*     everybody stopped waiting for it (external).                        *)
(* The daemon runs the thread and joins it at once, so the daemon itself   *)
(* is sequential: the concurrency is between the daemon, the gateway's     *)
(* handlers and the chain.  An operator named X_Y is X with the mistake Y, *)
(* kept to show that the properties below would notice it.                 *)
(***************************************************************************)
EXTENDS Naturals, Sequences, FiniteSets

CONSTANTS
    Deposit,    \* txids of SAFE deposits, as numbers in the order of std::map
    Amount,     \* Amount[d]: SAFE carried by deposit d
    TxFee,      \* g_txfee
    Faults,     \* the kinds of fault the environment may inject
    MaxFaults   \* bound: how many faults in a behaviour

\* Every place where a call can go wrong.
FaultKinds ==
    {"dbselect", "dbupdate", "timeout", "crash", "unlock", "revert",
     "giveup", "gasprice", "nodecrash"}

\* The faults after which nothing can have been minted by the failed attempt.
HarmlessFaults == {"dbselect", "unlock", "revert"}

ASSUME DepositAssumption == Deposit \subseteq Nat \ {0}
ASSUME AmountAssumption  == Amount \in [Deposit -> Nat] /\ TxFee \in Nat
ASSUME FaultAssumption   == Faults \subseteq FaultKinds /\ MaxFaults \in Nat

VARIABLES
    rows,      \* txids that have a row in table safe2eth (SQLite, persistent)
    eth_txid,  \* column eth_txid; NoTx is the empty string (persistent)
    pc,        \* where the daemon is
    mymap,     \* rows selected by this round and not yet dealt with
    calls,     \* every safe2eth call made to the gateway, oldest first
    nodeUp,    \* the gateway process is running
    faults     \* history: the faults so far, oldest first

vars == <<rows, eth_txid, pc, mymap, calls, nodeUp, faults>>

NoTx == 0

(***************************************************************************)
(* A call is named by its position in calls, and so is the one transaction *)
(* its handler may submit.  fate is a history field: what the daemon made  *)
(* of the call ("open": still waiting for it or holding its answer).       *)
(***************************************************************************)
CallRec ==
    [dep     : Deposit,
     fate    : {"open", "recorded", "abandoned"},
     handler : {"unlock", "receipt", "gasprice", "replied", "failed"},
     tx      : {"none", "pooled", "mined", "reverted"}]

Cur == Len(calls)                            \* the call being waited for
Mined(d) == {c \in DOMAIN calls : calls[c].dep = d /\ calls[c].tx = "mined"}

TypeOK ==
    /\ rows \subseteq Deposit
    /\ eth_txid \in [Deposit -> Nat]
    /\ pc \in {"select", "send", "wait", "update", "scan", "down"}
    /\ mymap \subseteq rows
    /\ calls \in Seq(CallRec)
    /\ nodeUp \in BOOLEAN
    /\ faults \in Seq(FaultKinds) /\ Len(faults) <= MaxFaults

Init ==
    /\ rows = {}
    /\ eth_txid = [d \in Deposit |-> NoTx]
    /\ pc = "select"
    /\ mymap = {}
    /\ calls = <<>>
    /\ nodeUp = TRUE
    /\ faults = <<>>

Fault(kind) ==
    /\ kind \in Faults
    /\ Len(faults) < MaxFaults
    /\ faults' = Append(faults, kind)

Suffered == {faults[i] : i \in DOMAIN faults}

-----------------------------------------------------------------------------
(* The table. *)

select_safe2eth_NoFilter == rows
select_safe2eth_AllTxids == {d \in Deposit : eth_txid[d] = NoTx}
select_safe2eth == {d \in rows : eth_txid[d] = NoTx}

update_safe2eth_Swapped(d, txid) ==
    eth_txid' = IF txid # NoTx THEN eth_txid ELSE [eth_txid EXCEPT ![d] = txid]

\* With an empty eth_txid only the confirmations column is written.
update_safe2eth(d, txid) ==
    eth_txid' = IF txid = NoTx THEN eth_txid ELSE [eth_txid EXCEPT ![d] = txid]

insert_safe2eth_Replace(d) ==
    /\ rows' = rows \cup {d}
    /\ eth_txid' = [eth_txid EXCEPT ![d] = NoTx]

\* A txid already in the table gets its confirmations updated, no new row.
insert_safe2eth(d) ==
    /\ rows' = rows \cup {d}
    /\ IF d \in rows
         THEN update_safe2eth(d, NoTx)
         ELSE eth_txid' = [eth_txid EXCEPT ![d] = NoTx]

-----------------------------------------------------------------------------
(* The daemon: safe2eth_thread, then the part of the round that scans. *)

SelectPending ==
    /\ pc = "select"
    /\ mymap' = select_safe2eth
    /\ pc' = "send"
    /\ UNCHANGED <<rows, eth_txid, calls, nodeUp, faults>>

SelectFails ==
    /\ pc = "select"
    /\ Fault("dbselect")
    /\ pc' = "scan"
    /\ UNCHANGED <<rows, eth_txid, mymap, calls, nodeUp>>

\* The loop takes the rows in the order of their txid.
IsNext(d) == d \in mymap /\ \A e \in mymap : d <= e

SkipRow_EndsThread ==
    /\ pc = "send"
    /\ \E d \in mymap :
         /\ IsNext(d)
         /\ Amount[d] <= TxFee \/ ~nodeUp
         /\ mymap' = {}
    /\ UNCHANGED <<rows, eth_txid, pc, calls, nodeUp, faults>>

\* amount - g_txfee <= 0, or connection refused: on to the next row.
SkipRow ==
    /\ pc = "send"
    /\ \E d \in mymap :
         /\ IsNext(d)
         /\ Amount[d] <= TxFee \/ ~nodeUp
         /\ mymap' = mymap \ {d}
    /\ UNCHANGED <<rows, eth_txid, pc, calls, nodeUp, faults>>

\* send_safe2eth opens a connection of its own for every call.
SendCall ==
    /\ pc = "send" /\ nodeUp
    /\ \E d \in mymap :
         /\ IsNext(d)
         /\ Amount[d] > TxFee
         /\ calls' = Append(calls, [dep |-> d, fate |-> "open",
                                    handler |-> "unlock", tx |-> "none"])
    /\ pc' = "wait"
    /\ UNCHANGED <<rows, eth_txid, mymap, nodeUp, faults>>

ReceiveReply ==
    /\ pc = "wait"
    /\ calls[Cur].handler = "replied"
    /\ pc' = "update"
    /\ UNCHANGED <<rows, eth_txid, mymap, calls, nodeUp, faults>>

\* The daemon is done with the current call and its row.
Finish(fate) ==
    /\ calls' = [calls EXCEPT ![Cur].fate = fate]
    /\ mymap' = mymap \ {calls[Cur].dep}
    /\ pc' = "send"

\* An error answer, an empty result or a broken connection: return false.
ReceiveError ==
    /\ pc = "wait"
    /\ calls[Cur].handler = "failed"
    /\ Finish("abandoned")
    /\ UNCHANGED <<rows, eth_txid, nodeUp, faults>>

\* g_noderpc_timeout expires; whatever the handler does next is not heard.
Timeout ==
    /\ pc = "wait"
    /\ Fault("timeout")
    /\ Finish("abandoned")
    /\ UNCHANGED <<rows, eth_txid, nodeUp>>

StoreReply ==
    /\ pc = "update"
    /\ update_safe2eth(calls[Cur].dep, Cur)
    /\ Finish("recorded")
    /\ UNCHANGED <<rows, nodeUp, faults>>

\* db.exec fails: the thread prints a line and goes on to the next row.
StoreFails ==
    /\ pc = "update"
    /\ Fault("dbupdate")
    /\ Finish("abandoned")
    /\ UNCHANGED <<rows, eth_txid, nodeUp>>

ThreadEnds ==
    /\ pc = "send" /\ mymap = {}
    /\ pc' = "scan"
    /\ UNCHANGED <<rows, eth_txid, mymap, calls, nodeUp, faults>>

\* The scan reports deposit d, for the first time or again (blocks overlap).
ScanReports(d) ==
    /\ pc = "scan"
    /\ insert_safe2eth(d)
    /\ UNCHANGED <<pc, mymap, calls, nodeUp, faults>>

\* checkfinance ends the round, and the process with it while a table is
\* empty: insert_callback hands the NULL of its SUM to atoi.
RoundEnds ==
    /\ pc = "scan"
    /\ pc' \in {"select", "down"}
    /\ UNCHANGED <<rows, eth_txid, mymap, calls, nodeUp, faults>>

\* The daemon dies and loses its memory; the table and the handlers remain.
Crash ==
    /\ pc # "down"
    /\ Fault("crash")
    /\ calls' = IF pc \in {"wait", "update"}
                  THEN [calls EXCEPT ![Cur].fate = "abandoned"] ELSE calls
    /\ pc' = "down"
    /\ mymap' = {}
    /\ UNCHANGED <<rows, eth_txid, nodeUp>>

Restart ==
    /\ pc = "down"
    /\ pc' = "select"
    /\ UNCHANGED <<rows, eth_txid, mymap, calls, nodeUp, faults>>

-----------------------------------------------------------------------------
(* The gateway: SAFE.safe2eth, one step per await it resumes from. *)

HandlerStep(c, from, to) ==
    /\ calls[c].handler = from
    /\ calls' = [calls EXCEPT ![c].handler = to]
    /\ UNCHANGED <<rows, eth_txid, pc, mymap, nodeUp>>

\* The owner account is unlocked and the transaction is submitted.
Submit(c) ==
    /\ calls[c].handler = "unlock"
    /\ calls' = [calls EXCEPT ![c].handler = "receipt", ![c].tx = "pooled"]
    /\ UNCHANGED <<rows, eth_txid, pc, mymap, nodeUp, faults>>

\* unlockAccount or eth_sendTransaction is refused: nothing was submitted.
UnlockFails(c) == HandlerStep(c, "unlock", "failed") /\ Fault("unlock")

GetReceipt_AtHash(c) ==
    /\ calls[c].tx \in {"pooled", "mined"}
    /\ HandlerStep(c, "receipt", "gasprice")
    /\ UNCHANGED faults

\* send() resolves with the receipt ...
GetReceipt(c) ==
    /\ calls[c].tx = "mined"
    /\ HandlerStep(c, "receipt", "gasprice")
    /\ UNCHANGED faults

\* ... and rejects when the receipt says the transaction was reverted,
GetRevert(c) ==
    /\ calls[c].tx = "reverted"
    /\ HandlerStep(c, "receipt", "failed")
    /\ UNCHANGED faults

\* or when web3 stops polling, whatever becomes of the transaction.
GivesUp(c) == HandlerStep(c, "receipt", "failed") /\ Fault("giveup")

\* ethtxfee() asks for the gas price before the array is returned;
Reply(c) == HandlerStep(c, "gasprice", "replied") /\ UNCHANGED faults

\* its failure lands in the same catch, which returns nothing.
GasPriceFails(c) == HandlerStep(c, "gasprice", "failed") /\ Fault("gasprice")

\* The process dies with all its handlers; clients see a broken connection.
NodeCrash ==
    /\ nodeUp
    /\ Fault("nodecrash")
    /\ nodeUp' = FALSE
    /\ calls' = [c \in DOMAIN calls |->
                   IF calls[c].handler \in {"unlock", "receipt", "gasprice"}
                     THEN [calls[c] EXCEPT !.handler = "failed"] ELSE calls[c]]
    /\ UNCHANGED <<rows, eth_txid, pc, mymap>>

NodeRestart ==
    /\ ~nodeUp
    /\ nodeUp' = TRUE
    /\ UNCHANGED <<rows, eth_txid, pc, mymap, calls, faults>>

-----------------------------------------------------------------------------
(* Ethereum (external): a pooled transaction is mined, or mined reverted. *)

TxStep(c, to) ==
    /\ calls[c].tx = "pooled"
    /\ calls' = [calls EXCEPT ![c].tx = to]
    /\ UNCHANGED <<rows, eth_txid, pc, mymap, nodeUp>>

Mine(c) == TxStep(c, "mined") /\ UNCHANGED faults
MineReverted(c) == TxStep(c, "reverted") /\ Fault("revert")

-----------------------------------------------------------------------------
Daemon ==
    \/ SelectPending \/ SelectFails \/ SkipRow \/ SendCall
    \/ ReceiveReply \/ ReceiveError \/ Timeout
    \/ StoreReply \/ StoreFails \/ ThreadEnds
    \/ (\E d \in Deposit : ScanReports(d))
    \/ RoundEnds \/ Crash \/ Restart

Handler(c) ==
    \/ Submit(c) \/ UnlockFails(c) \/ GetReceipt(c) \/ GetRevert(c)
    \/ GivesUp(c) \/ Reply(c) \/ GasPriceFails(c)

Gateway == NodeCrash \/ NodeRestart \/ (\E c \in DOMAIN calls : Handler(c))

Chain == \E c \in DOMAIN calls : Mine(c) \/ MineReverted(c)

Next == Daemon \/ Gateway \/ Chain

Spec == Init /\ [][Next]_vars

(***************************************************************************)
(* Fairness: the daemon's loop and the gateway's event loop run, pooled    *)
(* transactions get mined, and whoever operates the bridge restarts a      *)
(* process that died.  Nothing obliges a fault or a deposit to happen.     *)
(***************************************************************************)
MaxCall == Cardinality(Deposit) + MaxFaults

DaemonProgress ==
    \/ SelectPending \/ SkipRow \/ SendCall \/ ReceiveReply \/ ReceiveError
    \/ StoreReply \/ ThreadEnds \/ RoundEnds \/ Restart

CallProgress(c) ==
    /\ c \in DOMAIN calls
    /\ \/ Submit(c) \/ GetReceipt(c) \/ GetRevert(c) \/ Reply(c)

ChainProgress(c) == c \in DOMAIN calls /\ Mine(c)

Fairness ==
    /\ WF_vars(DaemonProgress)
    /\ WF_vars(NodeRestart)
    /\ \A c \in 1..MaxCall : WF_vars(CallProgress(c)) /\ WF_vars(ChainProgress(c))

FairSpec == Spec /\ Fairness

-----------------------------------------------------------------------------
(* Properties. *)

\* A row that names an Ethereum transaction names one that was mined, and
\* mined for this very deposit: the answer stored by safe2eth_thread belongs
\* to the row it is stored in, and is sent only once a receipt exists.
NoPhantomPayment ==
    \A d \in rows : eth_txid[d] # NoTx => eth_txid[d] \in Mined(d)

\* Two mints for one deposit need a call the daemon gave up on without
\* learning its outcome: of the mints whose outcome it did not lose there is
\* never more than one, however the handlers and the chain interleave.
OneAccountedMint ==
    \A d \in Deposit :
      \A b, c \in Mined(d) :
        b # c => calls[b].fate = "abandoned" \/ calls[c].fate = "abandoned"

\* As long as the only faults were ones that strike before a transaction can
\* take effect, a deposit is minted at most once, retries included.
HarmlessFaultsMintOnce ==
    Suffered \subseteq HarmlessFaults =>
      \A d \in Deposit : \A b, c \in Mined(d) : b = c

\* Once a row is paid no later round clears or overwrites its eth_txid, and
\* no call for it is ever made again: a rescan that reports the deposit again
\* or a restart must not put it back into the selection.
PaidIsFinal ==
    [][\A d \in rows : eth_txid[d] # NoTx =>
         /\ d \in rows'
         /\ eth_txid'[d] = eth_txid[d]
         /\ Len(calls') > Len(calls) => calls'[Len(calls')].dep # d]_vars

\* Every recorded deposit worth more than the fee is paid in the end: a
\* failing row never blocks the ones after it, and retries continue.
EveryDepositPaid ==
    \A d \in Deposit :
      (d \in rows /\ Amount[d] > TxFee) ~> (eth_txid[d] # NoTx)

(***************************************************************************)
(* The mapping to Settlement: a row is a claim, a call an attempt, a mint  *)
(* its effect, and a non-empty eth_txid its settlement.                    *)
(***************************************************************************)
Attempt(c) == <<calls[c].dep, c>>

PegIn == INSTANCE Settlement WITH
    Claim     <- Deposit,
    filed     <- rows,
    open      <- {Attempt(c) : c \in {i \in DOMAIN calls : calls[i].fate = "open"}},
    doubtful  <- {Attempt(c) : c \in {i \in DOMAIN calls : calls[i].fate = "abandoned"}},
    effective <- {Attempt(c) : c \in {i \in DOMAIN calls : calls[i].tx = "mined"}},
    settled   <- {<<d, eth_txid[d]>> : d \in {e \in Deposit : eth_txid[e] # NoTx}}

\* The relay, whatever its handlers, the chain and the faults do, takes no
\* step that Settlement does not allow: one attempt at a time, none for a
\* settled claim, no settlement without a mint, no settlement undone.
ImplementsPegIn == PegIn!Spec

\* What the comments at safe2eth.cpp:315-317 and :722 say of the column: an
\* empty eth_txid marks a deposit whose SAFE@ETH has not been sent yet.
SelectedRowsNeedMint ==
    pc = "send" => \A d \in mymap : Mined(d) = {}
=============================================================================
