------------------------------ MODULE BurnRelay ------------------------------
(***************************************************************************)
(* The peg-out half of the bridge, from a burn on Ethereum to a payment on *)
(* the SAFE chain:                                                         *)
(*   - the gateway's subscription to Eth2Safe_Event, its eth2safe_table    *)
(*     and the eth2safe call that drains it (nodejs/safe.js, rpc.js);      *)
(*   - the daemon's get_eth2safe and insert_eth2safe, and eth2safe_thread, *)
(*     which pays the rows whose txid is empty (projects/safe2eth.cpp);    *)
(*   - the SAFE wallet that executes sendtoaddress (external).             *)
(* eth2safe_table is modelled as the set of its events: their order        *)
(* matters only between burns of one transaction, where any may be last.   *)
(* An operator named X_Y is X with the mistake Y.                          *)
(***************************************************************************)
EXTENDS Naturals, Sequences, FiniteSets

CONSTANTS
    Burn,      \* Eth2Safe_Event logs that may appear on Ethereum
    TxOf,      \* TxOf[b]: the transaction that emits b, in the order of std::map
    NoBurn,    \* no row
    Faults, MaxFaults

FaultKinds ==
    {"dbselect", "dbinsert", "dbupdate", "timeout", "refuse", "lostreply",
     "crash", "nodecrash", "wsdrop", "ethreorg"}

\* Faults that cannot make the daemon pay twice ...
NoDoubtFaults ==
    {"dbselect", "dbinsert", "refuse", "lostreply", "nodecrash", "wsdrop", "ethreorg"}

\* ... and faults that cannot make it forget a burn.
NoLossFaults ==
    {"dbselect", "dbupdate", "timeout", "refuse", "nodecrash", "wsdrop", "ethreorg"}

ASSUME BurnAssumption == TxOf \in [Burn -> Nat \ {0}] /\ NoBurn \notin Burn
ASSUME BurnFaultAssumption == Faults \subseteq FaultKinds /\ MaxFaults \in Nat

EthTx == {TxOf[b] : b \in Burn}
OneBurnPerTx == \A a, b \in Burn : TxOf[a] = TxOf[b] => a = b

VARIABLES
    emitted,      \* burns on Ethereum's chain
    nodeUp,       \* the gateway runs
    subscribed,   \* its web socket still delivers events
    todo,         \* events this gateway process has yet to receive
    eth2safe_table,
    rpc,          \* the daemon's eth2safe request: "none", "asked", "replied"
    reply,        \* the burns in the answer on its way
    orphans,      \* requests whose client has gone before they were served
    pc, mymap, eth2safeMap,
    row,          \* row[t]: the burn recorded under eth_txid t (persistent)
    txid,         \* column txid: the payout stored for t, 0 if empty (persistent)
    payouts,      \* every sendtoaddress request, oldest first
    faults        \* history: the faults so far, oldest first

gateway == <<nodeUp, subscribed, todo, eth2safe_table, rpc, reply, orphans>>
table   == <<row, txid>>
vars == <<emitted, gateway, pc, mymap, eth2safeMap, table, payouts, faults>>

PayoutRec ==
    [tx     : EthTx,
     fate   : {"open", "recorded", "abandoned"},    \* history, as in MintRelay
     wallet : {"asked", "paid", "refused"}]

Cur == Len(payouts)
Paid(t) == {c \in DOMAIN payouts : payouts[c].tx = t /\ payouts[c].wallet = "paid"}

TypeOK ==
    /\ emitted \subseteq Burn
    /\ nodeUp \in BOOLEAN /\ subscribed \in BOOLEAN
    /\ todo \subseteq Burn /\ eth2safe_table \subseteq Burn
    /\ ~nodeUp => todo = {} /\ eth2safe_table = {} /\ rpc # "asked" /\ orphans = 0
    /\ rpc \in {"none", "asked", "replied"} /\ reply \subseteq Burn
    /\ rpc # "none" => pc = "events"
    /\ orphans \in Nat
    /\ pc \in {"select", "send", "wait", "update", "ask", "events", "insert", "down"}
    /\ mymap \subseteq {t \in EthTx : row[t] # NoBurn}
    /\ eth2safeMap \subseteq Burn
    /\ row \in [EthTx -> Burn \cup {NoBurn}]
    /\ txid \in [EthTx -> Nat]
    /\ payouts \in Seq(PayoutRec)
    /\ faults \in Seq(FaultKinds) /\ Len(faults) <= MaxFaults

Init ==
    /\ emitted = {}
    /\ nodeUp = TRUE /\ subscribed = TRUE
    /\ todo = {} /\ eth2safe_table = {}
    /\ rpc = "none" /\ reply = {} /\ orphans = 0
    /\ pc = "select" /\ mymap = {} /\ eth2safeMap = {}
    /\ row = [t \in EthTx |-> NoBurn]
    /\ txid = [t \in EthTx |-> 0]
    /\ payouts = <<>>
    /\ faults = <<>>

Fault(kind) ==
    /\ kind \in Faults
    /\ Len(faults) < MaxFaults
    /\ faults' = Append(faults, kind)

Suffered == {faults[i] : i \in DOMAIN faults}

-----------------------------------------------------------------------------
(* Ethereum and the gateway's subscription. *)

Emit(b) ==
    /\ b \notin emitted
    /\ emitted' = emitted \cup {b}
    /\ todo' = IF nodeUp /\ subscribed THEN todo \cup {b} ELSE todo
    /\ UNCHANGED <<nodeUp, subscribed, eth2safe_table, rpc, reply, orphans,
                   pc, mymap, eth2safeMap, table, payouts, faults>>

\* A reorganisation drops the burn.  The 'changed' handler is empty: what the
\* gateway has already received stays where it is.
DropBurn(b) ==
    /\ b \in emitted
    /\ Fault("ethreorg")
    /\ emitted' = emitted \ {b}
    /\ todo' = todo \ {b}
    /\ UNCHANGED <<nodeUp, subscribed, eth2safe_table, rpc, reply, orphans,
                   pc, mymap, eth2safeMap, table, payouts>>

\* .on('data'): push_eth2safe
Deliver(b) ==
    /\ b \in todo
    /\ todo' = todo \ {b}
    /\ eth2safe_table' = eth2safe_table \cup {b}
    /\ UNCHANGED <<emitted, nodeUp, subscribed, rpc, reply, orphans,
                   pc, mymap, eth2safeMap, table, payouts, faults>>

\* The web socket breaks: .on('error') only logs, nobody subscribes again.
SocketDrops ==
    /\ nodeUp /\ subscribed
    /\ Fault("wsdrop")
    /\ subscribed' = FALSE
    /\ todo' = {}
    /\ UNCHANGED <<emitted, nodeUp, eth2safe_table, rpc, reply, orphans,
                   pc, mymap, eth2safeMap, table, payouts>>

\* eth2safe_table lives in the memory of the gateway.
NodeCrash ==
    /\ nodeUp
    /\ Fault("nodecrash")
    /\ nodeUp' = FALSE
    /\ todo' = {} /\ eth2safe_table' = {} /\ orphans' = 0
    /\ rpc' = IF rpc = "asked" THEN "none" ELSE rpc
    /\ UNCHANGED <<emitted, subscribed, reply, pc, mymap, eth2safeMap, table, payouts>>

\* A new process subscribes from block 0: every burn is delivered again.
NodeRestart ==
    /\ ~nodeUp
    /\ nodeUp' = TRUE /\ subscribed' = TRUE
    /\ todo' = emitted
    /\ UNCHANGED <<emitted, eth2safe_table, rpc, reply, orphans,
                   pc, mymap, eth2safeMap, table, payouts, faults>>

Drain_EmptiesFirst ==
    /\ rpc = "asked"
    /\ rpc' = "replied"
    /\ eth2safe_table' = {}
    /\ reply' = eth2safe_table'
    /\ UNCHANGED <<emitted, nodeUp, subscribed, todo, orphans,
                   pc, mymap, eth2safeMap, table, payouts, faults>>

\* The handler of eth2safe copies and empties the table in one go.
Drain ==
    /\ rpc = "asked"
    /\ rpc' = "replied"
    /\ reply' = eth2safe_table
    /\ eth2safe_table' = {}
    /\ UNCHANGED <<emitted, nodeUp, subscribed, todo, orphans,
                   pc, mymap, eth2safeMap, table, payouts, faults>>

\* So does the handler of a request nobody waits for.
DrainForNobody ==
    /\ orphans > 0
    /\ orphans' = orphans - 1
    /\ eth2safe_table' = {}
    /\ UNCHANGED <<emitted, nodeUp, subscribed, todo, rpc, reply,
                   pc, mymap, eth2safeMap, table, payouts, faults>>

-----------------------------------------------------------------------------
(* The daemon: get_eth2safe and insert_eth2safe, after the scan. *)

Ask ==
    /\ pc = "ask"
    /\ IF nodeUp THEN pc' = "events" /\ rpc' = "asked"
                 ELSE pc' = "select" /\ rpc' = rpc
    /\ UNCHANGED <<emitted, nodeUp, subscribed, todo, eth2safe_table, reply, orphans,
                   mymap, eth2safeMap, table, payouts, faults>>

\* mymap[eth_txid] = safe: one entry per transaction, the last one read.
OnePerTx(B, M) ==
    /\ M \subseteq B
    /\ \A b \in B : \E m \in M : TxOf[m] = TxOf[b]
    /\ \A m, n \in M : TxOf[m] = TxOf[n] => m = n

ReceiveEvents ==
    /\ pc = "events" /\ rpc = "replied"
    /\ rpc' = "none"
    /\ \E M \in SUBSET reply : OnePerTx(reply, M) /\ eth2safeMap' = M
    /\ reply' = {}
    /\ pc' = "insert"
    /\ UNCHANGED <<emitted, nodeUp, subscribed, todo, eth2safe_table, orphans,
                   mymap, table, payouts, faults>>

\* The connection broke: get_eth2safe returns false and the round is over.
AskFails ==
    /\ pc = "events" /\ rpc = "none"
    /\ pc' = "select"
    /\ UNCHANGED <<emitted, gateway, mymap, eth2safeMap, table, payouts, faults>>

\* The request or its answer is given up: whatever it drained, or will
\* drain, reaches nobody.
HangUp ==
    /\ rpc' = "none"
    /\ reply' = {}
    /\ orphans' = IF rpc = "asked" THEN orphans + 1 ELSE orphans
    /\ UNCHANGED <<nodeUp, subscribed, todo, eth2safe_table>>

LoseReply ==
    /\ pc = "events"
    /\ Fault("lostreply")
    /\ HangUp
    /\ pc' = "select"
    /\ UNCHANGED <<emitted, mymap, eth2safeMap, table, payouts>>

insert_eth2safe_Replace(b) ==
    /\ row' = [row EXCEPT ![TxOf[b]] = b]
    /\ txid' = [txid EXCEPT ![TxOf[b]] = 0]

\* For an eth_txid already in the table update_eth2safe is called with an
\* empty txid, which it refuses: the row stays as it is.
insert_eth2safe(b) ==
    LET t == TxOf[b]
    IN  IF row[t] # NoBurn
          THEN UNCHANGED table
          ELSE /\ row' = [row EXCEPT ![t] = b]
               /\ txid' = [txid EXCEPT ![t] = 0]

InsertRow ==
    /\ pc = "insert"
    /\ \E b \in eth2safeMap :
         /\ insert_eth2safe(b)
         /\ eth2safeMap' = eth2safeMap \ {b}
    /\ UNCHANGED <<emitted, gateway, pc, mymap, payouts, faults>>

InsertFails ==
    /\ pc = "insert"
    /\ Fault("dbinsert")
    /\ \E b \in eth2safeMap : eth2safeMap' = eth2safeMap \ {b}
    /\ UNCHANGED <<emitted, gateway, pc, mymap, table, payouts>>

\* checkfinance ends the round, and the process with it while a table is
\* empty: insert_callback hands the NULL of its SUM to atoi.
RoundEnds ==
    /\ pc = "insert" /\ eth2safeMap = {}
    /\ pc' \in {"select", "down"}
    /\ UNCHANGED <<emitted, gateway, mymap, eth2safeMap, table, payouts, faults>>

-----------------------------------------------------------------------------
(* The daemon: eth2safe_thread. *)

select_eth2safe_AllTxids == {t \in EthTx : txid[t] = 0}
select_eth2safe_AllRows == {t \in EthTx : row[t] # NoBurn}
select_eth2safe == {t \in EthTx : row[t] # NoBurn /\ txid[t] = 0}

SelectPending ==
    /\ pc = "select"
    /\ mymap' = select_eth2safe
    /\ pc' = "send"
    /\ UNCHANGED <<emitted, gateway, eth2safeMap, table, payouts, faults>>

SelectFails ==
    /\ pc = "select"
    /\ Fault("dbselect")
    /\ pc' = "ask"
    /\ UNCHANGED <<emitted, gateway, mymap, eth2safeMap, table, payouts>>

\* send_eth2safe: sendtoaddress(safe_address, amount), in the order of eth_txid.
SendPayout ==
    /\ pc = "send"
    /\ \E t \in mymap :
         /\ \A u \in mymap : t <= u
         /\ payouts' = Append(payouts, [tx |-> t, fate |-> "open", wallet |-> "asked"])
    /\ pc' = "wait"
    /\ UNCHANGED <<emitted, gateway, mymap, eth2safeMap, table, faults>>

\* The wallet's answer is the txid; a gettransaction that then fails only
\* leaves the fee column with whatever was in memory.
ReceiveTxid ==
    /\ pc = "wait"
    /\ payouts[Cur].wallet = "paid"
    /\ pc' = "update"
    /\ UNCHANGED <<emitted, gateway, mymap, eth2safeMap, table, payouts, faults>>

Finish(fate) ==
    /\ payouts' = [payouts EXCEPT ![Cur].fate = fate]
    /\ mymap' = mymap \ {payouts[Cur].tx}
    /\ pc' = "send"

ReceiveError ==
    /\ pc = "wait"
    /\ payouts[Cur].wallet = "refused"
    /\ Finish("abandoned")
    /\ UNCHANGED <<emitted, gateway, eth2safeMap, table, faults>>

\* The HTTP client gives up; the wallet may pay later or have paid.
Timeout ==
    /\ pc = "wait"
    /\ Fault("timeout")
    /\ Finish("abandoned")
    /\ UNCHANGED <<emitted, gateway, eth2safeMap, table>>

update_eth2safe(t, n) == row' = row /\ txid' = [txid EXCEPT ![t] = n]

StoreTxid ==
    /\ pc = "update"
    /\ update_eth2safe(payouts[Cur].tx, Cur)
    /\ Finish("recorded")
    /\ UNCHANGED <<emitted, gateway, eth2safeMap, faults>>

StoreFails ==
    /\ pc = "update"
    /\ Fault("dbupdate")
    /\ Finish("abandoned")
    /\ UNCHANGED <<emitted, gateway, eth2safeMap, table>>

ThreadEnds ==
    /\ pc = "send" /\ mymap = {}
    /\ pc' = "ask"
    /\ UNCHANGED <<emitted, gateway, mymap, eth2safeMap, table, payouts, faults>>

Crash ==
    /\ pc # "down"
    /\ Fault("crash")
    /\ HangUp
    /\ payouts' = IF pc \in {"wait", "update"}
                    THEN [payouts EXCEPT ![Cur].fate = "abandoned"] ELSE payouts
    /\ pc' = "down"
    /\ mymap' = {} /\ eth2safeMap' = {}
    /\ UNCHANGED <<emitted, table>>

Restart ==
    /\ pc = "down"
    /\ pc' = "select"
    /\ UNCHANGED <<emitted, gateway, mymap, eth2safeMap, table, payouts, faults>>

-----------------------------------------------------------------------------
(* The SAFE wallet (external). *)

WalletStep(c, to) ==
    /\ payouts[c].wallet = "asked"
    /\ payouts' = [payouts EXCEPT ![c].wallet = to]
    /\ UNCHANGED <<emitted, gateway, pc, mymap, eth2safeMap, table>>

WalletPays(c) == WalletStep(c, "paid") /\ UNCHANGED faults
WalletRefuses(c) == WalletStep(c, "refused") /\ Fault("refuse")

-----------------------------------------------------------------------------
Gateway ==
    \/ (\E b \in Burn : Deliver(b))
    \/ SocketDrops \/ NodeCrash \/ NodeRestart \/ Drain \/ DrainForNobody

Daemon ==
    \/ Ask \/ ReceiveEvents \/ AskFails \/ LoseReply
    \/ InsertRow \/ InsertFails \/ RoundEnds
    \/ SelectPending \/ SelectFails \/ SendPayout \/ ReceiveTxid \/ ReceiveError
    \/ Timeout \/ StoreTxid \/ StoreFails \/ ThreadEnds \/ Crash \/ Restart

Ethereum == \E b \in Burn : Emit(b) \/ DropBurn(b)

Wallet == \E c \in DOMAIN payouts : WalletPays(c) \/ WalletRefuses(c)

Next == Gateway \/ Daemon \/ Ethereum \/ Wallet

Spec == Init /\ [][Next]_vars

(***************************************************************************)
(* Fairness: the daemon's loop, the gateway's event loop and the wallet    *)
(* run, and dead processes are restarted.                                  *)
(***************************************************************************)
MaxPayout == Cardinality(Burn) + MaxFaults

DaemonProgress ==
    \/ Ask \/ ReceiveEvents \/ AskFails \/ InsertRow \/ RoundEnds
    \/ SelectPending \/ SendPayout \/ ReceiveTxid \/ ReceiveError
    \/ StoreTxid \/ ThreadEnds \/ Restart

Fairness ==
    /\ WF_vars(DaemonProgress)
    /\ WF_vars(Drain) /\ WF_vars(NodeRestart)
    /\ \A b \in Burn : WF_vars(Deliver(b))
    /\ \A c \in 1..MaxPayout : WF_vars(c \in DOMAIN payouts /\ WalletPays(c))

FairSpec == Spec /\ Fairness

-----------------------------------------------------------------------------
(* Properties. *)

\* Of the payments made for one burn transaction at most one belongs to a
\* request whose outcome the daemon did not lose.
OneAccountedPayout ==
    \A t \in EthTx :
      \A b, c \in Paid(t) :
        b # c => payouts[b].fate = "abandoned" \/ payouts[c].fate = "abandoned"

\* Losing answers of the gateway, crashing it, and so having every burn
\* delivered again from block 0, never made the daemon pay a burn twice.
ReplayPaysOnce ==
    Suffered \subseteq NoDoubtFaults =>
      \A t \in EthTx : \A b, c \in Paid(t) : b = c

\* A stored payout is never forgotten or replaced, whatever is replayed.
StoredPayoutIsFinal ==
    [][\A t \in EthTx : txid[t] # 0 => row'[t] = row[t] /\ txid'[t] = txid[t]]_vars

\* Where a burn that is on the chain can be on its way to its row.
Kept(b) ==
    \/ ~nodeUp \/ ~subscribed      \* the next gateway process replays it
    \/ b \in todo \cup eth2safe_table \cup reply \cup eth2safeMap
    \/ row[TxOf[b]] = b

\* A user who burned SAFE@ETH is in line for SAFE (safe.sol:302 promises
\* "burn SAFE@ETH, receieve SAFE@Anwang").
EveryBurnKept == \A b \in emitted : Kept(b)

\* That holds as long as every transaction carries one burn and every answer
\* of the gateway reached the table: also across crashes of the gateway, when
\* its web socket drops, and of burns that a reorganisation moved.
NothingLost == Suffered \subseteq NoLossFaults /\ OneBurnPerTx

BurnKeptWithoutLoss == NothingLost => EveryBurnKept

\* Then every burn that stays on the chain is also paid, and the payment
\* stored, in the end, unless the web socket dropped: nobody subscribes again,
\* nor has to restart the gateway.
EveryBurnPaid ==
    \A b \in Burn :
      (b \in emitted) ~> \/ txid[TxOf[b]] # 0 \/ b \notin emitted
                         \/ ~NothingLost \/ "wsdrop" \in Suffered

(***************************************************************************)
(* The mapping to Settlement: a row of table eth2safe is a claim, a        *)
(* sendtoaddress request an attempt, a payment by the wallet its effect,   *)
(* and a non-empty txid its settlement.                                    *)
(***************************************************************************)
Attempt(c) == <<payouts[c].tx, c>>

PegOut == INSTANCE Settlement WITH
    Claim     <- EthTx,
    filed     <- {t \in EthTx : row[t] # NoBurn},
    open      <- {Attempt(c) : c \in {i \in DOMAIN payouts : payouts[i].fate = "open"}},
    doubtful  <- {Attempt(c) : c \in {i \in DOMAIN payouts : payouts[i].fate = "abandoned"}},
    effective <- {Attempt(c) : c \in {i \in DOMAIN payouts : payouts[i].wallet = "paid"}},
    settled   <- {<<t, txid[t]>> : t \in {u \in EthTx : txid[u] # 0}}

\* The peg-out relay, whatever is lost, replayed or crashes, takes no step
\* that Settlement does not allow.
ImplementsPegOut == PegOut!Spec

=============================================================================
