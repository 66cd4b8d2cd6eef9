-------------------------------- MODULE Bridge --------------------------------
(***************************************************************************)
(* The whole bridge, with amounts: the two relays, each as an instance of  *)
(* Settlement (which MintRelay and BurnRelay implement), the contract as   *)
(* an instance of SAFEToken, the SAFE in the daemon's wallet, and          *)
(* checkfinance, which compares them.  Amounts are in the smallest unit of *)
(* the SAFE chain; both tables keep them with six decimals, Grain such     *)
(* units ("%f" in the INSERTs).  Of the contract's transactions that spend *)
(* an allowance none is taken here: they move the totals as Transfer,      *)
(* Burn and eth2safe do.  An operator named X_Y is X with the mistake Y.   *)
(***************************************************************************)
EXTENDS Integers, Sequences, FiniteSetsExt

CONSTANTS
    Deposit,     \* deposits that may be made
    Amount,      \* Amount[d], in units
    EthAddress,  \* EthAddress[d]: the account its depositor names
    TxFee,       \* g_txfee
    NetFee,      \* what the SAFE chain takes for a payment
    Junk,        \* what an uninitialised tx.fee may hold
    Grain,       \* 10^-6 SAFE, in units
    Size,        \* the amounts users move or burn
    MaxBurns, MaxDoubt,
    Account, Zero, Deployer, Cap, MaxUint

ASSUME DepositAssumption == Amount \in [Deposit -> 1..MaxUint] /\ EthAddress \in [Deposit -> Account]
ASSUME FeeAssumption == TxFee \in 0..MaxUint /\ NetFee \in Nat /\ Junk \subseteq Int
ASSUME SizeAssumption == Size \subseteq 1..MaxUint
ASSUME GrainAssumption == Grain \in Nat \ {0}
ASSUME AccountAssumption ==
    IsFiniteSet(Account) /\ Zero \notin Account /\ Deployer \in Account
ASSUME WordAssumption == Cap \in Nat \ {0} /\ MaxUint \in Nat /\ Cap <= MaxUint
ASSUME BoundAssumption == MaxBurns \in Nat /\ MaxDoubt \in Nat

VARIABLES
    balances, allowances, totalSupply, burnedAmount, owner,
    sender, minted, announced,                  \* the contract, see SAFEToken
    depositRows, mintOpen, mintDoubtful, mintEffective, mintSettled,
    burnRows, payOpen, payDoubtful, payEffective, paySettled,
    deposited,   \* deposits made on the SAFE chain
    burns,       \* the amounts of the Eth2Safe_Events, oldest first
    reserve,     \* the balance of the daemon's wallet
    fee,         \* column fee of table eth2safe
    feeLost,     \* history: rows whose gettransaction failed
    up,          \* the daemon runs
    report,      \* checkfinance: its position and what it has read
    books        \* history: running totals, see Totals

token == <<balances, allowances, totalSupply, burnedAmount, owner, sender, minted, announced>>
mints == <<depositRows, mintOpen, mintDoubtful, mintEffective, mintSettled>>
pays  == <<burnRows, payOpen, payDoubtful, payEffective, paySettled>>
vars  == <<token, mints, pays, deposited, burns, reserve, fee, feeLost, up, report, books>>

Token == INSTANCE SAFEToken
In == INSTANCE Settlement WITH
    Claim <- Deposit, filed <- depositRows, open <- mintOpen, doubtful <- mintDoubtful,
    effective <- mintEffective, settled <- mintSettled
Out == INSTANCE Settlement WITH
    Claim <- 1..MaxBurns, filed <- burnRows, open <- payOpen, doubtful <- payDoubtful,
    effective <- payEffective, settled <- paySettled

Stored_Truncated(n) == (n \div Grain) * Grain

\* The amount a table gives back, a half rounded up.
Stored(n) == ((n + Grain \div 2) \div Grain) * Grain

\* What the table gives back of a payment's fee: gettransaction reports the
\* fee of a sending as a negative amount, like any wallet descended from
\* Bitcoin's, its sign is copied, and "%f" rounds it like an amount.
StoredFee == -Stored(NetFee)

\* What the history in books adds up.
Totals ==
    {"unminted",  \* deposits for which nothing was minted yet
     "unpaid",    \* announced burns for which nothing was paid yet
     "silent",    \* burned without an event
     "doubled",   \* minted or paid for a claim once more
     "fees",      \* network fees of the payments
     "drift",     \* minted or paid too much for the rounding
     "rounded"}   \* claims that drift stems from

NoReport == [step |-> "off", contract |-> 0, safe |-> 0]

Init ==
    /\ Token!Init /\ In!Init /\ Out!Init
    /\ deposited = {}
    /\ burns = <<>>
    /\ reserve = 0
    /\ fee = [k \in 1..MaxBurns |-> 0]
    /\ feeLost = {}
    /\ up = TRUE
    /\ report = NoReport
    /\ books = [t \in Totals |-> 0]

-----------------------------------------------------------------------------
(* The daemon runs one phase at a time and has one call open at most. *)

Idle_Unjoined == up /\ mintOpen = {} /\ payOpen = {}
Idle == up /\ report.step = "off" /\ mintOpen = {} /\ payOpen = {}
Tries(all, k) == {a \in all : a[1] = k}
NextTry(past, k) == <<k, Cardinality(Tries(past, k)) + 1>>
InDoubt == Cardinality(mintDoubtful) + Cardinality(payDoubtful)

(* Users of the two chains. *)

\* SAFE arrives at the bridge's address.
Arrive(d) ==
    /\ d \notin deposited
    /\ deposited' = deposited \cup {d}
    /\ reserve' = reserve + Amount[d]
    /\ books' = [books EXCEPT !["unminted"] = @ + Amount[d]]
    /\ UNCHANGED <<token, mints, pays, burns, fee, feeLost, up, report>>

Move(by, to, n) ==
    /\ Token!Transfer(by, to, n) /\ sender' = by
    /\ UNCHANGED <<mints, pays, deposited, burns, reserve, fee, feeLost, up, report, books>>

\* Tokens burned with an event, which asks for SAFE ...
Redeem(by, n) ==
    /\ Len(burns) < MaxBurns
    /\ Token!eth2safe(by, n) /\ sender' = by
    /\ burns' = Append(burns, n)
    /\ books' = [books EXCEPT !["unpaid"] = @ + n]
    /\ UNCHANGED <<mints, pays, deposited, reserve, fee, feeLost, up, report>>

\* ... and without one.
Destroy(by, n) ==
    /\ Token!Burn(by, n) /\ sender' = by
    /\ books' = [books EXCEPT !["silent"] = @ + n]
    /\ UNCHANGED <<mints, pays, deposited, burns, reserve, fee, feeLost, up, report>>

-----------------------------------------------------------------------------
(* Peg-in. *)

RecordDeposit(d) ==
    /\ Idle /\ d \in deposited
    /\ In!File(d)
    /\ UNCHANGED <<token, pays, deposited, burns, reserve, fee, feeLost, up, report, books>>

SendMint(d) ==
    /\ Idle
    /\ Stored(Amount[d]) > TxFee
    /\ InDoubt < MaxDoubt
    /\ In!Start(NextTry(mintDoubtful \cup mintEffective, d))
    /\ UNCHANGED <<token, pays, deposited, burns, reserve, fee, feeLost, up, report, books>>

\* What a claim of value n, recorded as Stored(n), leaves in the books when
\* money moves for it: for the first time, or once more.
Booked(b, first, account, n) ==
    IF first THEN [b EXCEPT ![account] = @ - n, !["drift"] = @ + Stored(n) - n, !["rounded"] = @ + 1]
             ELSE [b EXCEPT !["doubled"] = @ + Stored(n)]

Mint_NetAmount(a) ==
    LET d == a[1] IN
    /\ In!TakeEffect(a)
    /\ Token!safe2eth(owner, EthAddress[d], Stored(Amount[d]) - TxFee, TxFee) /\ sender' = owner
    /\ books' = Booked(books, Tries(mintEffective, d) = {}, "unminted", Amount[d])
    /\ UNCHANGED <<pays, deposited, burns, reserve, fee, feeLost, up, report>>

\* The gateway sends the recorded amount and the fee; the contract mints.
Mint(a) ==
    LET d == a[1] IN
    /\ In!TakeEffect(a)
    /\ Token!safe2eth(owner, EthAddress[d], Stored(Amount[d]), TxFee) /\ sender' = owner
    /\ books' = Booked(books, Tries(mintEffective, d) = {}, "unminted", Amount[d])
    /\ UNCHANGED <<pays, deposited, burns, reserve, fee, feeLost, up, report>>

LoseMint(a) ==
    /\ In!LoseTrack(a)
    /\ UNCHANGED <<token, pays, deposited, burns, reserve, fee, feeLost, up, report, books>>

StoreMint_NotWritten(a) ==
    /\ a \in mintOpen \cap mintEffective
    /\ mintOpen' = {}
    /\ UNCHANGED <<depositRows, mintDoubtful, mintEffective, mintSettled>>
    /\ UNCHANGED <<token, pays, deposited, burns, reserve, fee, feeLost, up, report, books>>

StoreMint(a) ==
    /\ In!Settle(a)
    /\ UNCHANGED <<token, pays, deposited, burns, reserve, fee, feeLost, up, report, books>>

-----------------------------------------------------------------------------
(* Peg-out. *)

RecordBurn(k) ==
    /\ Idle /\ k <= Len(burns)
    /\ Out!File(k)
    /\ UNCHANGED <<token, mints, deposited, burns, reserve, fee, feeLost, up, report, books>>

SendPayout(k) ==
    /\ Idle
    /\ InDoubt < MaxDoubt
    /\ Out!Start(NextTry(payDoubtful \cup payEffective, k))
    /\ UNCHANGED <<token, mints, deposited, burns, reserve, fee, feeLost, up, report, books>>

\* The wallet refuses what it cannot cover, its own fee included, and zero.
Pay(a) ==
    LET n == burns[a[1]] IN
    /\ Out!TakeEffect(a)
    /\ 0 < Stored(n) /\ Stored(n) + NetFee <= reserve
    /\ reserve' = reserve - Stored(n) - NetFee
    /\ books' = [Booked(books, Tries(payEffective, a[1]) = {}, "unpaid", n) EXCEPT !["fees"] = @ + NetFee]
    /\ UNCHANGED <<token, mints, deposited, burns, fee, feeLost, up, report>>

LosePayout(a) ==
    /\ Out!LoseTrack(a)
    /\ UNCHANGED <<token, mints, deposited, burns, reserve, fee, feeLost, up, report, books>>

StorePayout_NotWritten(a) ==
    /\ a \in payOpen \cap payEffective
    /\ payOpen' = {}
    /\ fee' = [fee EXCEPT ![a[1]] = StoredFee]
    /\ UNCHANGED <<burnRows, payDoubtful, payEffective, paySettled>>
    /\ UNCHANGED <<token, mints, deposited, burns, reserve, feeLost, up, report, books>>

\* gettransaction tells the fee; when it fails tx.fee is not initialised.
StorePayout(a) ==
    /\ Out!Settle(a)
    /\ \/ fee' = [fee EXCEPT ![a[1]] = StoredFee] /\ UNCHANGED feeLost
       \/ /\ \E junk \in Junk : fee' = [fee EXCEPT ![a[1]] = junk]
          /\ feeLost' = feeLost \cup {a[1]}
    /\ UNCHANGED <<token, mints, deposited, burns, reserve, up, report, books>>

-----------------------------------------------------------------------------
(* checkfinance: the supply, the wallet's balance, then three sums. *)

CheckFinance_Concurrent ==
    /\ up
    /\ report' = [NoReport EXCEPT !.step = "wallet", !.contract = totalSupply]
    /\ UNCHANGED <<token, mints, pays, deposited, burns, reserve, fee, feeLost, up, books>>

CheckFinance ==
    /\ Idle
    /\ report' = [NoReport EXCEPT !.step = "wallet", !.contract = totalSupply]
    /\ UNCHANGED <<token, mints, pays, deposited, burns, reserve, fee, feeLost, up, books>>

\* getbalance on the whole wallet; when it fails its value is false.
ReadWallet ==
    /\ report.step = "wallet"
    /\ \E balance \in {reserve, 0} : report' = [report EXCEPT !.step = "sums", !.safe = balance]
    /\ UNCHANGED <<token, mints, pays, deposited, burns, reserve, fee, feeLost, up, books>>

FinanceFails ==
    /\ report.step \in {"wallet", "sums"}
    /\ report' = NoReport
    /\ UNCHANGED <<token, mints, pays, deposited, burns, reserve, fee, feeLost, up, books>>

\* What a sum leaves in the double that insert_callback is given: the integer
\* it stores there is the low half of a double that is zero, so the double
\* stays zero up to one part in 10^300.
SumCallback(sum) == 0

\* The sum over an empty table is NULL, which insert_callback passes to atoi.
NullSum == depositRows = {} \/ burnRows = {}

SumTables ==
    /\ report.step = "sums"
    /\ IF NullSum THEN up' = FALSE /\ report' = NoReport
                  ELSE report' = [report EXCEPT !.step = "printed"] /\ UNCHANGED up
    /\ UNCHANGED <<token, mints, pays, deposited, burns, reserve, fee, feeLost, books>>

RoundEnds ==
    /\ report.step = "printed"
    /\ report' = NoReport
    /\ UNCHANGED <<token, mints, pays, deposited, burns, reserve, fee, feeLost, up, books>>

Restart ==
    /\ ~up
    /\ up' = TRUE
    /\ UNCHANGED <<token, mints, pays, deposited, burns, reserve, fee, feeLost, report, books>>

Users ==
    \/ \E d \in Deposit : Arrive(d)
    \/ \E by, to \in Account, n \in Size : Move(by, to, n)
    \/ \E by \in Account, n \in Size : Redeem(by, n) \/ Destroy(by, n)

Relays ==
    \/ \E d \in Deposit : RecordDeposit(d) \/ SendMint(d)
    \/ \E a \in mintOpen \cup mintDoubtful : Mint(a)
    \/ \E a \in mintOpen : LoseMint(a) \/ StoreMint(a)
    \/ \E k \in 1..MaxBurns : RecordBurn(k) \/ SendPayout(k)
    \/ \E a \in payOpen \cup payDoubtful : Pay(a)
    \/ \E a \in payOpen : LosePayout(a) \/ StorePayout(a)

Finance == CheckFinance \/ ReadWallet \/ FinanceFails \/ SumTables \/ RoundEnds \/ Restart

Next == Users \/ Relays \/ Finance

Spec == Init /\ [][Next]_vars
-----------------------------------------------------------------------------
(* Properties. *)

TypeOK ==
    /\ Token!TypeOK
    /\ depositRows \subseteq deposited /\ deposited \subseteq Deposit
    /\ burns \in Seq(1..MaxUint) /\ Len(burns) <= MaxBurns
    /\ burnRows \subseteq 1..Len(burns)
    /\ \A a \in mintOpen \cup mintDoubtful \cup mintEffective \cup mintSettled :
         a[1] \in depositRows
    /\ \A a \in payOpen \cup payDoubtful \cup payEffective \cup paySettled :
         a[1] \in burnRows
    /\ reserve \in Nat
    /\ fee \in [1..MaxBurns -> Int] /\ feeLost \subseteq burnRows
    /\ up \in BOOLEAN
    /\ report \in [step : {"off", "wallet", "sums", "printed"}, contract : Nat, safe : Nat]
    /\ report.step # "off" => up /\ mintOpen = {} /\ payOpen = {}
    /\ books \in [Totals -> Int]
    /\ \A t \in Totals \ {"drift"} : books[t] >= 0

HalfGrain == Grain \div 2

\* The books balance in every state, with lost calls, doubled payments,
\* silent burns and rounding on them: no path of the bridge moves SAFE or
\* tokens past them.
Books ==
    reserve + books["fees"] + books["doubled"] + books["drift"]
      = totalSupply + books["unpaid"] + books["silent"] + books["unminted"]

\* Six decimals cost at most half a grain per claim.
DriftBounded ==
    /\ books["drift"] <= HalfGrain * books["rounded"]
    /\ books["drift"] >= -(HalfGrain * books["rounded"])

\* As long as the daemon has lost track of no call, every token, every burn
\* still to be paid and every deposit still to be minted is backed by SAFE,
\* but for network fees, which nobody is charged for, and rounding.
BackedWhileTracked ==
    mintDoubtful = {} /\ payDoubtful = {} =>
      reserve + books["fees"] + HalfGrain * books["rounded"]
        >= totalSupply + books["unpaid"] + books["unminted"]

\* The totals in the books are what the claims say.
Minted(d) == Tries(mintEffective, d) # {}
Paid(k) == Tries(payEffective, k) # {}
Unminted == {d \in deposited : ~Minted(d)}
Unpaid == {k \in DOMAIN burns : ~Paid(k)}
BooksAreSums ==
    /\ books["unminted"] = SumFunctionOnSet(Amount, Unminted)
    /\ books["unpaid"] = SumFunctionOnSet(burns, Unpaid)
    /\ books["silent"] = burnedAmount - announced

(* The sums of checkfinance, as SQL computes them. *)
DepositAmount == [d \in Deposit |-> Stored(Amount[d])]
BurnAmount == [k \in DOMAIN burns |-> Stored(burns[k])]
Income  == SumFunctionOnSet(DepositAmount, depositRows)
Outcome == SumFunctionOnSet(BurnAmount, burnRows)
Fees    == SumFunctionOnSet(fee, burnRows)
Unrecorded == {k \in DOMAIN burns : k \notin burnRows}

\* What a difference between the supply and the tables means: a surplus of
\* tokens comes from a doubled mint, a shortfall from a mint still missing, a
\* burn not yet recorded or a burn without an event.
ContractDiffExplained ==
    LET diff == totalSupply - (Income - Outcome)
        slack == HalfGrain * Cardinality(burnRows) IN
    /\ diff > slack => mintDoubtful # {}
    /\ diff < -slack => \/ \E d \in depositRows : ~Minted(d)
                        \/ Unrecorded # {} \/ books["silent"] > 0

\* What a difference between the wallet and the tables means.  checkfinance
\* subtracts fees that the table holds as negative amounts: a recorded fee has
\* left the wallet and is expected in it on top, and FeesMissing counts both.
\* Where gettransaction did not tell the fee, it has left the wallet and the
\* report subtracts what the row holds in its place.  Apart from that, a
\* surplus is a deposit not yet recorded or a burn not yet paid, and a
\* shortfall a payment whose outcome is not recorded.
Recorded == {k \in burnRows : Tries(paySettled, k) # {}}
FeesMissing ==
    NetFee * (Cardinality(Recorded) + Cardinality(Recorded \ feeLost))
      - SumFunctionOnSet(fee, feeLost)
ShouldLeftSafe == Income - Outcome - Fees
WalletDiffExplained ==
    LET diff == reserve - ShouldLeftSafe + FeesMissing
        slack == HalfGrain * (Cardinality(depositRows) + Cardinality(burnRows)) IN
    /\ diff > slack => depositRows # deposited \/ \E k \in burnRows : ~Paid(k)
    /\ diff < -slack => payOpen # {} \/ payDoubtful # {}

\* The three sums of a report are taken of the same tables, and none while a
\* mint or a payment is under way.
SumsSeeOneTable ==
    [][report.step \in {"wallet", "sums"} =>
         UNCHANGED <<depositRows, mintSettled, burnRows, paySettled, fee>>]_vars

\* The comment at safe2eth.cpp:496 calls checkfinance the reconciliation: when
\* the supply is what the tables say, the difference it prints is zero.
ShouldLeftContract == SumCallback(Income) - SumCallback(Outcome)
BalancedReportsNoDiff ==
    report.step = "printed" /\ report.contract = Income - Outcome =>
      report.contract - ShouldLeftContract = 0
=============================================================================
