# A TLA+ model of the SAFE <-> Ethereum bridge

The repository is a bridge between the SAFE chain (Anwang) and an ERC-20 token
on Ethereum.  A user who sends SAFE to the bridge's address, with an Ethereum
address attached to the output, gets SAFE@ETH minted (peg-in).  A user who
burns SAFE@ETH, naming a SAFE address, gets SAFE paid out (peg-out).  This
directory holds TLA+ modules of the bridge, TLC runs that check them on small
instances, and TLAPS proofs for all instances.

## The system

| Part | Code | State | Operations |
|---|---|---|---|
| daemon | `src/projects/safe2eth.cpp` | `g_nBeginIndex` (memory), the maps of a round (memory) | `mainthread`: pay deposits (`safe2eth_thread`), pay burns (`eth2safe_thread`), scan the SAFE chain, ask the gateway for burns, compare the accounts (`checkfinance`); for ever |
| store | `src/projects/mysqlite.{h,cpp}` | tables `safe2eth` and `eth2safe` (SQLite file) | `open` with its two CREATE TABLE, `close`, `exec` of the daemon's INSERT, UPDATE and SELECT |
| gateway | `nodejs/rpc.js`, `nodejs/safe.js` | `eth2safe_table` (memory), its event subscription | JSON-RPC handlers `safe2eth` (mint and wait for the receipt), `eth2safe` (hand out and empty the table), `getbalance`; event listeners |
| contract | `nodejs/safe.sol` | balances, allowances, supply, `_burnedAmount`, owner | ERC-20, `burn`, `burnFrom`, `safe2eth`, `eth2safe`, `eth2safe_from`, ownership |
| configuration | `safe2eth.cpp` (`usage`, `loadconfig`, `saveconfig`) | the JSON file, the `g_` globals | read once at the start; written when there is none |
| RPC client | `src/bitcoinapi/*` | none | one method per node command, parameters by position; an error becomes `BitcoinException` |
| masternode statistics | `src/projects/safenode.cpp` | none kept | a separate report, not in the build |

The daemon starts a thread for each of its two payment phases and joins it at
once, so it is sequential.  What is concurrent is the daemon, the gateway (whose
handlers are async functions that go on after their client hung up), the two
chains and the wallet.  They interact by JSON-RPC calls that may be lost, late
or given up, by transactions that take effect later or never, and by the table
that outlives the processes.  Hard: calls whose outcome is unknown, crashes
between an effect and its record, replayed events, chains that reorganise while
they are being read.

What must be right:

- peg-in: a stored Ethereum transaction is a mined mint of that deposit; a
  deposit is minted once unless the outcome of a call was lost; a paid deposit
  is never put back; every payable deposit is paid in the end;
- scan: no deposit is left behind; what is recorded stays on the chain;
- peg-out: a burn is kept until it is paid, paid once unless the outcome of a
  payment was lost, whatever the gateway replays; every burn is paid in the end;
- reconciliation: SAFE in the wallet backs tokens, pending burns and pending
  deposits; a reported difference means something;
- start and filter: both tables exist, the configuration in force is the file's,
  rows are deposits and deposits become rows;
- RPC client: the outcome of a call is true of its effect, values come back as
  they were passed;
- contract: the supply is capped and accounted for, tokens move only with
  authority, an announced burn has happened, a renounced contract cannot mint.

## Modules

- `MintRelay` - one row of table `safe2eth` per deposit (`rows`, `eth_txid`), the
  daemon's position (`pc`) and selected rows (`mymap`), and every call ever made
  to the gateway (`calls`): the state of its handler between two awaits, of the
  transaction it submitted, and, as history, what the daemon made of it (`fate`).
- `Scanner` - the height and contents of the SAFE chain (`tip`, `block`), the
  daemon's index, the blocks still to be read, the map it fills, the table.
- `BurnRelay` - burns on Ethereum (`emitted`), the gateway's undelivered events,
  its table, the request in flight, the daemon's map, table `eth2safe`
  (`row`, `txid`), and every `sendtoaddress` request (`payouts`).
- `SAFEToken` - the contract; one action per public function.  A transaction
  that reverts changes nothing and is no step.
- `Settlement` - what either half of the bridge promises, without machinery:
  claims are filed, attempts opened, take effect, get lost or settle the claim.
  `MintRelay` and `BurnRelay` implement it: claims are rows, attempts calls,
  effects mints and payments (`PegIn`, `PegOut`: `INSTANCE Settlement WITH` a
  mapping from calls and rows; `ImplementsPegIn`, `ImplementsPegOut`).
- `Bridge` - both directions with amounts: two instances of `Settlement` and one
  of `SAFEToken`, the wallet's balance (`reserve`), the deposits made, the burns
  announced, and `checkfinance` as one action per reading.  `books` is history:
  running totals of what is pending, doubled, burned without an event, paid in
  fees, and lost or won by rounding.  It uses `Settlement` for the relays because
  that is all they show to the outside; the theorems below say that they do.
- `Intake` - from the command line to a row: the configuration file, the database
  file and its tables, the outputs of a transaction and `getEthAddr`.  The chain
  stands still; `Scanner` has blocks and confirmations.
- `SafeAPI` - the calls of the client library: which arguments are appended in
  which order, the request, its fate, `BitcoinException`, and the fields that are
  read from an answer.  The node is external: it executes what it understands by
  position, in the order that the comments of `safeapi.h` give for each command,
  and shows what it executed.
- `MC*` - the values TLC gives to the constants.  `*Proofs` - the proofs, and
  `Sums` - the lemmas about sums over finite sets that they share.

An action is named after the function, or the outcome of the call, that it
models; the map in `PROJECT.json` names the lines.  A fault is an action of its
own (`Timeout`, `StoreFails`, `NodeCrash`, `Reorg`, ...), limited by `MaxFaults`
and, for reorganisations, `MaxReorgs`; `faults` is the log of those that struck
(`Suffered`), so that a property can say which faults it survives.  Operators
named `X_Y` are `X` with the mistake `Y` (a forgotten filter, an off-by-one, a
swapped branch); the table of mutants in `PROJECT.json` names the property each
of them breaks.

Choices worth knowing:

- An Ethereum transaction is named by the position of the call that submitted
  it, a payout by the position of its request.  `NoTx`/0 is the empty column.
- `insert_safe2eth` on a known txid and `insert_eth2safe` on a known eth_txid are
  modelled with the branch they take: the first updates the confirmations, the
  second calls `update_eth2safe`, which refuses an empty txid.
- `checkfinance` changes no state, but may end the daemon: `SUM` over an empty
  table is `NULL`, and `insert_callback` hands it to `atoi`.  `RoundEnds` and
  `Advance` therefore end in the next round or in `"down"`; in `Bridge` it is
  `SumTables`.
- In `Bridge`, amounts are in the smallest unit of the SAFE chain, and `Stored`
  is the rounding of `%f` to six decimals.  The wallet takes `NetFee` for a
  payment; what the row holds of it is `StoredFee`: `gettransaction` reports the
  fee of a sending as a negative amount, as wallets descended from Bitcoin's do,
  bitcoinapi.cpp:527 and safe2eth.cpp:492 copy the sign, and `%f` rounds it
  (:333).  When `gettransaction` fails the row gets what was in memory (`Junk`).
  Transactions that spend an allowance
  move the totals as the others do and are left to `SAFEToken`.  A sum that
  `insert_callback` stores through an `int*` into a double leaves it zero up to
  one part in 10^300 on a little-endian machine (`SumCallback`).
- In `Intake`, `AsInt` is both the `int` parameter `min_value` and `asInt` of
  `loadconfig`; with the default of 0.1 the filter compares with 0.  The comment
  at safe2eth.cpp:202 speaks of spaces before and after the address; the code
  skips characters 20 (a space is 32), and its `trim` comes after the length was
  checked: a space before the address refuses the deposit, and 41 characters
  followed by a space pass for an address of 42 (`Payload`, `getEthAddr`).
  `Whole` therefore leaves out padded payloads.
- In `SafeAPI`, a value is the name of the argument that held it, so that one
  sees where it ends up.  `getappdetails` reads an object for the application and
  one for extended data, which are two queries here; the part between them reads
  four members under their own names.  An error body that is JSON without
  `error.code` gives code 0, one that is no JSON gives -1 (`BitcoinException`).  A query that is given up is forgotten.  A method whose
  fields do not convert throws Json's exception, which is no `BitcoinException`
  and passes the macros of safe2eth.cpp:28.
- `vin_tx.vout[...]` after a failed lookup (safe2eth.cpp:273) is undefined; it is
  the fault `"crash"` of `Scanner`.
- The wallet keeps answering for a transaction whose block was replaced (the
  index of transactions is on), with too few confirmations; that it may answer
  with an error is the fault `"scan"`.
- `needed_confirms` is at least 1 in `Scanner`; with 0 the daemon would record
  unconfirmed transactions.  `eth2safe_table` is a set: its order matters only
  between burns of one transaction, where `ReceiveEvents` takes any as the last.

## Runs

| Run | Instance | What it shows |
|---|---|---|
| `MintRelay` | 3 deposits, one not above the fee; any 2 faults of 9 kinds; 220 539 states | `NoPhantomPayment`, `OneAccountedMint`, `HarmlessFaultsMintOnce`, `PaidIsFinal`, `EveryDepositPaid`, `ImplementsPegIn` |
| `MintPendingPaid` | 2 deposits, 1 timeout | `SelectedRowsNeedMint` fails: a deposit is selected again, and minted twice, after its mint was mined too late for the daemon |
| `Scanner` | 2 deposits, 3 confirmations, 6 blocks, 1 reorganisation of up to 2 blocks, any 2 faults of 5 kinds; 901 058 states | `NoDepositSkipped`, `RecordedDepositIsFinal`, `DepositRecorded` |
| `ScanSkips` | 1 deposit, 1 failing RPC | `NothingSkipped` fails: an aborted scan still moves the index |
| `ScanWedges` | 1 failing `getblockcount` | `RoundsContinue` fails: the loop for the hashes never ends |
| `BurnRelay` | 2 burns, any 2 faults of 10 kinds; 93 022 states | `OneAccountedPayout`, `ReplayPaysOnce`, `BurnKeptWithoutLoss`, `StoredPayoutIsFinal`, `EveryBurnPaid`, `ImplementsPegOut` |
| `BurnReplyLost` | 1 burn, 1 lost answer | `EveryBurnKept` fails: the gateway's table is emptied before the answer arrived |
| `Token` | 2 accounts, cap 2, words 0..3; 92 000 states | the contract's properties |
| `Bridge` | 2 deposits of 7 and 5 units, moves and burns of 4 or 5, grain 3, a bridge fee of 1, a network fee of 2, 2 lost calls; 873 735 states | `Books`, `DriftBounded`, `BackedWhileTracked`, `BooksAreSums`: no path moves value past the books; `ContractDiffExplained`, `WalletDiffExplained`: what a difference can come from; `SumsSeeOneTable` |
| `FinanceDiff` | the same | `BalancedReportsNoDiff` fails: a difference is printed where there is none |
| `Intake` | 7 transactions, 3 files, 2 faults of 5 kinds; 278 726 states | `RowsAreDeposits`, `DepositsAreRows`, `FaultlessStartIsComplete`, `ConfigAsWritten` |
| `SafeAPI` | 18 pairs of calls, `registerapp` with every choice of optional arguments, 14 queries in between; 265 220 states | `EffectsAsReported`: what a result or an exception says of the effect; `ReadBack`: fields come back under their names, lists are right of the ledger |

Bounds.  Two faults let a fault strike during the recovery from another one, on
the same deposit or on two; a third adds nothing the handlers could confuse,
since every call has a connection of its own.  Deposit 2, which is not above the
fee, stands between two that are: a thread that stopped at it would starve the
third.  The chain of `Scanner` is long enough for three rounds with an overlap
and a reorganisation in each phase of a round.  Reorganisations are as deep as
`RecordedDepositIsFinal` allows with 3 confirmations, and no shallower: with one
block less an off-by-one in the confirmations would not show.  Deeper ones are
the business of the theorems.  `StartIndex` is not below `needed_confirms`:
otherwise the step back asks for the hash of a negative height for ever, which
`DepositRecorded` therefore excludes.  In `Token`, `Cap < MaxUint` so that both the cap and a SafeMath
overflow can refuse.  `Scanner` and `ScanWedges` are run without the deadlock
check: a failed count may stop the daemon for good (`ScanWedges`), and the chain
of the model ends at `MaxTip`.

In `Bridge` the grain is 3 so that amounts are rounded up (5 to 6, the network's
fee from 2 to 3) and down (4 to 3) and a deposit of 7 less the fee of 1 is exact;
what an unread fee leaves in memory is -9, unlike any fee; two lost calls allow one in each direction,
or a deposit minted three times; the cap of 15 covers all of them and the fees.
`Intake` has a transaction for each way the filter can decide, and files with a
minimum that is whole, one that is not, and one that is missing a member; two
faults let a start fail on each table.  In `SafeAPI` each method that asks for a
change follows the one that makes what it names (`registerapp`, `issueasset`),
a payment another one: the library keeps nothing between calls, so what a pair
does not show is not there to be shown, except for answers mixed up between more
than two requests, which the theorems cover.

Fairness.  `FairSpec` of each module lets the daemon's loop and the gateway's
event loop run (they have nothing to wait for but what is modelled), pooled
transactions be mined, the wallet answer, and dead processes be restarted: the
code has no supervisor, so that is a demand on whoever operates the bridge.
There is no fairness for a fault, a deposit, a burn or a reorganisation.

## Findings

1. A timeout of `safe2eth` mints twice (`MintPendingPaid`).  The same happens
   when `getGasPrice` fails after the receipt, when web3 gives up waiting, when
   the daemon dies or the UPDATE fails before the answer is stored;
   `OneAccountedMint` says that these are the only ways, and
   `HarmlessFaultsMintOnce` that the other faults are harmless.  Peg-out has the
   same gap around `sendtoaddress` (`OneAccountedPayout`).
2. A failing RPC in the scan loses deposits until the daemon is restarted
   (`ScanSkips`); so does a failing INSERT (the same instance with the fault
   `"insert"`), which only prints a line.
3. A failing `getblockcount` stops the daemon (`ScanWedges`).
4. An answer of `eth2safe` that does not reach the table loses its burns until
   the gateway is restarted (`BurnReplyLost`).  Two burns of one Ethereum
   transaction collapse into one row even without a fault, since `eth_txid` is
   the key: with `SharedTx` of `MCBurnRelay` and no faults, `EveryBurnKept` fails
   as well, which is why `BurnKeptWithoutLoss` asks for `OneBurnPerTx`.  A burn
   removed by a reorganisation is still paid: the `'changed'` handlers hold
   nothing but a comment.  What holds is that one a later block includes again is
   paid, once (`EveryBurnPaid`, `ReplayPaysOnce`).
5. `checkfinance` prints a difference where there is none (`FinanceDiff`), since
   its sums never arrive in the doubles it reads them into.  If they did, the
   fees would be added where they should be subtracted (:574), for the table
   holds them as negative amounts: the wallet would seem to miss twice the fee
   of every payment recorded.  `WalletDiffExplained` counts exactly that
   (`FeesMissing`).
6. Disagreements between `safeapi.h` and `safeapi.cpp` met while modelling
   `SafeAPI`; the bridge uses none of these methods.  `registerapp` drops empty
   optional arguments, so a later one takes their position: `EffectsAsReported`
   and `ReadBack` say that the arguments before it still arrive and come back
   (`Unmoved`), and claim nothing for the ones that move.  `setappauth` sends the
   administrator's address in place of the application (:187; safeapi.h:54) and
   `putcandy` the remarks before the expiry (:462; safeapi.h:187-188): the node
   refuses both, so no property sees their order.  `getassetinfo` crosses four
   keys and reads the remarks as a number, which throws (:533-536), so `ReadBack`
   says nothing of it.  `getauthlist` appends the current user's rights to
   everybody's (:376); `getaddrassetbalance` and `getassetdetails` send
   `getaddrassettxids` (:583, :601).  Codes -1 and 0 of a `BitcoinException` are
   either the node's or say that the body could not be parsed or had no code, so
   `EffectsAsReported` claims nothing for them.

## Proofs

`tlapm` checks, with SMT, Zenon and LS4, for every value of the constants that
satisfies the modules' assumptions (types, `Faults` among the known kinds, at
least one confirmation, the cap within a word):

- `MintRelayProofs`: the inductive invariant `IInv` and from it `TypeOK`,
  `NoPhantomPayment`, `OneAccountedMint`, `PaidIsFinal`, and with
  `FailedCallHasNoEffect` also `HarmlessFaultsMintOnce`.  The properties speak of
  the table and of mints; what makes them inductive is that a call is open only
  while it is the last one, the daemon waits for it and its row is among the
  selected ones, all of which are unpaid (`OpenCallIsCurrent`,
  `SelectedRowsUnpaid`), that a recorded call is the one its row names
  (`RecordedCallIsStored`), and that a handler past its receipt has a mined
  transaction (`AnswerNeedsReceipt`).  A step changes one call, appends one or
  none; a lemma for each keeps the invariant and the actions cite it.
- `BurnRelayProofs`: `IInv`, in two halves.  `MemoryTyped` is about what the
  gateway and the daemon hold; `LedgerInv` about the table and the payouts, along
  the same argument as peg-in (`OpenPayoutIsCurrent`, `SelectedRowsUnpaid`,
  `RecordedPayoutIsStored`), and with `RowsAreFiled`: only rows have a txid, so
  an insertion, which leaves known rows alone, cannot erase one.  From it
  `TypeOK`, `OneAccountedPayout`, `StoredPayoutIsFinal`, with
  `AbandonedIsRefused` also `ReplayPaysOnce`, and with `HandOver` (an answer and
  a map are overwritten only when empty, no abandoned request is left to empty
  the gateway's table) `BurnKeptWithoutLoss`, which also covers a dropped web
  socket, whose burns wait for the next gateway process, and reorganisations.
- `ScannerProofs`: `TypeOK`; `NoDepositSkipped` from `SInv`: a waiting deposit is
  at every moment in a block to be fetched, in a block to be read, or at least
  at `nToIndex - needed_confirms`; `RecordedDepositIsFinal` from
  `RecordedIsDeep`.  The bound `needed_confirms + 2` on the depth of a
  reorganisation is sharp: TLC refutes `needed_confirms + 3`.
- `MintRelayProofs` and `BurnRelayProofs` also prove `Spec => PegIn!Spec` and
  `Spec => PegOut!Spec`: each action is an action of `Settlement` on the mapped
  variables or leaves them alone, by the invariants above.
- `BridgeProofs`: every property of the run.  `Books`, `DriftBounded` and
  `BackedWhileTracked` follow from `IInv`: the types of the books, that nothing
  is doubled while no call is in doubt (`Tracked`), and the invariants of the
  two instances of `Settlement`; so does `PromisesKeptThm`, which states the
  promises of `Settlement` for both directions of the bridge.  `SumsSeeOneTable`
  needs that no call is open while a report is made (`Quiet`).  `TypeOK` and the
  three properties about sums need `Invariants`.  Its part `Claims` ties running
  totals to sums over tables: `BooksAreSums`; `SupplyTracked`, that what was
  minted is at least the sum of the deposits minted for, and exactly that while
  no mint is in doubt; and `ReserveTracked`, that the wallet holds at most the
  deposits made less the burns paid and their fees, and exactly that while no
  payment is in doubt.  Each step adds or removes one element of one of these
  sums.  `FeesTracked` says that a row holds `StoredFee` once its payment is
  recorded, unless the lookup failed, and zero before, and `Placed` that effects
  and settlements are those of rows.  `WalletDiffExplained` first takes out what
  the fee column does to the report (`FeesMissing`): for a recorded payment with a
  known fee the fee is missing from the wallet and expected on top, for one
  without it what was in memory is subtracted; `FeesSum` is that sum, for any
  junk.  A difference is then the difference of two
  sums over nested sets, which the absence of the named causes makes equal, up
  to half a grain for each row.
- `BridgeProofs` also shows what the composition rests on: `ContractThm`
  (`Spec => Token!Spec`: the bridge does nothing to the contract that is no
  transaction of it), `PegInThm` and `PegOutThm` (`Spec => In!Spec`,
  `Spec => Out!Spec`), and what `Settlement` implies by itself, for every set of
  claims (`SettledOnceThm`, `DoubledOnlyInDoubtThm`, stated of the peg-in
  instance).
- `Sums`: `SumFunctionOnSet` is defined with a recursive function that is chosen.
  `SubsetInduction` proves, from the well-foundedness of inclusion on the subsets
  of a finite set, that a set of subsets that is closed under adding an element
  contains the whole; the property is a set and not an operator, which no prover
  here could instantiate.  With it: two such functions agree, the equation holds
  whichever element is taken first, and from there adding and removing an
  element, changing one value, and comparing two sums term by term.
- `IntakeProofs`: all five properties of the run.  `CompleteInv` says that, in a
  run without a fault, the transactions read so far are in the list as far as
  they are wanted, and those handed over are rows; that the last of several
  outputs exists is taken from the well-foundedness of the naturals.
- `SafeAPIProofs`: every property of the run, for sessions of any length.  `IInv`
  says that of a call at most one request is under way and none once it was
  executed (`Requests`), and that an answer under way tells of the call that waits
  (`Replies`): from it `ExecutedOnce` and `OutcomesAreTrue`.  `Asked` adds that a
  request carries the parameters of its call and that the ledger holds what these
  say (`ArgumentsArrive`).  For this, `Positions` compares the order in which each
  method appends with the order the node expects: they agree but for `setappauth`
  and `putcandy`, which the node refuses (`Misplaced`); `InPlace` shows that
  up to the first optional argument that is left out every argument is in place.  `Shown` says the same of
  an answer to a query on its way, `Told` of the last one given: calls only
  change their outcome and the ledger only grows at its end (`CallsStep`,
  `LedgerStep`), so an answer that was right stays right, and a list that arrives
  late misses only entries made since.  `getassetinfo` never returns
  (`ObjectGivesBack`): it reads the remarks as a number.
- `SAFETokenProofs`: the ledger invariant, `SupplyAccounted`,
  `AnnouncedIsBurned`, `SupplyIsSumOfBalances` (with `Sums`),
  `DebitsAreAuthorised`, `RenouncedIsForever`.

The assumptions on the constants are named in the modules that declare them.
Those the sums need: there are finitely many accounts (an address has 160 bits),
and the cap fits into a word, as 3E25 does into 256 bits.  Deposits may be
infinitely many: the sums are over those made so far, which are finite.

Only model-checked: liveness (`EveryDepositPaid`, `DepositRecorded`,
`EveryBurnPaid`, the refuted `RoundsContinue`), which TLAPS cannot do under
fairness.  Every other property of a passing run is a theorem.  The inductive
invariants were checked with TLC on the instances of the runs before they were
proved.  The properties of the runs that expect a violation are refuted and there
is nothing to prove.  That the instances of `Settlement` in `Bridge` are what the
relays show is proved on each side (`ImplementsPegInThm` and `PegInThm`); that
their composition with the relays themselves in place of `Settlement` behaves as
`Bridge` does is not stated.

## Not modelled

- Formatting and logging; the columns of the tables nothing is decided by;
  `deploy.js` and `web3.js` (one-shot); the tests (they need a live node).
- `safenode.cpp`: a report on masternodes that CMakeLists.txt does not build; it
  reads blocks, adds up and prints, and shares no state with the bridge.
- Of the RPC client: raw transactions, mining, wallet administration, accounting
  and candy queries.  Each copies arguments into a request and fields out of an
  answer as those in `SafeAPI` do; the bridge uses `getblockcount`,
  `getblockhash`, `getblock`, `getrawtransaction`, `getbalance`,
  `sendtoaddress` and `gettransaction`, whose outcomes are in the other modules.
- `getEthAddr` on payloads longer than the buffer it clears.
