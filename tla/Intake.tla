-------------------------------- MODULE Intake --------------------------------
(***************************************************************************)
(* From the command line to a row of table safe2eth: the configuration     *)
(* file (usage, saveconfig, loadconfig), the database file and its two     *)
(* tables (mySQLiteDB), and the filter that tells a deposit from the other *)
(* transactions of the SAFE chain (getSafe2EthList, getEthAddr).  Scanner  *)
(* has the blocks and the confirmations; here the chain stands still and   *)
(* every round reads all of it.  Amounts are in units of which a SAFE has  *)
(* One.  An operator named X_Y is X with the mistake Y.                    *)
(***************************************************************************)
EXTENDS Integers, Sequences

CONSTANTS
    Chain,     \* the transactions, in the order the scan meets them
    Files,     \* configuration files the operator may put in place
    Defaults,  \* the globals as compiled
    Mine,      \* g_myAddress
    One,       \* units in a SAFE
    MaxFaults  \* bound: how many faults

Members == {"g_need_confirms", "g_min_value", "g_txfee"}
Tables == {"safe2eth", "eth2safe"}
NoAddress == "no address"

Payload == [chars : Nat,            \* hexadecimal digits of reserve
            tag : BOOLEAN,          \* "eth:" stands at byte 48
            pad : Seq({20, 32}),    \* characters between the tag and the address
            prefix : BOOLEAN,       \* the address begins with 0x
            address : STRING \ {NoAddress}, length : Nat,
            blanks : Nat]           \* spaces after the address
Output == [txType : Nat, nUnlockedHeight : Nat, value : Nat,
           addresses : SUBSET STRING, reserve : Payload]

ASSUME ConfigAssumption ==
    /\ One \in Nat \ {0} /\ MaxFaults \in Nat /\ Mine \in STRING
    /\ Defaults \in [Members -> Nat]
    /\ \A f \in Files : DOMAIN f \subseteq Members /\ \A k \in DOMAIN f : f[k] \in Nat
ASSUME ChainAssumption ==
    Chain \in Seq([coinbase : BOOLEAN, confirmations : Nat, vout : Seq(Output)])

VARIABLES
    file,    \* the configuration file: none, unreadable as JSON, or its members
    config,  \* the globals
    mydb,    \* the database file is open
    tables,  \* tables in it (persistent)
    rows,    \* table safe2eth: what it says of a transaction (persistent)
    pc,      \* "down", the table being opened, "scan", or "insert"
    next,    \* the transaction the scan reads next
    list,    \* safe2ethMap: what the scan found
    done,    \* those of the list that were handed to insert_safe2eth
    faults,  \* bound: faults so far
    clean    \* history: no fault since the program was started

store == <<tables, rows>>
round == <<next, list, done>>
vars  == <<file, config, mydb, store, pc, round, faults, clean>>

Absent == [kind |-> "absent", members |-> <<>>]
Broken == [kind |-> "broken", members |-> <<>>]
Written(c) == [kind |-> "json", members |-> c]
NoList == [t \in {} |-> NoAddress]

Init ==
    /\ file = Absent
    /\ config = Defaults
    /\ mydb = FALSE
    /\ tables = {} /\ rows = NoList
    /\ pc = "down"
    /\ next = 1 /\ list = NoList /\ done = {}
    /\ faults = 0 /\ clean = TRUE

Fault == faults < MaxFaults /\ faults' = faults + 1 /\ clean' = FALSE

-----------------------------------------------------------------------------
(* The configuration file. *)

\* The operator writes a file between two runs.
Edit ==
    /\ pc = "down"
    /\ file' \in {Written(f) : f \in Files} \cup {Absent, Broken}
    /\ UNCHANGED <<config, mydb, store, pc, round, faults, clean>>

\* Json's asInt drops the fraction.
AsInt(v) == (v \div One) * One

loadconfig_IntegerFee(f) ==
    [k \in Members |-> IF k \notin DOMAIN f THEN Defaults[k]
                       ELSE IF k \in {"g_min_value", "g_txfee"} THEN AsInt(f[k]) ELSE f[k]]

\* A member the file lacks keeps its default; the minimum is read as an integer.
loadconfig(f) ==
    [k \in Members |-> IF k \notin DOMAIN f THEN Defaults[k]
                       ELSE IF k = "g_min_value" THEN AsInt(f[k]) ELSE f[k]]

\* A missing file is written, with the globals as they are; the program ends
\* at one it cannot parse.
Start ==
    /\ pc = "down" /\ file # Broken
    /\ IF file = Absent
         THEN file' = Written(Defaults) /\ config' = Defaults
         ELSE config' = loadconfig(file.members) /\ UNCHANGED file
    /\ pc' = "safe2eth"
    /\ clean' = TRUE
    /\ UNCHANGED <<mydb, store, round, faults>>

-----------------------------------------------------------------------------
(* The database file.  The constructor of mySQLiteDB ignores what open    *)
(* returns: after a failure the program goes on with what there is.       *)

After(table) == IF table = "safe2eth" THEN "eth2safe" ELSE "scan"

OpenTable_Nested(table) ==
    /\ pc = table
    /\ mydb' = TRUE
    /\ IF table \in tables THEN pc' = "scan" /\ UNCHANGED tables
                           ELSE pc' = After(table) /\ tables' = tables \cup {table}
    /\ UNCHANGED <<file, config, rows, round, faults, clean>>

\* open, one table at a time: tableExist, and CREATE TABLE if there is none.
OpenTable(table) ==
    /\ pc = table
    /\ mydb' = TRUE
    /\ tables' = tables \cup {table}
    /\ pc' = After(table)
    /\ UNCHANGED <<file, config, rows, round, faults, clean>>

\* tableExist cannot ask and says no: CREATE TABLE works if it said right,
\* otherwise it fails and open returns.
ExistFails(table) ==
    /\ pc = table /\ Fault
    /\ mydb' = TRUE
    /\ IF table \in tables THEN pc' = "scan" /\ UNCHANGED tables
                           ELSE pc' = After(table) /\ tables' = tables \cup {table}
    /\ UNCHANGED <<file, config, rows, round>>

CreateFails(table) ==
    /\ pc = table /\ table \notin tables /\ Fault
    /\ mydb' = TRUE
    /\ pc' = "scan"
    /\ UNCHANGED <<file, config, store, round>>

\* sqlite3_open fails: no statement of this run will work.
OpenFails ==
    /\ pc = "safe2eth" /\ Fault
    /\ pc' = "scan"
    /\ UNCHANGED <<file, config, mydb, store, round>>

-----------------------------------------------------------------------------
(* The filter. *)

getEthAddr_LongerThan188(r) ==
    IF r.chars > 188 /\ r.tag /\ (\A i \in DOMAIN r.pad : r.pad[i] = 20)
       /\ r.prefix /\ r.length + r.blanks = 42
    THEN r.address ELSE NoAddress

\* The address in reserve.  Characters 20 before it are skipped (a space is
\* 32), the length counts spaces after it, which trim takes off only then.
getEthAddr(r) ==
    IF r.chars >= 188 /\ r.tag /\ (\A i \in DOMAIN r.pad : r.pad[i] = 20)
       /\ r.prefix /\ r.length + r.blanks = 42
    THEN r.address ELSE NoAddress

Pays_Locked(o) == o.txType = 1 /\ o.value >= AsInt(config["g_min_value"])

\* Unlocked SAFE, at least the minimum, which the parameter makes an int.
Pays(o) == o.txType = 1 /\ o.nUnlockedHeight = 0 /\ o.value >= AsInt(config["g_min_value"])

Found(t) == {i \in DOMAIN Chain[t].vout :
              LET o == Chain[t].vout[i] IN
              Pays(o) /\ Mine \in o.addresses /\ getEthAddr(o.reserve) # NoAddress}

\* The last of several outputs is what the list keeps of a transaction.
Last(S) == CHOOSE i \in S : \A j \in S : j <= i

Record(t) == LET o == Chain[t].vout[Last(Found(t))] IN
             [eth_address |-> getEthAddr(o.reserve), amount |-> o.value,
              least |-> config["g_min_value"]]   \* history

Listed(t) == ~Chain[t].coinbase /\ Chain[t].confirmations >= config["g_need_confirms"] /\ Found(t) # {}

ScanTx ==
    /\ pc = "scan" /\ next <= Len(Chain)
    /\ next' = next + 1
    /\ list' = IF Listed(next) THEN [t \in DOMAIN list \cup {next} |-> IF t = next THEN Record(t) ELSE list[t]]
                               ELSE list
    /\ UNCHANGED <<file, config, mydb, store, pc, done, faults, clean>>

ScanDone ==
    /\ pc = "scan" /\ next > Len(Chain)
    /\ pc' = "insert"
    /\ UNCHANGED <<file, config, mydb, store, round, faults, clean>>

\* getblock or getrawtransaction fails: the list so far is used.
ScanFails ==
    /\ pc = "scan" /\ next <= Len(Chain) /\ Fault
    /\ pc' = "insert"
    /\ UNCHANGED <<file, config, mydb, store, round>>

\* The list is a map: its records are inserted in the order of their txids.
IsNext(t) == t \in DOMAIN list \ done /\ \A u \in DOMAIN list \ done : t <= u

\* insert_safe2eth leaves a row there is alone; without a table it fails.
InsertRow ==
    /\ pc = "insert"
    /\ \E t \in DOMAIN list : IsNext(t)
         /\ done' = done \cup {t}
         /\ rows' = IF mydb /\ "safe2eth" \in tables /\ t \notin DOMAIN rows
                      THEN [u \in DOMAIN rows \cup {t} |-> IF u = t THEN list[t] ELSE rows[u]]
                      ELSE rows
    /\ UNCHANGED <<file, config, mydb, tables, pc, next, list, faults, clean>>

InsertFails ==
    /\ pc = "insert" /\ Fault
    /\ \E t \in DOMAIN list : IsNext(t) /\ done' = done \cup {t}
    /\ UNCHANGED <<file, config, mydb, store, pc, next, list>>

RoundEnds_NoClear ==
    /\ pc = "insert" /\ done = DOMAIN list
    /\ next' = 1 /\ done' = {} /\ UNCHANGED list
    /\ pc' = "scan"
    /\ UNCHANGED <<file, config, mydb, store, faults, clean>>

RoundEnds ==
    /\ pc = "insert" /\ done = DOMAIN list
    /\ next' = 1 /\ list' = NoList /\ done' = {}
    /\ pc' = "scan"
    /\ UNCHANGED <<file, config, mydb, store, faults, clean>>

\* The program ends: stopped, killed, or on the lookup of a previous
\* transaction that failed (vin_tx.vout is empty then and indexed).
Stop ==
    /\ pc # "down"
    /\ pc' = "down"
    /\ mydb' = FALSE
    /\ next' = 1 /\ list' = NoList /\ done' = {}
    /\ UNCHANGED <<file, config, store, faults, clean>>

Next ==
    \/ Edit \/ Start
    \/ \E table \in Tables : OpenTable(table) \/ ExistFails(table) \/ CreateFails(table)
    \/ OpenFails
    \/ ScanTx \/ ScanDone \/ ScanFails
    \/ InsertRow \/ InsertFails \/ RoundEnds
    \/ Stop

Spec == Init /\ [][Next]_vars

-----------------------------------------------------------------------------
(* Properties. *)

TypeOK ==
    /\ file \in {Written(f) : f \in Files \cup {Defaults}} \cup {Absent, Broken}
    /\ config \in [Members -> Nat]
    /\ mydb \in BOOLEAN /\ clean \in BOOLEAN
    /\ tables \subseteq Tables
    /\ DOMAIN rows \subseteq DOMAIN Chain
    /\ DOMAIN list \subseteq 1..(next - 1) /\ done \subseteq DOMAIN list
    /\ pc \in Tables \cup {"down", "scan", "insert"}
    /\ next \in 1..(Len(Chain) + 1)
    /\ pc \in {"down"} \cup Tables => next = 1
    /\ rows # NoList => "safe2eth" \in tables
    /\ faults \in 0..MaxFaults

\* What the comments of getSafe2EthList and getEthAddr ask of an output:
\* unlocked SAFE to the bridge's address, "eth:" and a whole address.
Deposit(o) ==
    /\ o.txType = 1 /\ o.nUnlockedHeight = 0 /\ Mine \in o.addresses
    /\ o.reserve.tag /\ o.reserve.prefix
Whole(r) == r.length = 42 /\ r.pad = <<>> /\ r.blanks = 0 /\ r.chars >= 188

\* No row says more than the chain: it names the address and the amount of
\* one of its transaction's deposits, the amount no less than the minimum of
\* the run that recorded it, if that was a whole number.  (Whole addresses only: 41 digits and a space
\* are taken for one, see README.)
RowsAreDeposits ==
    \A t \in DOMAIN rows : \E i \in DOMAIN Chain[t].vout :
      LET o == Chain[t].vout[i] IN
      /\ Deposit(o) /\ ~Chain[t].coinbase
      /\ rows[t].amount = o.value /\ rows[t].eth_address = o.reserve.address
      /\ AsInt(rows[t].least) = rows[t].least => rows[t].amount >= rows[t].least

\* Nothing is missing after a round without a fault: a confirmed transaction
\* with one deposit of at least the minimum has its row.  With several, one
\* of them stands for all (see RowsAreDeposits).
Eligible(t) == {i \in DOMAIN Chain[t].vout :
                 LET o == Chain[t].vout[i] IN
                 Deposit(o) /\ Whole(o.reserve) /\ o.value >= config["g_min_value"]}
DepositsAreRows ==
    pc = "insert" /\ done = DOMAIN list /\ clean =>
      \A t \in DOMAIN Chain :
        /\ ~Chain[t].coinbase /\ Chain[t].confirmations >= config["g_need_confirms"]
        /\ Eligible(t) # {}
        => t \in DOMAIN rows

\* A start without a fault has both tables, whatever earlier starts left
\* half done.
FaultlessStartIsComplete ==
    pc \in {"scan", "insert"} /\ clean => mydb /\ tables = Tables

\* What is in force is what the file says, for whole minimums; and a file
\* this program wrote itself means the same when it is read again.
Used(c) == [c EXCEPT !["g_min_value"] = AsInt(@)]
ConfigAsWritten ==
    pc # "down" =>
      /\ \A k \in DOMAIN file.members :
           k # "g_min_value" \/ AsInt(file.members[k]) = file.members[k]
             => config[k] = file.members[k]
      /\ file = Written(Defaults) => Used(config) = Used(Defaults)
=============================================================================
