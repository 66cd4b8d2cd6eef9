----------------------------- MODULE IntakeProofs -----------------------------
(***************************************************************************)
(* Proofs about Intake for every chain, all configuration files, defaults  *)
(* and numbers of faults.                                                  *)
(***************************************************************************)
EXTENDS Intake, WellFoundedInduction, TLAPS

-----------------------------------------------------------------------------
(* Facts about the operators. *)

\* Dropping the fraction gives no more than there was, and does nothing twice.
LEMMA Fraction ==
    ASSUME NEW v \in Nat
    PROVE  AsInt(v) \in Nat /\ AsInt(v) <= v /\ AsInt(AsInt(v)) = AsInt(v)
<1> DEFINE q == v \div One
<1>1. q \in Nat /\ One * q <= v
  BY ConfigAssumption, Z3
<1> HIDE DEF q
<1>2. PICK w : w = q * One
  OBVIOUS
<1>3. w \in Nat /\ w = One * q
  BY <1>1, <1>2, ConfigAssumption
<1>4. w \div One = q
  BY <1>1, <1>3, ConfigAssumption, Z3
<1>5. AsInt(v) = w
  BY <1>2 DEF AsInt, q
<1>6. AsInt(w) = w
  BY <1>2, <1>4 DEF AsInt
<1> QED
  BY <1>1, <1>3, <1>5, <1>6

\* A non-empty set of positions has a last one.
LEMMA LastOne ==
    ASSUME NEW n \in Nat, NEW S, S \subseteq 1..n, S # {}
    PROVE  Last(S) \in S
<1> DEFINE T == {n - i : i \in S}
<1>1. T \subseteq Nat /\ T # {}
  <2>1. \A i \in S : n - i \in Nat
    OBVIOUS
  <2> QED
    BY <2>1
<1>2. PICK m \in T : \A k \in T : ~(<<k, m>> \in OpToRel(<, Nat))
  BY <1>1, NatLessThanWellFounded, WFMin
<1>3. \A k \in T : ~(k < m)
  BY <1>1, <1>2 DEF OpToRel
<1>4. PICK i \in S : m = n - i
  OBVIOUS
<1>5. \A j \in S : j <= i
  BY <1>3, <1>4
<1> QED
  BY <1>4, <1>5 DEF Last

LEMMA ChainFacts ==
    ASSUME NEW t \in DOMAIN Chain
    PROVE  /\ DOMAIN Chain[t].vout = 1..Len(Chain[t].vout) /\ Len(Chain[t].vout) \in Nat
           /\ \A i \in DOMAIN Chain[t].vout : Chain[t].vout[i] \in Output
<1> DEFINE Txs == [coinbase : BOOLEAN, confirmations : Nat, vout : Seq(Output)]
<1>1. Chain[t] \in Txs
  <2>1. Chain \in Seq(Txs)
    BY ChainAssumption
  <2> HIDE DEF Txs
  <2> QED
    BY <2>1
<1>2. Chain[t].vout \in Seq(Output)
  BY <1>1
<1> HIDE DEF Output
<1> QED
  BY <1>2

-----------------------------------------------------------------------------
(* Types. *)

LEMMA LengthNat == Len(Chain) \in Nat /\ DOMAIN Chain = 1..Len(Chain)
BY ChainAssumption

LEMMA Blank == DOMAIN NoList = {} /\ 1 \in 1..(Len(Chain) + 1)
BY LengthNat DEF NoList

LEMMA FaultTyped ==
    ASSUME TypeOK, Fault
    PROVE  faults' \in 0..MaxFaults /\ clean' \in BOOLEAN
<1>1. faults \in 0..MaxFaults /\ MaxFaults \in Nat
  BY ConfigAssumption DEF TypeOK
<1>2. faults < MaxFaults /\ faults' = faults + 1
  BY DEF Fault
<1>3. faults' \in 0..MaxFaults
  BY <1>1, <1>2
<1>4. clean' \in BOOLEAN
  BY DEF Fault
<1> QED
  BY <1>3, <1>4

LEMMA LoadTyped ==
    ASSUME NEW f \in Files \cup {Defaults}
    PROVE  loadconfig(f) \in [Members -> Nat]
<1>1. \A k \in DOMAIN f : f[k] \in Nat
  BY ConfigAssumption
<1>2. Defaults \in [Members -> Nat]
  BY ConfigAssumption
<1>3. ASSUME NEW k \in Members
      PROVE (IF k \notin DOMAIN f THEN Defaults[k]
             ELSE IF k = "g_min_value" THEN AsInt(f[k]) ELSE f[k]) \in Nat
  BY <1>1, <1>2, Fraction
<1> QED
  BY <1>3 DEF loadconfig

LEMMA TypeStep == TypeOK /\ [Next]_vars => TypeOK'
<1> SUFFICES ASSUME TypeOK, [Next]_vars PROVE TypeOK'
  OBVIOUS
<1> USE LengthNat
<1>1. CASE Edit
  BY <1>1 DEF TypeOK, Edit, store, round
<1>2. CASE Start
  <2>1. CASE file = Absent
    BY <1>2, <2>1, ConfigAssumption DEF TypeOK, Start, store, round, Tables
  <2>2. CASE file # Absent
    <3>1. PICK f \in Files \cup {Defaults} : file = Written(f)
      BY <1>2, <2>2 DEF TypeOK, Start
    <3>2. config' \in [Members -> Nat]
      BY <1>2, <2>2, <3>1, LoadTyped DEF Start, Written
    <3> QED
      BY <1>2, <2>2, <3>2 DEF TypeOK, Start, store, round, Tables
  <2> QED
    BY <2>1, <2>2
<1>3. ASSUME NEW table \in Tables, OpenTable(table) PROVE TypeOK'
  BY <1>3 DEF TypeOK, OpenTable, round, After, Tables
<1>4. ASSUME NEW table \in Tables, ExistFails(table) PROVE TypeOK'
  BY <1>4, FaultTyped DEF TypeOK, ExistFails, round, After, Tables
<1>5. ASSUME NEW table \in Tables, CreateFails(table) PROVE TypeOK'
  BY <1>5, FaultTyped DEF TypeOK, CreateFails, store, round, Tables
<1>6. CASE OpenFails
  BY <1>6, FaultTyped DEF TypeOK, OpenFails, store, round, Tables
<1>7. CASE ScanTx
  BY <1>7 DEF TypeOK, ScanTx, store, Tables
<1>8. CASE ScanDone
  BY <1>8 DEF TypeOK, ScanDone, store, round, Tables
<1>9. CASE ScanFails
  BY <1>9, FaultTyped DEF TypeOK, ScanFails, store, round, Tables
<1>10. CASE InsertRow
  <2>1. PICK t \in DOMAIN list :
          /\ IsNext(t) /\ done' = done \cup {t}
          /\ rows' = IF mydb /\ "safe2eth" \in tables /\ t \notin DOMAIN rows
                       THEN [u \in DOMAIN rows \cup {t} |-> IF u = t THEN list[t] ELSE rows[u]]
                       ELSE rows
    BY <1>10 DEF InsertRow
  <2>2. t \in DOMAIN Chain
    BY DEF TypeOK
  <2>3. DOMAIN rows' \subseteq DOMAIN Chain /\ (rows' # NoList => "safe2eth" \in tables)
    BY <2>1, <2>2 DEF TypeOK
  <2> QED
    BY <1>10, <2>1, <2>3 DEF TypeOK, InsertRow, Tables
<1>11. CASE InsertFails
  BY <1>11, FaultTyped DEF TypeOK, InsertFails, store, Tables
<1>12. CASE RoundEnds
  BY <1>12, Blank DEF TypeOK, RoundEnds, store, Tables
<1>13. CASE Stop
  BY <1>13, Blank DEF TypeOK, Stop, store, Tables
<1>14. CASE UNCHANGED vars
  BY <1>14 DEF TypeOK, vars, store, round
<1> QED
  BY <1>1, <1>2, <1>3, <1>4, <1>5, <1>6, <1>7, <1>8, <1>9, <1>10, <1>11, <1>12, <1>13, <1>14 DEF Next

\* The variables of Intake keep their types; rows need their table.
THEOREM TypeCorrect == Spec => []TypeOK
<1>1. Init => TypeOK
  <2>1. Init => faults \in 0..MaxFaults /\ config \in [Members -> Nat]
    BY ConfigAssumption DEF Init
  <2> QED
    BY <2>1, Blank DEF Init, TypeOK, Tables
<1> QED
  BY <1>1, TypeStep, PTL DEF Spec

-----------------------------------------------------------------------------
(* The tables of a start without a fault. *)

Opening == pc = "eth2safe" /\ clean => mydb /\ "safe2eth" \in tables
OpenInv == Opening /\ FaultlessStartIsComplete

\* A start without a fault completes what earlier starts left half done
\* (mySQLiteDB::open).
THEOREM FaultlessStartThm == Spec => []FaultlessStartIsComplete
<1> USE DEF OpenInv, Opening, FaultlessStartIsComplete
<1>1. Init => OpenInv
  BY DEF Init
<1>2. TypeOK /\ OpenInv /\ [Next]_vars => OpenInv'
  <2> SUFFICES ASSUME TypeOK, OpenInv, [Next]_vars PROVE OpenInv'
    OBVIOUS
  <2>1. ASSUME NEW table \in Tables, OpenTable(table) PROVE OpenInv'
    <3>1. CASE table = "safe2eth"
      BY <2>1, <3>1 DEF OpenTable, After
    <3>2. CASE table = "eth2safe"
      <4>1. pc' = "scan" /\ mydb' /\ clean' = clean /\ tables' = tables \cup {"eth2safe"}
        BY <2>1, <3>2 DEF OpenTable, After
      <4>2. clean => tables' = Tables
        BY <2>1, <3>2, <4>1 DEF OpenTable, TypeOK, Tables
      <4> QED
        BY <4>1, <4>2
    <3> QED
      BY <3>1, <3>2 DEF Tables
  <2>2. ASSUME NEW table \in Tables, ExistFails(table) \/ CreateFails(table) PROVE OpenInv'
    BY <2>2 DEF ExistFails, CreateFails, Fault
  <2>3. CASE OpenFails \/ ScanFails \/ InsertFails
    BY <2>3 DEF OpenFails, ScanFails, InsertFails, Fault
  <2>4. CASE Edit \/ Start \/ Stop
    BY <2>4 DEF Edit, Start, Stop, store
  <2>5. CASE ScanTx \/ ScanDone \/ InsertRow \/ RoundEnds
    BY <2>5 DEF ScanTx, ScanDone, InsertRow, RoundEnds, store
  <2>6. CASE UNCHANGED vars
    BY <2>6 DEF vars, store
  <2> QED
    BY <2>1, <2>2, <2>3, <2>4, <2>5, <2>6 DEF Next
<1>3. OpenInv => FaultlessStartIsComplete
  OBVIOUS
<1> QED
  BY <1>1, <1>2, <1>3, TypeCorrect, PTL DEF Spec

-----------------------------------------------------------------------------
(* The configuration in force. *)

LEMMA ConfigStep == TypeOK /\ ConfigAsWritten /\ [Next]_vars => ConfigAsWritten'
<1> SUFFICES ASSUME TypeOK, ConfigAsWritten, [Next]_vars PROVE ConfigAsWritten'
  OBVIOUS
<1>1. CASE Start
  <2>1. CASE file = Absent
    BY <1>1, <2>1, ConfigAssumption DEF Start, ConfigAsWritten, Written
  <2>2. CASE file # Absent
    <3>1. PICK f \in Files \cup {Defaults} : file = Written(f)
      BY <1>1, <2>2 DEF TypeOK, Start
    <3>2. file' = file /\ file.members = f /\ config' = loadconfig(f)
      BY <1>1, <2>2, <3>1 DEF Start, Written
    <3>3. DOMAIN f \subseteq Members
      BY ConfigAssumption
    <3>4. \A k \in DOMAIN f : k # "g_min_value" \/ AsInt(f[k]) = f[k] => loadconfig(f)[k] = f[k]
      BY <3>3 DEF loadconfig
    <3>5. ASSUME f = Defaults PROVE Used(loadconfig(f)) = Used(Defaults)
      <4>1. Defaults \in [Members -> Nat] /\ "g_min_value" \in Members
        BY ConfigAssumption DEF Members
      <4>2. PICK d \in Nat : d = Defaults["g_min_value"]
        BY <4>1
      <4>3. AsInt(AsInt(d)) = AsInt(d)
        BY Fraction
      <4>4. loadconfig(f) = [Defaults EXCEPT !["g_min_value"] = AsInt(d)]
        BY <3>5, <4>1, <4>2 DEF loadconfig
      <4> QED
        BY <4>1, <4>2, <4>3, <4>4 DEF Used
    <3>6. Written(f) = Written(Defaults) => f = Defaults
      BY DEF Written
    <3> QED
      BY <3>1, <3>2, <3>4, <3>5, <3>6 DEF ConfigAsWritten
  <2> QED
    BY <2>1, <2>2
<1>2. CASE Edit \/ Stop
  BY <1>2 DEF Edit, Stop, ConfigAsWritten
<1>3. ASSUME NEW table \in Tables, OpenTable(table) \/ ExistFails(table) \/ CreateFails(table)
      PROVE ConfigAsWritten'
  BY <1>3 DEF OpenTable, ExistFails, CreateFails, ConfigAsWritten, Tables
<1>4. CASE OpenFails \/ ScanFails \/ InsertFails \/ ScanTx \/ ScanDone \/ InsertRow \/ RoundEnds
  BY <1>4 DEF OpenFails, ScanFails, InsertFails, ScanTx, ScanDone, InsertRow, RoundEnds, ConfigAsWritten
<1>5. CASE UNCHANGED vars
  BY <1>5 DEF vars, ConfigAsWritten
<1> QED
  BY <1>1, <1>2, <1>3, <1>4, <1>5 DEF Next

\* Whole minimums and all other members come through the file unchanged,
\* and the program reads back what it wrote (saveconfig, loadconfig).
THEOREM ConfigAsWrittenThm == Spec => []ConfigAsWritten
<1>1. Init => ConfigAsWritten
  BY DEF Init, ConfigAsWritten
<1> QED
  BY <1>1, TypeCorrect, ConfigStep, PTL DEF Spec

-----------------------------------------------------------------------------
(* The filter. *)

IsDeposit(t, r) ==
    \E i \in DOMAIN Chain[t].vout :
      LET o == Chain[t].vout[i] IN
      /\ Deposit(o) /\ ~Chain[t].coinbase
      /\ r.amount = o.value /\ r.eth_address = o.reserve.address
      /\ AsInt(r.least) = r.least => r.amount >= r.least

LEMMA OutputTyped ==
    ASSUME NEW o \in Output
    PROVE  o.value \in Nat /\ o.reserve.address # NoAddress
BY DEF Output, Payload

\* What the filter records of a transaction is one of its deposits.
LEMMA RecordIsDeposit ==
    ASSUME TypeOK, NEW t \in DOMAIN Chain, Listed(t)
    PROVE  IsDeposit(t, Record(t))
<1> DEFINE i == Last(Found(t))
           o == Chain[t].vout[i]
<1>1. i \in Found(t)
  <2>1. Found(t) # {} /\ Found(t) \subseteq 1..Len(Chain[t].vout)
    BY ChainFacts DEF Listed, Found
  <2> QED
    BY <2>1, ChainFacts, LastOne
<1>2. /\ i \in DOMAIN Chain[t].vout
      /\ Pays(o) /\ Mine \in o.addresses /\ getEthAddr(o.reserve) # NoAddress
  BY <1>1 DEF Found
<1>3. getEthAddr(o.reserve) = o.reserve.address /\ o.reserve.tag /\ o.reserve.prefix
  BY <1>2 DEF getEthAddr
<1>4. Deposit(o) /\ o.value >= AsInt(config["g_min_value"])
  BY <1>2, <1>3 DEF Deposit, Pays
<1>5. ~Chain[t].coinbase
  BY DEF Listed
<1>6. /\ Record(t).amount = o.value /\ Record(t).eth_address = getEthAddr(o.reserve)
      /\ Record(t).least = config["g_min_value"]
  BY DEF Record
<1> QED
  BY <1>2, <1>3, <1>4, <1>5, <1>6 DEF IsDeposit

\* The filter misses no whole deposit of at least the minimum.
LEMMA EligibleIsFound ==
    ASSUME TypeOK, NEW t \in DOMAIN Chain, Eligible(t) # {}
    PROVE  Found(t) # {}
<1>1. PICK i \in DOMAIN Chain[t].vout :
        LET o == Chain[t].vout[i] IN
        Deposit(o) /\ Whole(o.reserve) /\ o.value >= config["g_min_value"]
  BY DEF Eligible
<1> DEFINE o == Chain[t].vout[i]
<1>2. o \in Output
  BY ChainFacts
<1>3. getEthAddr(o.reserve) # NoAddress
  <2>1. o.reserve.chars >= 188 /\ o.reserve.tag /\ o.reserve.prefix
    BY <1>1 DEF Deposit, Whole
  <2>2. \A j \in DOMAIN o.reserve.pad : o.reserve.pad[j] = 20
    BY <1>1 DEF Whole
  <2>3. o.reserve.length + o.reserve.blanks = 42
    BY <1>1 DEF Whole
  <2> QED
    BY <1>2, <2>1, <2>2, <2>3, OutputTyped DEF getEthAddr
<1>4. o.value >= AsInt(config["g_min_value"])
  <2>1. config["g_min_value"] \in Nat
    BY DEF TypeOK, Members
  <2>2. o.value \in Nat
    BY <1>2, OutputTyped
  <2> QED
    BY <1>1, <2>1, <2>2, Fraction
<1>5. i \in Found(t)
  BY <1>1, <1>3, <1>4 DEF Found, Pays, Deposit
<1> QED
  BY <1>5

RowsInv ==
    /\ \A t \in DOMAIN rows : IsDeposit(t, rows[t])
    /\ \A t \in DOMAIN list : IsDeposit(t, list[t])

\* Every row is a deposit of its transaction, whatever the payloads, the
\* minimums and the order of runs (getSafe2EthList, getEthAddr).
THEOREM RowsAreDepositsThm == Spec => []RowsAreDeposits
<1>1. Init => RowsInv
  BY DEF Init, RowsInv, NoList
<1>2. TypeOK /\ RowsInv /\ [Next]_vars => RowsInv'
  <2> SUFFICES ASSUME TypeOK, RowsInv, [Next]_vars PROVE RowsInv'
    OBVIOUS
  <2> USE DEF RowsInv
  <2> HIDE DEF IsDeposit
  <2>1. CASE ScanTx
    <3>1. next \in DOMAIN Chain
      BY <2>1, LengthNat DEF ScanTx, TypeOK
    <3>2. \A t \in DOMAIN list' : IsDeposit(t, list'[t])
      <4>1. CASE Listed(next)
        <5>1. list' = [t \in DOMAIN list \cup {next} |-> IF t = next THEN Record(next) ELSE list[t]]
          BY <2>1, <4>1 DEF ScanTx
        <5>2. IsDeposit(next, Record(next))
          BY <3>1, <4>1, RecordIsDeposit
        <5> QED
          BY <5>1, <5>2
      <4>2. CASE ~Listed(next)
        BY <2>1, <4>2 DEF ScanTx
      <4> QED
        BY <4>1, <4>2
    <3> QED
      BY <2>1, <3>2 DEF ScanTx, store
  <2>2. CASE InsertRow
    <3>1. PICK t \in DOMAIN list :
            rows' = IF mydb /\ "safe2eth" \in tables /\ t \notin DOMAIN rows
                      THEN [u \in DOMAIN rows \cup {t} |-> IF u = t THEN list[t] ELSE rows[u]]
                      ELSE rows
      BY <2>2 DEF InsertRow
    <3>2. \A u \in DOMAIN rows' : IsDeposit(u, rows'[u])
      BY <3>1
    <3> QED
      BY <2>2, <3>2 DEF InsertRow
  <2>3. CASE RoundEnds \/ Stop
    BY <2>3 DEF RoundEnds, Stop, store, NoList
  <2>4. CASE Edit \/ Start \/ OpenFails \/ ScanDone \/ ScanFails \/ InsertFails
    BY <2>4 DEF Edit, Start, OpenFails, ScanDone, ScanFails, InsertFails, store, round
  <2>5. ASSUME NEW table \in Tables, OpenTable(table) \/ ExistFails(table) \/ CreateFails(table)
        PROVE RowsInv'
    BY <2>5 DEF OpenTable, ExistFails, CreateFails, store, round
  <2>6. CASE UNCHANGED vars
    BY <2>6 DEF vars, store, round
  <2> QED
    BY <2>1, <2>2, <2>3, <2>4, <2>5, <2>6 DEF Next
<1>3. RowsInv => RowsAreDeposits
  BY DEF RowsInv, RowsAreDeposits, IsDeposit
<1> QED
  BY <1>1, <1>2, <1>3, TypeCorrect, PTL DEF Spec

-----------------------------------------------------------------------------
(* Nothing is left out. *)

Wanted(t) == /\ ~Chain[t].coinbase /\ Chain[t].confirmations >= config["g_need_confirms"]
             /\ Eligible(t) # {}

CompleteInv ==
    /\ pc # "insert" => done = {}
    /\ clean => done \subseteq DOMAIN rows
    /\ pc = "insert" /\ clean => next = Len(Chain) + 1
    /\ clean => \A t \in 1..(next - 1) : Wanted(t) => t \in DOMAIN list

LEMMA WantedKept == ASSUME config' = config, NEW t PROVE Wanted(t)' = Wanted(t)
BY DEF Wanted, Eligible

LEMMA CompleteStep ==
    TypeOK /\ FaultlessStartIsComplete /\ CompleteInv /\ [Next]_vars => CompleteInv'
<1> SUFFICES ASSUME TypeOK, FaultlessStartIsComplete, CompleteInv, [Next]_vars
             PROVE  CompleteInv'
  OBVIOUS
<1> USE DEF CompleteInv
<1>1. CASE Start \/ Edit \/ Stop
  <2>1. next' = 1 /\ done' = {} /\ pc' # "insert"
    BY <1>1 DEF Start, Edit, Stop, TypeOK, round, Tables
  <2> QED
    BY <2>1
<1>2. CASE ScanTx
  <2>1. /\ next \in DOMAIN Chain /\ next \in Nat /\ next' = next + 1
        /\ pc' = pc /\ pc = "scan" /\ done' = done /\ rows' = rows /\ clean' = clean
        /\ config' = config
    BY <1>2, LengthNat DEF ScanTx, TypeOK, store
  <2>2. ASSUME clean, NEW t \in 1..next, Wanted(t) PROVE t \in DOMAIN list'
    <3>1. CASE t = next
      <4>1. Listed(next)
        BY <2>1, <2>2, <3>1, EligibleIsFound DEF Wanted, Listed
      <4> QED
        BY <1>2, <3>1, <4>1 DEF ScanTx
    <3>2. CASE t # next
      <4>1. t \in 1..(next - 1)
        BY <2>1, <2>2, <3>2
      <4>2. t \in DOMAIN list
        BY <2>2, <4>1
      <4> QED
        BY <1>2, <4>2 DEF ScanTx
    <3> QED
      BY <3>1, <3>2
  <2>3. next' - 1 = next
    BY <2>1
  <2>4. clean' => \A t \in 1..(next' - 1) : Wanted(t)' => t \in DOMAIN list'
    BY <2>1, <2>2, <2>3, WantedKept
  <2> QED
    BY <2>1, <2>4
<1>3. CASE ScanDone
  <2>1. next = Len(Chain) + 1
    BY <1>3, LengthNat DEF ScanDone, TypeOK
  <2> QED
    BY <1>3, <2>1, WantedKept DEF ScanDone, store, round
<1>4. CASE ScanFails \/ InsertFails \/ OpenFails
  BY <1>4 DEF ScanFails, InsertFails, OpenFails, Fault, round, store
<1>5. CASE InsertRow
  <2>1. PICK t \in DOMAIN list :
          /\ done' = done \cup {t}
          /\ rows' = IF mydb /\ "safe2eth" \in tables /\ t \notin DOMAIN rows
                       THEN [u \in DOMAIN rows \cup {t} |-> IF u = t THEN list[t] ELSE rows[u]]
                       ELSE rows
    BY <1>5 DEF InsertRow
  <2>2. clean => mydb /\ "safe2eth" \in tables
    BY <1>5 DEF InsertRow, FaultlessStartIsComplete, Tables
  <2>3. clean => done' \subseteq DOMAIN rows'
    BY <2>1, <2>2
  <2> QED
    BY <1>5, <2>3, WantedKept DEF InsertRow
<1>6. CASE RoundEnds
  BY <1>6 DEF RoundEnds
<1>7. ASSUME NEW table \in Tables, OpenTable(table) \/ ExistFails(table) \/ CreateFails(table)
      PROVE CompleteInv'
  BY <1>7, WantedKept DEF OpenTable, ExistFails, CreateFails, Fault, store, round, After, Tables
<1>8. CASE UNCHANGED vars
  BY <1>8, WantedKept DEF vars, store, round
<1> QED
  BY <1>1, <1>2, <1>3, <1>4, <1>5, <1>6, <1>7, <1>8 DEF Next

\* After a round of a faultless run no confirmed whole deposit of at least
\* the minimum is without a row (mainthread, getSafe2EthList).
THEOREM DepositsAreRowsThm == Spec => []DepositsAreRows
<1>1. Init => CompleteInv
  BY DEF Init, CompleteInv
<1>2. TypeOK /\ CompleteInv => DepositsAreRows
  <2> SUFFICES ASSUME TypeOK, CompleteInv, pc = "insert", done = DOMAIN list, clean,
                      NEW t \in DOMAIN Chain, Wanted(t)
               PROVE  t \in DOMAIN rows
    BY DEF DepositsAreRows, Wanted
  <2>1. t \in 1..(next - 1)
    BY LengthNat DEF CompleteInv
  <2> QED
    BY <2>1 DEF CompleteInv
<1> QED
  BY <1>1, <1>2, CompleteStep, TypeCorrect, FaultlessStartThm, PTL DEF Spec
=============================================================================
