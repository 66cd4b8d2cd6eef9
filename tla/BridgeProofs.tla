------------------------------ MODULE BridgeProofs ------------------------------
(***************************************************************************)
(* Proofs about Bridge for every set of deposits, every amount, fee and    *)
(* grain, and any number of lost calls.  First the books, from IInv; then  *)
(* what ties the books, the contract and the tables to the sums over their *)
(* rows, from Invariants; then that the bridge's steps are steps of the    *)
(* contract and of the two halves.                                         *)
(***************************************************************************)
EXTENDS Bridge, Sums, SequenceTheorems, TLAPS

\* The books' types, and where the claims under way come from.
BooksTyped ==
    /\ totalSupply \in Nat /\ reserve \in Nat
    /\ burns \in Seq(1..MaxUint)
    /\ depositRows \subseteq Deposit /\ burnRows \subseteq 1..Len(burns)
    /\ \A a \in mintOpen \cup mintDoubtful : a[1] \in depositRows
    /\ \A a \in payOpen \cup payDoubtful : a[1] \in burnRows
    /\ books \in [Totals -> Int]
    /\ books["silent"] >= 0 /\ books["rounded"] >= 0

\* Nothing is doubled while no call is in doubt.
Tracked == mintDoubtful = {} /\ payDoubtful = {} => books["doubled"] = 0

IInv == BooksTyped /\ Books /\ DriftBounded /\ Tracked /\ In!IInv /\ Out!IInv

\* Rounding to the nearest grain is off by half a grain at most.
LEMMA StoredError ==
    ASSUME NEW n \in Nat
    PROVE  /\ Stored(n) \in Nat /\ HalfGrain \in Nat
           /\ Stored(n) - n <= HalfGrain /\ n - Stored(n) <= HalfGrain
<1> DEFINE h == Grain \div 2
           q == (n + h) \div Grain
           r == (n + h) % Grain
<1>1. h \in Nat /\ Grain - 1 <= 2 * h /\ 2 * h <= Grain
  BY GrainAssumption
<1>2. q \in Nat /\ r \in Nat /\ r < Grain /\ n + h = Grain * q + r
  <2>1. n + h \in Nat
    BY <1>1
  <2> HIDE DEF h
  <2> QED
    BY <2>1, GrainAssumption, Z3
<1>3. Stored(n) = q * Grain
  BY DEF Stored
<1>4. HalfGrain = h
  BY DEF HalfGrain
<1> HIDE DEF h, q, r
<1>5. q * Grain \in Nat /\ q * Grain = Grain * q
  BY <1>2, GrainAssumption
<1> QED
  BY <1>1, <1>2, <1>3, <1>4, <1>5, GrainAssumption

-----------------------------------------------------------------------------
(* What a step leaves alone stays true. *)

LEMMA InKept == ASSUME In!IInv, UNCHANGED mints PROVE In!IInv'
BY DEF In!IInv, In!SettledOnce, mints

LEMMA OutKept == ASSUME Out!IInv, UNCHANGED pays PROVE Out!IInv'
BY DEF Out!IInv, Out!SettledOnce, pays

LEMMA HalfGrainNat == HalfGrain \in Nat
BY GrainAssumption DEF HalfGrain

LEMMA BoundKept ==
    ASSUME IInv, books'["drift"] = books["drift"], books'["rounded"] = books["rounded"]
    PROVE  DriftBounded'
BY DEF IInv, DriftBounded

\* The totals by name.
LEMMA Names == /\ "unminted" \in Totals /\ "unpaid" \in Totals /\ "silent" \in Totals
               /\ "doubled" \in Totals /\ "fees" \in Totals /\ "drift" \in Totals
               /\ "rounded" \in Totals
BY DEF Totals

LEMMA BooksAreTotals == ASSUME IInv PROVE books \in [Totals -> Int]
BY DEF IInv, BooksTyped

LEMMA EntriesAreInt ==
    ASSUME IInv
    PROVE  /\ books["unminted"] \in Int /\ books["unpaid"] \in Int /\ books["silent"] \in Int
           /\ books["doubled"] \in Int /\ books["fees"] \in Int /\ books["drift"] \in Int
           /\ books["rounded"] \in Int /\ totalSupply \in Nat /\ reserve \in Nat
<1>1. totalSupply \in Nat /\ reserve \in Nat
  BY DEF IInv, BooksTyped
<1> QED
  BY <1>1, BooksAreTotals, Names

LEMMA BooksHold == ASSUME IInv PROVE Books
BY DEF IInv

LEMMA BooksKept ==
    ASSUME IInv, UNCHANGED <<totalSupply, reserve, burns, books>>
    PROVE  Books' /\ DriftBounded'
BY DEF IInv, Books, DriftBounded

\* A step of the relays that moves no money keeps the invariant, if it keeps
\* the claims' part of it.
LEMMA NoMoney ==
    ASSUME IInv, UNCHANGED <<totalSupply, reserve, burns, books>>,
           BooksTyped', In!IInv', Out!IInv',
           mintDoubtful \subseteq mintDoubtful', payDoubtful \subseteq payDoubtful'
    PROVE  IInv'
BY BooksKept DEF IInv, Tracked

LEMMA InitInv == Init => IInv
<1> SUFFICES ASSUME Init PROVE IInv
  OBVIOUS
<1>0. books = [t \in Totals |-> 0]
  BY DEF Init
<1>1. DriftBounded
  <2>1. books["drift"] = 0 /\ books["rounded"] = 0
    BY <1>0, Names
  <2> QED
    BY <2>1, HalfGrainNat DEF DriftBounded
<1>2. BooksTyped /\ Books /\ Tracked
  <2>1. /\ books["unminted"] = 0 /\ books["unpaid"] = 0 /\ books["silent"] = 0
        /\ books["doubled"] = 0 /\ books["fees"] = 0 /\ books["drift"] = 0
        /\ books["rounded"] = 0 /\ books \in [Totals -> Int]
    BY <1>0, Names
  <2>2. Books /\ Tracked
    BY <2>1 DEF Init, Books, Tracked, Token!Init
  <2>3. BooksTyped
    BY <2>1 DEF Init, BooksTyped, Token!Init, In!Init, Out!Init
  <2> QED
    BY <2>2, <2>3
<1>3. In!IInv /\ Out!IInv
  BY DEF Init, In!Init, Out!Init, In!IInv, Out!IInv, In!SettledOnce, Out!SettledOnce
<1> QED
  BY <1>1, <1>2, <1>3 DEF IInv

-----------------------------------------------------------------------------
(* The users' steps. *)

LEMMA ArriveInv == ASSUME IInv, NEW d \in Deposit, Arrive(d) PROVE IInv'
<1>1. PICK n : n = Amount[d]
  OBVIOUS
<1>2. n \in Nat
  BY <1>1, DepositAssumption
<1>3. /\ books' = [books EXCEPT !["unminted"] = @ + n] /\ reserve' = reserve + n
      /\ UNCHANGED <<totalSupply, burns, mints, pays>>
  BY <1>1 DEF Arrive, token
<1>4. /\ books' \in [Totals -> Int] /\ books'["unminted"] = books["unminted"] + n
      /\ books'["unpaid"] = books["unpaid"] /\ books'["silent"] = books["silent"]
      /\ books'["doubled"] = books["doubled"] /\ books'["fees"] = books["fees"]
      /\ books'["drift"] = books["drift"] /\ books'["rounded"] = books["rounded"]
  BY <1>2, <1>3, BooksAreTotals, Names
<1>5. BooksTyped' /\ Tracked'
  BY <1>2, <1>3, <1>4 DEF IInv, BooksTyped, Tracked, mints, pays
<1>6. Books'
  BY <1>2, <1>3, <1>4, EntriesAreInt, BooksHold DEF Books
<1>7. DriftBounded'
  BY <1>4, BoundKept
<1> QED
  BY <1>3, <1>5, <1>6, <1>7, InKept, OutKept DEF IInv

LEMMA MoveInv ==
    ASSUME IInv, NEW by \in Account, NEW to \in Account, NEW n \in Size, Move(by, to, n)
    PROVE  IInv'
<1>1. UNCHANGED <<totalSupply, reserve, burns, books, mints, pays>>
  BY DEF Move, Token!Transfer, Token!unchangedSupply
<1>2. BooksTyped'
  BY <1>1 DEF IInv, BooksTyped, mints, pays
<1> QED
  BY <1>1, <1>2, InKept, OutKept, NoMoney DEF IInv, mints, pays

LEMMA RedeemInv ==
    ASSUME IInv, NEW by \in Account, NEW n \in Size, Redeem(by, n)
    PROVE  IInv'
<1>1. n \in 1..MaxUint
  BY SizeAssumption
<1>2. totalSupply' \in Nat /\ totalSupply' = totalSupply - n
  BY <1>1 DEF Redeem, Token!eth2safe, Token!burn, Token!_burn, IInv, BooksTyped
<1>3. burns' \in Seq(1..MaxUint) /\ Len(burns') = Len(burns) + 1
  BY <1>1 DEF Redeem, IInv, BooksTyped
<1>7. /\ books' \in [Totals -> Int] /\ books'["unpaid"] = books["unpaid"] + n
      /\ books'["unminted"] = books["unminted"] /\ books'["silent"] = books["silent"]
      /\ books'["doubled"] = books["doubled"] /\ books'["fees"] = books["fees"]
      /\ books'["drift"] = books["drift"] /\ books'["rounded"] = books["rounded"]
  BY <1>1, BooksAreTotals, Names DEF Redeem
<1>4. BooksTyped'
  BY <1>2, <1>3, <1>7 DEF Redeem, IInv, BooksTyped, mints, pays
<1>5. Books'
  BY <1>1, <1>2, <1>7, EntriesAreInt, BooksHold DEF Redeem, Books
<1>8. Tracked'
  BY <1>7 DEF Redeem, IInv, Tracked, mints, pays
<1>6. DriftBounded'
  BY <1>7, BoundKept
<1> QED
  BY <1>4, <1>5, <1>6, <1>8, InKept, OutKept DEF IInv, Redeem

LEMMA DestroyInv ==
    ASSUME IInv, NEW by \in Account, NEW n \in Size, Destroy(by, n)
    PROVE  IInv'
<1>1. n \in 1..MaxUint
  BY SizeAssumption
<1>2. totalSupply' \in Nat /\ totalSupply' = totalSupply - n
  BY <1>1 DEF Destroy, Token!Burn, Token!burn, Token!_burn, IInv, BooksTyped
<1>3. /\ books' \in [Totals -> Int] /\ books'["silent"] = books["silent"] + n
      /\ books'["unminted"] = books["unminted"] /\ books'["unpaid"] = books["unpaid"]
      /\ books'["doubled"] = books["doubled"] /\ books'["fees"] = books["fees"]
      /\ books'["drift"] = books["drift"] /\ books'["rounded"] = books["rounded"]
  BY <1>1, BooksAreTotals, Names DEF Destroy
<1>4. BooksTyped' /\ Tracked'
  BY <1>1, <1>2, <1>3 DEF Destroy, IInv, BooksTyped, Tracked, mints, pays
<1>5. Books'
  <2>1. n \in Int /\ UNCHANGED reserve
    BY <1>1 DEF Destroy
  <2> QED
    BY <1>2, <1>3, <2>1, EntriesAreInt, BooksHold DEF Books
<1>6. DriftBounded'
  BY <1>3, BoundKept
<1> QED
  BY <1>4, <1>5, <1>6, InKept, OutKept DEF IInv, Destroy

-----------------------------------------------------------------------------
(* The relays' steps that move no money. *)

LEMMA RecordDepositInv == ASSUME IInv, NEW d \in Deposit, RecordDeposit(d) PROVE IInv'
<1>1. UNCHANGED <<totalSupply, reserve, burns, books>> /\ In!IInv' /\ BooksTyped'
  BY DEF RecordDeposit, In!File, In!IInv, In!SettledOnce, IInv, BooksTyped, token, pays
<1> QED
  BY <1>1, OutKept, NoMoney DEF RecordDeposit, In!File, IInv, pays

LEMMA SendMintInv == ASSUME IInv, NEW d \in Deposit, SendMint(d) PROVE IInv'
<1>1. PICK a : a = NextTry(mintDoubtful \cup mintEffective, d)
  OBVIOUS
<1>2. In!Start(a) /\ UNCHANGED <<token, pays, burns, reserve, books>>
  BY <1>1 DEF SendMint
<1>3. In!IInv' /\ BooksTyped'
  BY <1>2 DEF In!Start, In!IInv, In!SettledOnce, IInv, BooksTyped, token, pays
<1> QED
  BY <1>2, <1>3, OutKept, NoMoney DEF In!Start, IInv, token, pays

LEMMA LoseMintInv == ASSUME IInv, NEW a \in mintOpen, LoseMint(a) PROVE IInv'
<1>1. UNCHANGED <<totalSupply, reserve, burns, books>> /\ In!IInv' /\ BooksTyped'
  BY DEF LoseMint, In!LoseTrack, In!IInv, In!SettledOnce, IInv, BooksTyped, token, pays
<1> QED
  BY <1>1, OutKept, NoMoney DEF LoseMint, In!LoseTrack, IInv, pays

LEMMA StoreMintInv == ASSUME IInv, NEW a \in mintOpen, StoreMint(a) PROVE IInv'
<1>1. UNCHANGED <<totalSupply, reserve, burns, books>> /\ In!IInv' /\ BooksTyped'
  BY DEF StoreMint, In!Settle, In!IInv, In!SettledOnce, IInv, BooksTyped, token, pays
<1> QED
  BY <1>1, OutKept, NoMoney DEF StoreMint, In!Settle, IInv, pays

LEMMA RecordBurnInv == ASSUME IInv, NEW k \in 1..MaxBurns, RecordBurn(k) PROVE IInv'
<1>1. UNCHANGED <<totalSupply, reserve, burns, books>> /\ Out!IInv' /\ BooksTyped'
  BY DEF RecordBurn, Out!File, Out!IInv, Out!SettledOnce, IInv, BooksTyped, token, mints
<1> QED
  BY <1>1, InKept, NoMoney DEF RecordBurn, Out!File, IInv, mints

LEMMA SendPayoutInv == ASSUME IInv, NEW k \in 1..MaxBurns, SendPayout(k) PROVE IInv'
<1>1. PICK a : a = NextTry(payDoubtful \cup payEffective, k)
  OBVIOUS
<1>2. Out!Start(a) /\ UNCHANGED <<token, mints, burns, reserve, books>>
  BY <1>1 DEF SendPayout
<1>3. Out!IInv' /\ BooksTyped'
  BY <1>2 DEF Out!Start, Out!IInv, Out!SettledOnce, IInv, BooksTyped, token, mints
<1> QED
  BY <1>2, <1>3, InKept, NoMoney DEF Out!Start, IInv, token, mints

LEMMA LosePayoutInv == ASSUME IInv, NEW a \in payOpen, LosePayout(a) PROVE IInv'
<1>1. UNCHANGED <<totalSupply, reserve, burns, books>> /\ Out!IInv' /\ BooksTyped'
  BY DEF LosePayout, Out!LoseTrack, Out!IInv, Out!SettledOnce, IInv, BooksTyped, token, mints
<1> QED
  BY <1>1, InKept, NoMoney DEF LosePayout, Out!LoseTrack, IInv, mints

LEMMA StorePayoutInv == ASSUME IInv, NEW a \in payOpen, StorePayout(a) PROVE IInv'
<1>1. UNCHANGED <<totalSupply, reserve, burns, books>> /\ Out!IInv' /\ BooksTyped'
  BY DEF StorePayout, Out!Settle, Out!IInv, Out!SettledOnce, IInv, BooksTyped, token, mints
<1> QED
  BY <1>1, InKept, NoMoney DEF StorePayout, Out!Settle, IInv, mints

-----------------------------------------------------------------------------
(* The two steps that move money. *)

\* One more rounded claim: the bound grows by the half grain it may cost.
LEMMA BoundGrows ==
    ASSUME IInv, NEW n \in Nat,
           books'["drift"] = books["drift"] + Stored(n) - n,
           books'["rounded"] = books["rounded"] + 1
    PROVE  DriftBounded'
<1>1. PICK p : p = HalfGrain * books["rounded"]
  OBVIOUS
<1>2. p \in Int /\ HalfGrain * books'["rounded"] = p + HalfGrain
  <2>1. PICK r : r = books["rounded"]
    OBVIOUS
  <2>2. r \in Int
    BY <2>1, EntriesAreInt
  <2>3. HalfGrain * r \in Int /\ HalfGrain * (r + 1) = HalfGrain * r + HalfGrain
    BY <2>2, HalfGrainNat
  <2> QED
    BY <1>1, <2>1, <2>3
<1>3. books["drift"] \in Int /\ books["drift"] <= p /\ books["drift"] >= -p
  BY <1>1, EntriesAreInt DEF IInv, DriftBounded
<1>4. Stored(n) \in Nat /\ Stored(n) - n <= HalfGrain /\ n - Stored(n) <= HalfGrain
  BY StoredError
<1>5. books'["drift"] <= p + HalfGrain /\ books'["drift"] >= -(p + HalfGrain)
  BY <1>2, <1>3, <1>4, HalfGrainNat
<1> QED
  BY <1>2, <1>5 DEF DriftBounded

LEMMA MintInv ==
    ASSUME IInv, NEW a \in mintOpen \cup mintDoubtful, Mint(a)
    PROVE  IInv'
<1>1. a[1] \in Deposit
  BY DEF IInv, BooksTyped
<1>2. PICK n : n = Amount[a[1]]
  OBVIOUS
<1>3. n \in Nat /\ Stored(n) \in Nat
  BY <1>1, <1>2, DepositAssumption, StoredError
<1>4. totalSupply' = totalSupply + Stored(n) /\ UNCHANGED <<reserve, burns, pays>>
  BY <1>2 DEF Mint, Token!safe2eth
<1>5. In!IInv' /\ Out!IInv' /\ UNCHANGED <<depositRows, mintOpen, mintDoubtful>>
  <2>1. In!TakeEffect(a)
    BY DEF Mint
  <2> QED
    BY <1>4, <2>1, OutKept DEF IInv, In!TakeEffect, In!IInv, In!SettledOnce
<1>6. CASE Tries(mintEffective, a[1]) = {}
  <2>1. books' = [books EXCEPT !["unminted"] = @ - n, !["drift"] = @ + Stored(n) - n,
                               !["rounded"] = @ + 1]
    BY <1>2, <1>6 DEF Mint, Booked
  <2>2. /\ books' \in [Totals -> Int] /\ books'["unminted"] = books["unminted"] - n
        /\ books'["drift"] = books["drift"] + Stored(n) - n
        /\ books'["rounded"] = books["rounded"] + 1
        /\ books'["unpaid"] = books["unpaid"] /\ books'["silent"] = books["silent"]
        /\ books'["doubled"] = books["doubled"] /\ books'["fees"] = books["fees"]
    BY <1>3, <2>1, BooksAreTotals, Names
  <2>3. BooksTyped' /\ Tracked'
    <3>1. BooksTyped'
      <4>1. books'["silent"] >= 0 /\ books'["rounded"] >= 0
        BY <2>2, EntriesAreInt DEF IInv, BooksTyped
      <4>2. totalSupply' \in Nat /\ reserve' \in Nat
        BY <1>3, <1>4, EntriesAreInt
      <4> QED
        BY <1>4, <1>5, <2>2, <4>1, <4>2 DEF IInv, BooksTyped, pays
    <3>2. Tracked'
      BY <1>5, <2>2, <1>4 DEF IInv, Tracked, pays
    <3> QED
      BY <3>1, <3>2
  <2>4. Books'
    <3>1. PICK s : s = Stored(n)
      OBVIOUS
    <3>2. s \in Int /\ n \in Int
      BY <1>3, <3>1
    <3>3. /\ totalSupply' = totalSupply + s /\ reserve' = reserve
          /\ books'["drift"] = books["drift"] + s - n
      BY <1>4, <2>2, <3>1
    <3> QED
      BY <2>2, <3>2, <3>3, EntriesAreInt, BooksHold DEF Books
  <2>5. DriftBounded'
    BY <1>3, <2>2, BoundGrows
  <2> QED
    BY <1>5, <2>3, <2>4, <2>5 DEF IInv
<1>7. CASE Tries(mintEffective, a[1]) # {}
  <2>1. books' = [books EXCEPT !["doubled"] = @ + Stored(n)]
    BY <1>2, <1>7 DEF Mint, Booked
  <2>2. mintDoubtful # {}
    <3>1. PICK b \in mintEffective : b[1] = a[1]
      BY <1>7 DEF Tries
    <3>2. a \notin mintEffective
      BY DEF Mint, In!TakeEffect
    <3> QED
      BY <3>1, <3>2 DEF IInv, In!IInv
  <2>3. /\ books' \in [Totals -> Int] /\ books'["doubled"] = books["doubled"] + Stored(n)
        /\ books'["unminted"] = books["unminted"] /\ books'["unpaid"] = books["unpaid"]
        /\ books'["silent"] = books["silent"] /\ books'["fees"] = books["fees"]
        /\ books'["drift"] = books["drift"] /\ books'["rounded"] = books["rounded"]
    BY <1>3, <2>1, BooksAreTotals, Names
  <2>4. BooksTyped' /\ Tracked'
    <3>1. BooksTyped'
      <4>1. books'["silent"] >= 0 /\ books'["rounded"] >= 0
        BY <2>3, EntriesAreInt DEF IInv, BooksTyped
      <4>2. totalSupply' \in Nat /\ reserve' \in Nat
        BY <1>3, <1>4, EntriesAreInt
      <4> QED
        BY <1>4, <1>5, <2>3, <4>1, <4>2 DEF IInv, BooksTyped, pays
    <3>2. Tracked'
      BY <1>5, <2>2 DEF Tracked
    <3> QED
      BY <3>1, <3>2
  <2>5. Books'
    BY <1>3, <1>4, <2>3, EntriesAreInt, BooksHold DEF Books
  <2>6. DriftBounded'
    BY <2>3, BoundKept
  <2> QED
    BY <1>5, <2>4, <2>5, <2>6 DEF IInv
<1> QED
  BY <1>6, <1>7

LEMMA PayInv ==
    ASSUME IInv, NEW a \in payOpen \cup payDoubtful, Pay(a)
    PROVE  IInv'
<1>1. PICK n : n = burns[a[1]]
  OBVIOUS
<1>2. n \in Nat /\ Stored(n) \in Nat
  <2>1. a[1] \in 1..Len(burns) /\ burns \in Seq(1..MaxUint)
    BY DEF IInv, BooksTyped
  <2>2. n \in 1..MaxUint
    BY <1>1, <2>1, ElementOfSeq
  <2> QED
    BY <2>2, StoredError
<1>3. /\ Stored(n) + NetFee <= reserve /\ reserve' = reserve - Stored(n) - NetFee
      /\ UNCHANGED <<totalSupply, burns, mints>>
  BY <1>1 DEF Pay, token
<1>4. reserve' \in Nat
  BY <1>2, <1>3, FeeAssumption DEF IInv, BooksTyped
<1>5. In!IInv' /\ Out!IInv' /\ UNCHANGED <<burnRows, payOpen, payDoubtful>>
  <2>1. Out!TakeEffect(a)
    BY DEF Pay
  <2> QED
    BY <1>3, <2>1, InKept DEF IInv, Out!TakeEffect, Out!IInv, Out!SettledOnce
<1>6. CASE Tries(payEffective, a[1]) = {}
  <2>1. books' = [books EXCEPT !["unpaid"] = @ - n, !["drift"] = @ + Stored(n) - n,
                               !["rounded"] = @ + 1, !["fees"] = @ + NetFee]
    BY <1>1, <1>6 DEF Pay, Booked, IInv, BooksTyped
  <2>2. /\ books' \in [Totals -> Int] /\ books'["unpaid"] = books["unpaid"] - n
        /\ books'["drift"] = books["drift"] + Stored(n) - n
        /\ books'["rounded"] = books["rounded"] + 1
        /\ books'["fees"] = books["fees"] + NetFee
        /\ books'["unminted"] = books["unminted"] /\ books'["silent"] = books["silent"]
        /\ books'["doubled"] = books["doubled"]
    BY <1>2, <2>1, FeeAssumption, BooksAreTotals, Names
  <2>3. BooksTyped' /\ Tracked'
    <3>1. BooksTyped'
      <4>1. books'["silent"] >= 0 /\ books'["rounded"] >= 0
        BY <2>2, EntriesAreInt DEF IInv, BooksTyped
      <4> QED
        BY <1>3, <1>4, <1>5, <2>2, <4>1 DEF IInv, BooksTyped, mints
    <3>2. Tracked'
      BY <1>5, <2>2, <1>3 DEF IInv, Tracked, mints
    <3> QED
      BY <3>1, <3>2
  <2>4. Books'
    <3>1. PICK s : s = Stored(n)
      OBVIOUS
    <3>2. s \in Int /\ n \in Int /\ NetFee \in Int
      BY <1>2, <3>1, FeeAssumption
    <3>3. /\ totalSupply' = totalSupply /\ reserve' = reserve - s - NetFee
          /\ books'["drift"] = books["drift"] + s - n
      BY <1>3, <2>2, <3>1
    <3> QED
      BY <2>2, <3>2, <3>3, EntriesAreInt, BooksHold DEF Books
  <2>5. DriftBounded'
    BY <1>2, <2>2, BoundGrows
  <2> QED
    BY <1>5, <2>3, <2>4, <2>5 DEF IInv
<1>7. CASE Tries(payEffective, a[1]) # {}
  <2>1. books' = [books EXCEPT !["doubled"] = @ + Stored(n), !["fees"] = @ + NetFee]
    BY <1>1, <1>7 DEF Pay, Booked, IInv, BooksTyped
  <2>2. payDoubtful # {}
    <3>1. PICK b \in payEffective : b[1] = a[1]
      BY <1>7 DEF Tries
    <3>2. a \notin payEffective
      BY DEF Pay, Out!TakeEffect
    <3> QED
      BY <3>1, <3>2 DEF IInv, Out!IInv
  <2>3. /\ books' \in [Totals -> Int] /\ books'["doubled"] = books["doubled"] + Stored(n)
        /\ books'["fees"] = books["fees"] + NetFee
        /\ books'["unminted"] = books["unminted"] /\ books'["unpaid"] = books["unpaid"]
        /\ books'["silent"] = books["silent"] /\ books'["drift"] = books["drift"]
        /\ books'["rounded"] = books["rounded"]
    BY <1>2, <2>1, FeeAssumption, BooksAreTotals, Names
  <2>4. BooksTyped' /\ Tracked'
    <3>1. BooksTyped'
      BY <1>2, <1>3, <1>4, <1>5, <2>3, EntriesAreInt DEF IInv, BooksTyped, mints
    <3>2. Tracked'
      BY <1>5, <2>2 DEF Tracked
    <3> QED
      BY <3>1, <3>2
  <2>5. Books'
    BY <1>2, <1>3, <2>3, EntriesAreInt, BooksHold, FeeAssumption DEF Books
  <2>6. DriftBounded'
    BY <2>3, BoundKept
  <2> QED
    BY <1>5, <2>4, <2>5, <2>6 DEF IInv
<1> QED
  BY <1>6, <1>7

-----------------------------------------------------------------------------
(* The theorems. *)

\* checkfinance and a restart touch nothing the invariant speaks of.
LEMMA FinanceInv == ASSUME IInv, Finance PROVE IInv'
<1>1. UNCHANGED <<token, mints, pays, burns, reserve, books>>
  BY DEF Finance, CheckFinance, ReadWallet, FinanceFails, SumTables, RoundEnds, Restart
<1>2. BooksTyped'
  BY <1>1 DEF IInv, BooksTyped, token, mints, pays
<1> QED
  BY <1>1, <1>2, InKept, OutKept, NoMoney DEF IInv, token, mints, pays

LEMMA StepInv == IInv /\ [Next]_vars => IInv'
<1> SUFFICES ASSUME IInv, [Next]_vars PROVE IInv'
  OBVIOUS
<1>1. CASE Users
  BY <1>1, ArriveInv, MoveInv, RedeemInv, DestroyInv DEF Users
<1>2. CASE Relays
  BY <1>2, RecordDepositInv, SendMintInv, MintInv, LoseMintInv, StoreMintInv,
     RecordBurnInv, SendPayoutInv, PayInv, LosePayoutInv, StorePayoutInv DEF Relays
<1>3. CASE Finance
  BY <1>3, FinanceInv
<1>4. CASE UNCHANGED vars
  <2>1. UNCHANGED <<token, mints, pays, burns, reserve, books>>
    BY <1>4 DEF vars
  <2>2. BooksTyped'
    BY <2>1 DEF IInv, BooksTyped, token, mints, pays
  <2> QED
    BY <2>1, <2>2, InKept, OutKept, NoMoney DEF IInv, token, mints, pays
<1> QED
  BY <1>1, <1>2, <1>3, <1>4 DEF Next

\* The inductive invariant of the whole bridge.
THEOREM Invariance == Spec => []IInv
BY InitInv, StepInv, PTL DEF Spec

\* SAFE in the wallet, tokens, pending claims, doubled payments, burns without
\* an event, network fees and rounding always add up.
THEOREM BooksThm == Spec => []Books
<1>1. IInv => Books
  BY DEF IInv
<1> QED
  BY <1>1, Invariance, PTL

\* Rounding to six decimals costs at most half a grain per claim.
THEOREM DriftBoundedThm == Spec => []DriftBounded
<1>1. IInv => DriftBounded
  BY DEF IInv
<1> QED
  BY <1>1, Invariance, PTL

\* While no call is in doubt the bridge is backed, for every set of deposits,
\* every fee and every interleaving.
THEOREM BackedWhileTrackedThm == Spec => []BackedWhileTracked
<1>1. ASSUME IInv PROVE BackedWhileTracked
  <2>1. PICK p : p = HalfGrain * books["rounded"]
    OBVIOUS
  <2>2. p \in Int
    BY <1>1, <2>1, HalfGrainNat, EntriesAreInt
  <2>3. books["drift"] <= p /\ books["silent"] >= 0
    BY <1>1, <2>1 DEF IInv, BooksTyped, DriftBounded
  <2>4. CASE books["doubled"] = 0
    BY <1>1, <2>1, <2>2, <2>3, <2>4, EntriesAreInt, BooksHold DEF Books, BackedWhileTracked
  <2> QED
    BY <1>1, <2>4 DEF IInv, Tracked, BackedWhileTracked
<1> QED
  BY <1>1, Invariance, PTL

\* A report is made between the phases of a round, with no call open.
Quiet == report.step # "off" => mintOpen = {} /\ payOpen = {}

LEMMA QuietStep == Quiet /\ [Next]_vars => Quiet'
<1> SUFFICES ASSUME Quiet, [Next]_vars PROVE Quiet'
  OBVIOUS
<1>1. CASE UNCHANGED vars
  BY <1>1 DEF vars, mints, pays, Quiet
<1>2. CASE Users
  <2>1. UNCHANGED <<mints, pays, report>>
    BY <1>2 DEF Users, Arrive, Move, Redeem, Destroy
  <2> QED
    BY <2>1 DEF Quiet, mints, pays
<1>3. CASE Relays
  <2>1. CASE \E d \in Deposit : SendMint(d)
    BY <2>1 DEF SendMint, Idle, Quiet
  <2>2. CASE \E k \in 1..MaxBurns : SendPayout(k)
    BY <2>2 DEF SendPayout, Idle, Quiet
  <2>3. CASE \E a \in mintOpen \cup mintDoubtful : Mint(a)
    BY <2>3 DEF Mint, In!TakeEffect, Quiet, pays
  <2>4. CASE \E a \in payOpen \cup payDoubtful : Pay(a)
    BY <2>4 DEF Pay, Out!TakeEffect, Quiet, mints
  <2>5. CASE \E a \in mintOpen : LoseMint(a) \/ StoreMint(a)
    BY <2>5 DEF LoseMint, StoreMint, In!LoseTrack, In!Settle, Quiet, pays
  <2>6. CASE \E a \in payOpen : LosePayout(a) \/ StorePayout(a)
    BY <2>6 DEF LosePayout, StorePayout, Out!LoseTrack, Out!Settle, Quiet, mints
  <2>7. CASE \/ \E d \in Deposit : RecordDeposit(d)
             \/ \E k \in 1..MaxBurns : RecordBurn(k)
    BY <2>7 DEF RecordDeposit, RecordBurn, In!File, Out!File, Quiet, mints, pays
  <2> QED
    BY <1>3, <2>1, <2>2, <2>3, <2>4, <2>5, <2>6, <2>7 DEF Relays
<1>4. CASE CheckFinance
  BY <1>4 DEF CheckFinance, Idle, Quiet, mints, pays
<1>5. CASE ReadWallet \/ FinanceFails \/ SumTables \/ RoundEnds
  <2>1. report.step # "off" /\ UNCHANGED <<mints, pays>>
    BY <1>5 DEF ReadWallet, FinanceFails, SumTables, RoundEnds
  <2> QED
    BY <2>1 DEF Quiet, mints, pays
<1>6. CASE Restart
  BY <1>6 DEF Restart, Quiet, mints, pays
<1> QED
  BY <1>1, <1>2, <1>3, <1>4, <1>5, <1>6 DEF Next, Finance

\* The three sums of a report are taken of the same tables.
THEOREM SumsSeeOneTableThm == Spec => SumsSeeOneTable
<1>1. Init => Quiet
  BY DEF Init, Quiet, In!Init, Out!Init
<1>2. ASSUME Quiet, [Next]_vars, report.step \in {"wallet", "sums"}
      PROVE  UNCHANGED <<depositRows, mintSettled, burnRows, paySettled, fee>>
  <2>1. mintOpen = {} /\ payOpen = {} /\ ~Idle
    BY <1>2 DEF Quiet, Idle
  <2>2. CASE UNCHANGED vars
    BY <2>2 DEF vars, mints, pays
  <2>3. CASE Users
    BY <2>3 DEF Users, Arrive, Move, Redeem, Destroy, mints, pays
  <2>4. CASE Relays
    <3>1. \/ \E a \in mintDoubtful : Mint(a)
          \/ \E a \in payDoubtful : Pay(a)
      BY <2>1, <2>4 DEF Relays, RecordDeposit, SendMint, RecordBurn, SendPayout
    <3> QED
      BY <3>1 DEF Mint, Pay, In!TakeEffect, Out!TakeEffect, mints, pays
  <2>5. CASE Finance
    BY <2>5 DEF Finance, CheckFinance, ReadWallet, FinanceFails, SumTables, RoundEnds,
                Restart, mints, pays
  <2> QED
    BY <1>2, <2>2, <2>3, <2>4, <2>5 DEF Next
<1> QED
  BY <1>1, <1>2, QuietStep, PTL DEF Spec, SumsSeeOneTable

-----------------------------------------------------------------------------
(* The contract: every step of the bridge is one of its transactions. *)

TokenInv ==
    /\ Token!TypeOK /\ Token!SupplyAccounted /\ Token!AnnouncedIsBurned
    /\ owner = Deployer

LEMMA TokenKept ==
    ASSUME TokenInv, UNCHANGED token
    PROVE  TokenInv' /\ UNCHANGED Token!vars
BY DEF TokenInv, token, Token!vars, Token!TypeOK, Token!SupplyAccounted, Token!AnnouncedIsBurned

\* Balances stay words when one is debited and one is credited.
LEMMA BalancesTyped ==
    ASSUME NEW b \in [Account -> Token!Word], NEW a \in Account, NEW n \in Nat
    PROVE  /\ n <= b[a] => [b EXCEPT ![a] = @ - n] \in [Account -> Token!Word]
           /\ Token!credit(b, a, n) => balances' \in [Account -> Token!Word]
BY WordAssumption DEF Token!Word, Token!credit

LEMMA MoveToken ==
    ASSUME TokenInv, NEW by \in Account, NEW to \in Account, NEW n \in Size, Move(by, to, n)
    PROVE  TokenInv' /\ Token!Next
<1>1. n \in Token!Word /\ n \in Nat
  BY SizeAssumption, WordAssumption DEF Token!Word
<1>2. Token!Transfer(by, to, n) /\ sender' = by
  BY DEF Move
<1>3. balances' \in [Account -> Token!Word]
  <2>1. balances \in [Account -> Token!Word]
    BY DEF TokenInv, Token!TypeOK
  <2> DEFINE b == [balances EXCEPT ![by] = @ - n]
  <2>2. b \in [Account -> Token!Word]
    BY <1>1, <1>2, <2>1, BalancesTyped DEF Token!Transfer, Token!_transfer
  <2>3. Token!credit(b, to, n)
    BY <1>2 DEF Token!Transfer, Token!_transfer
  <2> HIDE DEF b
  <2> QED
    BY <1>1, <2>2, <2>3, BalancesTyped
<1>4. TokenInv'
  BY <1>2, <1>3 DEF TokenInv, Token!TypeOK, Token!SupplyAccounted, Token!AnnouncedIsBurned,
     Token!Transfer, Token!unchangedSupply
<1> QED
  BY <1>1, <1>2, <1>4 DEF Token!Next, Token!Tx

LEMMA BurnToken ==
    ASSUME TokenInv, NEW by \in Account, NEW n \in Size, sender' = by,
           Token!burn(by, n), allowances' = allowances, announced' \in {announced, announced + n}
    PROVE  TokenInv'
<1>1. n \in Nat
  BY SizeAssumption, WordAssumption
<1>2. balances' \in [Account -> Token!Word]
  BY <1>1, BalancesTyped DEF Token!burn, Token!_burn, TokenInv, Token!TypeOK
<1>3. totalSupply' \in Token!Word /\ burnedAmount' \in Token!Word /\ announced' \in Nat
  BY <1>1, WordAssumption DEF Token!burn, Token!_burn, TokenInv, Token!TypeOK, Token!Word
<1>4. Token!SupplyAccounted' /\ Token!AnnouncedIsBurned'
  BY <1>1, WordAssumption DEF Token!burn, Token!_burn, TokenInv, Token!TypeOK, Token!Word,
     Token!SupplyAccounted, Token!AnnouncedIsBurned
<1> QED
  BY <1>2, <1>3, <1>4 DEF TokenInv, Token!TypeOK, Token!burn

LEMMA RedeemToken ==
    ASSUME TokenInv, NEW by \in Account, NEW n \in Size, Redeem(by, n) \/ Destroy(by, n)
    PROVE  TokenInv' /\ Token!Next
<1>1. n \in Token!Word
  BY SizeAssumption, WordAssumption DEF Token!Word
<1>2. sender' = by /\ (Token!eth2safe(by, n) \/ Token!Burn(by, n))
  BY DEF Redeem, Destroy
<1>3. TokenInv'
  BY <1>2, BurnToken DEF Token!eth2safe, Token!Burn
<1> QED
  BY <1>1, <1>2, <1>3 DEF Token!Next, Token!Tx

\* The gateway mints to an account the depositor named, within the cap.
LEMMA MintToken ==
    ASSUME IInv, TokenInv, NEW a \in mintOpen \cup mintDoubtful, Mint(a)
    PROVE  TokenInv' /\ Token!Next /\ minted' = minted + Stored(Amount[a[1]])
<1> DEFINE d == a[1]
<1>1. PICK value : value = Stored(Amount[d])
  OBVIOUS
<1>2. d \in Deposit /\ EthAddress[d] \in Account /\ value \in Nat /\ TxFee \in Nat
  <2>1. d \in Deposit
    BY DEF IInv, BooksTyped
  <2>2. Amount[d] \in Nat /\ EthAddress[d] \in Account
    BY <2>1, DepositAssumption
  <2> QED
    BY <1>1, <2>1, <2>2, StoredError, FeeAssumption
<1> DEFINE to == EthAddress[d]
<1>3. Token!safe2eth(owner, to, value, TxFee) /\ sender' = owner /\ owner \in Account
  BY <1>1, AccountAssumption DEF Mint, TokenInv
<1> HIDE DEF to
<1>4. /\ totalSupply' = totalSupply + value /\ totalSupply + value <= Cap /\ TxFee <= value
      /\ minted' = minted + value /\ UNCHANGED <<allowances, burnedAmount, owner, announced>>
  BY <1>3 DEF Token!safe2eth, Token!MayMint
<1>5. totalSupply \in Nat /\ totalSupply <= MaxUint /\ minted \in Nat
  BY DEF TokenInv, Token!TypeOK, Token!Word
<1>6. value \in Token!Word /\ TxFee \in Token!Word /\ totalSupply' \in Token!Word /\ minted' \in Nat
  BY <1>2, <1>4, <1>5, WordAssumption DEF Token!Word
<1>7. balances' \in [Account -> Token!Word]
  <2>1. balances \in [Account -> Token!Word] /\ to \in Account
    BY <1>2 DEF TokenInv, Token!TypeOK, to
  <2> DEFINE b == [balances EXCEPT ![to] = @ + (value - TxFee)]
  <2>2. Token!credit(b, owner, TxFee) /\ balances[to] + (value - TxFee) <= MaxUint
    BY <1>3 DEF Token!safe2eth
  <2>3. b \in [Account -> Token!Word]
    <3>1. value - TxFee \in Nat
      BY <1>2, <1>4
    <3>2. balances[to] \in Nat
      BY <2>1 DEF Token!Word
    <3>3. balances[to] + (value - TxFee) \in Token!Word
      BY <2>2, <3>1, <3>2, WordAssumption DEF Token!Word
    <3> QED
      BY <2>1, <3>3
  <2> HIDE DEF b
  <2> QED
    BY <1>2, <1>3, <2>2, <2>3, BalancesTyped
<1>8. Token!SupplyAccounted' /\ Token!AnnouncedIsBurned'
  BY <1>2, <1>4, <1>5 DEF TokenInv, Token!SupplyAccounted, Token!AnnouncedIsBurned, Token!TypeOK, Token!Word
<1>9. TokenInv'
  BY <1>3, <1>4, <1>6, <1>7, <1>8 DEF TokenInv, Token!TypeOK
<1>10. Token!Next
  <2>1. to \in Account
    BY <1>2 DEF to
  <2> QED
    BY <1>3, <1>6, <2>1 DEF Token!Next, Token!Tx
<1> QED
  BY <1>1, <1>4, <1>9, <1>10

LEMMA TokenStep ==
    ASSUME IInv, TokenInv, [Next]_vars
    PROVE  TokenInv' /\ [Token!Next]_(Token!vars)
<1>1. CASE UNCHANGED token
  BY <1>1, TokenKept
<1>2. CASE Users
  BY <1>1, <1>2, MoveToken, RedeemToken DEF Users, Arrive
<1>3. CASE Relays
  BY <1>1, <1>3, MintToken DEF Relays, RecordDeposit, SendMint, LoseMint, StoreMint,
     RecordBurn, SendPayout, Pay, LosePayout, StorePayout
<1>4. CASE Finance
  BY <1>1, <1>4 DEF Finance, CheckFinance, ReadWallet, FinanceFails, SumTables, RoundEnds, Restart
<1>5. CASE UNCHANGED vars
  BY <1>1, <1>5 DEF vars
<1> QED
  BY <1>2, <1>3, <1>4, <1>5 DEF Next

LEMMA TokenStart == Init => TokenInv
<1> SUFFICES ASSUME Init PROVE TokenInv
  OBVIOUS
<1> QED
  BY AccountAssumption, WordAssumption DEF Init, Token!Init, TokenInv, Token!TypeOK,
     Token!Word, Token!SupplyAccounted, Token!AnnouncedIsBurned

-----------------------------------------------------------------------------
(* Where rows and attempts come from, and the fees. *)

\* Attempts that moved money or settled belong to rows, and rows to deposits
\* and burns.
Placed ==
    /\ depositRows \subseteq deposited /\ deposited \subseteq Deposit
    /\ IsFiniteSet(deposited) /\ Len(burns) <= MaxBurns
    /\ \A a \in mintEffective \cup mintSettled : a[1] \in depositRows
    /\ \A a \in payEffective \cup paySettled : a[1] \in burnRows

\* Unless its gettransaction failed, the table holds the fee of every settled
\* payment, and of no other.
FeesTracked ==
    /\ fee \in [1..MaxBurns -> Int] /\ feeLost \subseteq burnRows
    /\ \A k \in (1..MaxBurns) \ feeLost :
         fee[k] = IF Tries(paySettled, k) # {} THEN StoredFee ELSE 0

\* The fee as the table keeps it is off by half a grain at most, but for its sign.
LEMMA StoredFeeError ==
    /\ NetFee \in Nat /\ StoredFee \in Int /\ HalfGrain \in Nat
    /\ StoredFee <= HalfGrain - NetFee /\ -NetFee <= StoredFee + HalfGrain
<1>1. NetFee \in Nat
  BY FeeAssumption
<1>2. /\ Stored(NetFee) \in Nat /\ HalfGrain \in Nat
      /\ Stored(NetFee) - NetFee <= HalfGrain /\ NetFee - Stored(NetFee) <= HalfGrain
  BY <1>1, StoredError
<1> QED
  BY <1>1, <1>2 DEF StoredFee

LEMMA PlacedStep == ASSUME IInv, Placed, [Next]_vars PROVE Placed'
<1> USE DEF Placed
<1>1. CASE UNCHANGED <<mints, pays, deposited, burns>>
  BY <1>1 DEF mints, pays
<1>2. ASSUME NEW d \in Deposit, Arrive(d) PROVE Placed'
  <2>1. deposited' = deposited \cup {d} /\ UNCHANGED <<mints, pays, burns>>
    BY <1>2 DEF Arrive
  <2>2. IsFiniteSet(deposited')
    BY <2>1, FS_AddElement
  <2> QED
    BY <2>1, <2>2 DEF mints, pays
<1>3. ASSUME NEW by \in Account, NEW n \in Size, Redeem(by, n) PROVE Placed'
  <2>1. UNCHANGED <<mints, pays, deposited>> /\ Len(burns) < MaxBurns /\ burns' = Append(burns, n)
    BY <1>3 DEF Redeem
  <2>2. Len(burns') = Len(burns) + 1 /\ Len(burns) \in Nat
    BY <2>1 DEF IInv, BooksTyped
  <2> QED
    BY <2>1, <2>2, BoundAssumption DEF mints, pays
<1>4. CASE Users
  BY <1>1, <1>2, <1>3, <1>4 DEF Users, Move, Destroy
<1>5. ASSUME NEW d \in Deposit, RecordDeposit(d) \/ SendMint(d) PROVE Placed'
  <2>1. UNCHANGED <<pays, deposited, burns, mintEffective, mintSettled>>
    BY <1>5 DEF RecordDeposit, SendMint, In!File, In!Start
  <2>2. depositRows \subseteq depositRows' /\ depositRows' \subseteq deposited
    BY <1>5 DEF RecordDeposit, SendMint, In!File, In!Start
  <2> QED
    BY <2>1, <2>2 DEF pays
<1>6. ASSUME NEW a \in mintOpen \cup mintDoubtful, Mint(a) PROVE Placed'
  <2>1. UNCHANGED <<pays, deposited, burns, depositRows, mintSettled>> /\ mintEffective' = mintEffective \cup {a}
    BY <1>6 DEF Mint, In!TakeEffect
  <2>2. a[1] \in depositRows
    BY DEF IInv, BooksTyped
  <2> QED
    BY <2>1, <2>2 DEF pays
<1>7. ASSUME NEW a \in mintOpen, LoseMint(a) \/ StoreMint(a) PROVE Placed'
  <2>1. UNCHANGED <<pays, deposited, burns, depositRows, mintEffective>> /\ mintSettled' \subseteq mintSettled \cup {a}
    BY <1>7 DEF LoseMint, StoreMint, In!LoseTrack, In!Settle
  <2>2. a[1] \in depositRows
    BY DEF IInv, BooksTyped
  <2> QED
    BY <2>1, <2>2 DEF pays
<1>8. ASSUME NEW k \in 1..MaxBurns, RecordBurn(k) \/ SendPayout(k) PROVE Placed'
  <2>1. UNCHANGED <<mints, deposited, burns, payEffective, paySettled>> /\ burnRows \subseteq burnRows'
    BY <1>8 DEF RecordBurn, SendPayout, Out!File, Out!Start
  <2> QED
    BY <2>1 DEF mints
<1>9. ASSUME NEW a \in payOpen \cup payDoubtful, Pay(a) PROVE Placed'
  <2>1. UNCHANGED <<mints, deposited, burns, burnRows, paySettled>> /\ payEffective' = payEffective \cup {a}
    BY <1>9 DEF Pay, Out!TakeEffect
  <2>2. a[1] \in burnRows
    BY DEF IInv, BooksTyped
  <2> QED
    BY <2>1, <2>2 DEF mints
<1>10. ASSUME NEW a \in payOpen, LosePayout(a) \/ StorePayout(a) PROVE Placed'
  <2>1. UNCHANGED <<mints, deposited, burns, burnRows, payEffective>> /\ paySettled' \subseteq paySettled \cup {a}
    BY <1>10 DEF LosePayout, StorePayout, Out!LoseTrack, Out!Settle
  <2>2. a[1] \in burnRows
    BY DEF IInv, BooksTyped
  <2> QED
    BY <2>1, <2>2 DEF mints
<1>11. CASE Relays
  BY <1>5, <1>6, <1>7, <1>8, <1>9, <1>10, <1>11 DEF Relays
<1>12. CASE Finance \/ UNCHANGED vars
  BY <1>1, <1>12 DEF Finance, CheckFinance, ReadWallet, FinanceFails, SumTables, RoundEnds,
     Restart, vars
<1> QED
  BY <1>4, <1>11, <1>12 DEF Next

LEMMA RowsInRange == ASSUME IInv, Placed PROVE burnRows \subseteq 1..MaxBurns /\ IsFiniteSet(burnRows)
<1>1. PICK n : n = Len(burns)
  OBVIOUS
<1>2. n \in Nat /\ n <= MaxBurns /\ burnRows \subseteq 1..n
  BY <1>1 DEF IInv, BooksTyped, Placed
<1>3. IsFiniteSet(1..n)
  BY <1>2, FS_Interval
<1>4. IsFiniteSet(burnRows)
  BY <1>2, <1>3, FS_Subset
<1> QED
  BY <1>2, <1>4, BoundAssumption

LEMMA FeesStep == ASSUME IInv, Placed, FeesTracked, [Next]_vars PROVE FeesTracked'
<1> USE DEF FeesTracked
<1>1. ASSUME UNCHANGED <<fee, feeLost, paySettled>>, burnRows \subseteq burnRows'
      PROVE  FeesTracked'
  BY <1>1 DEF Tries
<1>2. ASSUME NEW a \in payOpen, StorePayout(a) PROVE FeesTracked'
  <2>1. a[1] \in burnRows /\ burnRows' = burnRows /\ paySettled' = paySettled \cup {a}
    BY <1>2 DEF StorePayout, Out!Settle, IInv, BooksTyped
  <2>2. a[1] \in 1..MaxBurns
    BY <2>1, RowsInRange
  <2>3. /\ Tries(paySettled', a[1]) # {}
        /\ \A k \in 1..MaxBurns : k # a[1] => Tries(paySettled', k) = Tries(paySettled, k)
    BY <2>1 DEF Tries
  <2>4. CASE fee' = [fee EXCEPT ![a[1]] = StoredFee] /\ UNCHANGED feeLost
    BY <2>1, <2>2, <2>3, <2>4, StoredFeeError
  <2>5. CASE /\ \E junk \in Junk : fee' = [fee EXCEPT ![a[1]] = junk]
             /\ feeLost' = feeLost \cup {a[1]}
    BY <2>1, <2>2, <2>3, <2>5, FeeAssumption
  <2> QED
    BY <1>2, <2>4, <2>5 DEF StorePayout
<1>3. CASE Users
  BY <1>1, <1>3 DEF Users, Arrive, Move, Redeem, Destroy, pays
<1>4. CASE Relays
  <2>1. CASE \E k \in 1..MaxBurns : RecordBurn(k) \/ SendPayout(k)
    BY <1>1, <2>1 DEF RecordBurn, SendPayout, Out!File, Out!Start
  <2>2. CASE \E a \in payOpen \cup payDoubtful : Pay(a)
    BY <1>1, <2>2 DEF Pay, Out!TakeEffect
  <2>3. CASE \E a \in payOpen : LosePayout(a)
    BY <1>1, <2>3 DEF LosePayout, Out!LoseTrack
  <2>4. CASE UNCHANGED <<pays, fee, feeLost>>
    BY <1>1, <2>4 DEF pays
  <2> QED
    BY <1>2, <1>4, <2>1, <2>2, <2>3, <2>4 DEF Relays, RecordDeposit, SendMint, Mint, LoseMint, StoreMint
<1>5. CASE Finance \/ UNCHANGED vars
  BY <1>1, <1>5 DEF Finance, CheckFinance, ReadWallet, FinanceFails, SumTables, RoundEnds,
     Restart, vars, pays
<1> QED
  BY <1>3, <1>4, <1>5 DEF Next

LEMMA PlacedStart == Init => Placed /\ FeesTracked
<1> SUFFICES ASSUME Init PROVE Placed /\ FeesTracked
  OBVIOUS
<1>1. Len(burns) = 0 /\ IsFiniteSet(deposited)
  BY FS_EmptySet DEF Init
<1> QED
  BY <1>1, BoundAssumption DEF Init, In!Init, Out!Init, Placed, FeesTracked, Tries

-----------------------------------------------------------------------------
(* The books against the claims: an invariant with sums. *)

MintedOnes == {d \in deposited : Minted(d)}
PaidOnes == {k \in DOMAIN burns : Paid(k)}
NetFees == [k \in 1..MaxBurns |-> NetFee]

\* The tokens ever minted are the recorded amounts of the deposits minted
\* for, and no less; more only where the outcome of a mint is in doubt.
SupplyTracked ==
    LET least == SumFunctionOnSet(DepositAmount, MintedOnes) IN
    /\ least <= minted
    /\ mintDoubtful = {} => minted = least
    /\ announced = SumFunctionOnSet(burns, DOMAIN burns)

\* What is left in the wallet of the deposits is at most what the burns paid
\* leave of them, and less only where the outcome of a payment is in doubt.
ReserveTracked ==
    LET most == SumFunctionOnSet(Amount, deposited) - SumFunctionOnSet(BurnAmount, PaidOnes)
                  - SumFunctionOnSet(NetFees, PaidOnes) IN
    /\ reserve <= most
    /\ payDoubtful = {} => reserve = most

Claims ==
    /\ BooksAreSums /\ SupplyTracked /\ ReserveTracked
    /\ books["doubled"] >= 0 /\ books["fees"] >= 0

\* The facts about the claims that every step below needs.
LEMMA ClaimFacts ==
    ASSUME IInv, Placed
    PROVE  /\ IsFiniteSet(deposited) /\ IsFiniteSet(MintedOnes) /\ IsFiniteSet(Unminted)
           /\ DOMAIN burns = 1..Len(burns) /\ Len(burns) \in Nat /\ IsFiniteSet(DOMAIN burns)
           /\ DOMAIN burns \subseteq 1..MaxBurns
           /\ IsFiniteSet(PaidOnes) /\ IsFiniteSet(Unpaid)
           /\ \A d \in Deposit : /\ Amount[d] \in Nat /\ DepositAmount[d] \in Nat
                                 /\ DepositAmount[d] = Stored(Amount[d])
           /\ \A k \in DOMAIN burns : /\ burns[k] \in Nat /\ BurnAmount[k] \in Nat
                                      /\ BurnAmount[k] = Stored(burns[k]) /\ NetFees[k] = NetFee
           /\ deposited \subseteq Deposit /\ MintedOnes \subseteq depositRows
           /\ PaidOnes \subseteq burnRows /\ burnRows \subseteq DOMAIN burns
<1>1. IsFiniteSet(deposited) /\ deposited \subseteq Deposit
  BY DEF Placed
<1>2. IsFiniteSet(MintedOnes) /\ IsFiniteSet(Unminted)
  BY <1>1, FS_Subset DEF MintedOnes, Unminted
<1>3. DOMAIN burns = 1..Len(burns) /\ Len(burns) \in Nat /\ Len(burns) <= MaxBurns
  BY DEF IInv, BooksTyped, Placed
<1>4. IsFiniteSet(DOMAIN burns) /\ DOMAIN burns \subseteq 1..MaxBurns
  <2>1. IsFiniteSet(1..Len(burns))
    BY <1>3, FS_Interval
  <2> QED
    BY <1>3, <2>1, BoundAssumption
<1>5. IsFiniteSet(PaidOnes) /\ IsFiniteSet(Unpaid)
  BY <1>4, FS_Subset DEF PaidOnes, Unpaid
<1>6. ASSUME NEW d \in Deposit
      PROVE  Amount[d] \in Nat /\ DepositAmount[d] \in Nat /\ DepositAmount[d] = Stored(Amount[d])
  BY DepositAssumption, StoredError DEF DepositAmount
<1>7. ASSUME NEW k \in DOMAIN burns
      PROVE  /\ burns[k] \in Nat /\ BurnAmount[k] \in Nat /\ BurnAmount[k] = Stored(burns[k])
             /\ NetFees[k] = NetFee
  <2>1. burns[k] \in Nat
    <3>1. burns \in Seq(1..MaxUint) /\ k \in 1..Len(burns)
      BY <1>3 DEF IInv, BooksTyped
    <3>2. burns[k] \in 1..MaxUint
      BY <3>1, ElementOfSeq
    <3> QED
      BY <3>2
  <2>2. Stored(burns[k]) \in Nat
    BY <2>1, StoredError
  <2> QED
    BY <1>4, <2>1, <2>2 DEF BurnAmount, NetFees
<1>8. MintedOnes \subseteq depositRows
  BY DEF MintedOnes, Minted, Tries, Placed
<1>9. PaidOnes \subseteq burnRows /\ burnRows \subseteq DOMAIN burns
  BY <1>3 DEF PaidOnes, Paid, Tries, Placed, IInv, BooksTyped
<1> QED
  BY <1>1, <1>2, <1>3, <1>4, <1>5, <1>6, <1>7, <1>8, <1>9

\* The sums are integers.
LEMMA SumsAreInt ==
    ASSUME IInv, Placed
    PROVE  /\ SumFunctionOnSet(Amount, deposited) \in Int
           /\ SumFunctionOnSet(Amount, Unminted) \in Int
           /\ SumFunctionOnSet(DepositAmount, MintedOnes) \in Int
           /\ SumFunctionOnSet(burns, DOMAIN burns) \in Int
           /\ SumFunctionOnSet(burns, Unpaid) \in Int
           /\ SumFunctionOnSet(BurnAmount, PaidOnes) \in Int
           /\ SumFunctionOnSet(NetFees, PaidOnes) \in Int
<1> USE ClaimFacts
<1>1. Unminted \subseteq Deposit /\ MintedOnes \subseteq Deposit
  BY DEF Unminted, MintedOnes
<1>2. Unpaid \subseteq DOMAIN burns /\ PaidOnes \subseteq DOMAIN burns
  BY DEF Unpaid, PaidOnes
<1>3. \A d \in Deposit : Amount[d] \in Int /\ DepositAmount[d] \in Int
  OBVIOUS
<1>4. \A k \in DOMAIN burns : burns[k] \in Int /\ BurnAmount[k] \in Int /\ NetFees[k] \in Int
  BY FeeAssumption
<1>5. SumFunctionOnSet(Amount, deposited) \in Int /\ SumFunctionOnSet(Amount, Unminted) \in Int
  BY <1>1, <1>3, SumInt
<1>6. SumFunctionOnSet(DepositAmount, MintedOnes) \in Int
  BY <1>1, <1>3, SumInt
<1>7. SumFunctionOnSet(burns, DOMAIN burns) \in Int /\ SumFunctionOnSet(burns, Unpaid) \in Int
  BY <1>2, <1>4, SumInt
<1>8. SumFunctionOnSet(BurnAmount, PaidOnes) \in Int /\ SumFunctionOnSet(NetFees, PaidOnes) \in Int
  BY <1>2, <1>4, SumInt
<1> QED
  BY <1>5, <1>6, <1>7, <1>8

\* A step that moves no value keeps the sums.
LEMMA ClaimsKept ==
    ASSUME Claims, mintDoubtful \subseteq mintDoubtful', payDoubtful \subseteq payDoubtful',
           UNCHANGED <<deposited, burns, mintEffective, payEffective, reserve, books,
                       minted, announced, burnedAmount>>
    PROVE  Claims'
<1>1. UNCHANGED <<Unminted, MintedOnes, Unpaid, PaidOnes, BurnAmount>>
  BY DEF Unminted, MintedOnes, Minted, Unpaid, PaidOnes, Paid, Tries, BurnAmount
<1>2. BooksAreSums'
  BY <1>1 DEF Claims, BooksAreSums
<1>3. SupplyTracked'
  BY <1>1 DEF Claims, SupplyTracked
<1>4. ReserveTracked'
  BY <1>1 DEF Claims, ReserveTracked
<1> QED
  BY <1>2, <1>3, <1>4 DEF Claims

\* The steps that move value, each with what it adds to or takes from a sum.
LEMMA ArriveClaims ==
    ASSUME IInv, Placed, Claims, NEW d \in Deposit, Arrive(d)
    PROVE  Claims'
<1> USE ClaimFacts, SumsAreInt
<1>1. PICK n : n = Amount[d]
  OBVIOUS
<1>2. n \in Nat
  BY <1>1
<1>3. /\ d \notin deposited /\ deposited' = deposited \cup {d} /\ reserve' = reserve + n
      /\ books' = [books EXCEPT !["unminted"] = @ + n]
      /\ UNCHANGED <<token, mints, pays, burns>>
  BY <1>1 DEF Arrive
<1>4. /\ books'["unminted"] = books["unminted"] + n /\ books'["unpaid"] = books["unpaid"]
      /\ books'["silent"] = books["silent"] /\ books'["doubled"] = books["doubled"]
      /\ books'["fees"] = books["fees"]
  BY <1>2, <1>3, BooksAreTotals, Names
<1>5. ~Minted(d) /\ \A e : Minted(e)' <=> Minted(e)
  BY <1>3 DEF Minted, Tries, Placed, mints
<1>6. /\ Unminted' = Unminted \cup {d} /\ d \notin Unminted /\ MintedOnes' = MintedOnes
      /\ UNCHANGED <<Unpaid, PaidOnes, BurnAmount>>
  BY <1>3, <1>5 DEF Unminted, MintedOnes, Unpaid, PaidOnes, BurnAmount, Paid, Tries, pays
<1>7. /\ SumFunctionOnSet(Amount, Unminted') = SumFunctionOnSet(Amount, Unminted) + n
      /\ SumFunctionOnSet(Amount, deposited') = SumFunctionOnSet(Amount, deposited) + n
  <2>1. Amount[d] \in Int /\ \A e \in deposited : Amount[e] \in Int
    OBVIOUS
  <2>2. Unminted \subseteq deposited
    BY DEF Unminted
  <2> QED
    BY <1>1, <1>3, <1>6, <2>1, <2>2, SumAdd
<1>8. BooksAreSums'
  BY <1>3, <1>4, <1>6, <1>7 DEF Claims, BooksAreSums, token
<1>9. SupplyTracked'
  BY <1>3, <1>6 DEF Claims, SupplyTracked, token, mints
<1>10. ReserveTracked'
  <2> DEFINE in == SumFunctionOnSet(Amount, deposited)
             out == SumFunctionOnSet(BurnAmount, PaidOnes)
             f == SumFunctionOnSet(NetFees, PaidOnes)
  <2>1. reserve \in Int /\ in \in Int /\ out \in Int /\ f \in Int /\ n \in Int
    BY <1>2, EntriesAreInt
  <2>2. reserve <= in - out - f /\ (payDoubtful = {} => reserve = in - out - f)
    BY DEF Claims, ReserveTracked
  <2>3. /\ SumFunctionOnSet(Amount, deposited') = in + n
        /\ SumFunctionOnSet(BurnAmount', PaidOnes') = out
        /\ SumFunctionOnSet(NetFees, PaidOnes') = f
    BY <1>6, <1>7
  <2>4. reserve' = reserve + n /\ payDoubtful' = payDoubtful
    BY <1>3 DEF pays
  <2> HIDE DEF in, out, f
  <2>5. /\ reserve' <= (in + n) - out - f
        /\ payDoubtful' = {} => reserve' = (in + n) - out - f
    BY ONLY <2>1, <2>2, <2>4
  <2> QED
    BY <2>3, <2>5 DEF ReserveTracked
<1> QED
  BY <1>4, <1>8, <1>9, <1>10 DEF Claims

LEMMA RedeemClaims ==
    ASSUME IInv, Placed, TokenInv, Claims, NEW by \in Account, NEW n \in Size, Redeem(by, n)
    PROVE  Claims'
<1> USE ClaimFacts, SumsAreInt
<1> DEFINE k == Len(burns) + 1
<1>1. n \in 1..MaxUint /\ n \in Nat
  BY SizeAssumption
<1>2. /\ burns' = Append(burns, n) /\ books' = [books EXCEPT !["unpaid"] = @ + n]
      /\ announced' = announced + n /\ burnedAmount' = burnedAmount + n
      /\ UNCHANGED <<minted, deposited, reserve, mints, pays>>
  BY DEF Redeem, Token!eth2safe, Token!burn, Token!_burn
<1>3. /\ books'["unpaid"] = books["unpaid"] + n /\ books'["unminted"] = books["unminted"]
      /\ books'["silent"] = books["silent"] /\ books'["doubled"] = books["doubled"]
      /\ books'["fees"] = books["fees"]
  BY <1>1, <1>2, BooksAreTotals, Names
<1>4. /\ DOMAIN burns' = DOMAIN burns \cup {k} /\ k \notin DOMAIN burns
      /\ burns'[k] = n /\ \A i \in DOMAIN burns : burns'[i] = burns[i]
  <2>1. burns \in Seq(1..MaxUint)
    BY DEF IInv, BooksTyped
  <2>2. Len(burns') = Len(burns) + 1 /\ burns' \in Seq(1..MaxUint)
    BY <1>1, <1>2, <2>1
  <2>3. DOMAIN burns' = 1..(Len(burns) + 1)
    BY <2>2
  <2> QED
    BY <1>1, <1>2, <2>1, <2>3
<1>5. ~Paid(k) /\ \A i : Paid(i)' <=> Paid(i)
  BY <1>2, <1>4 DEF Paid, Tries, pays, PaidOnes, Placed
<1>6. /\ Unpaid' = Unpaid \cup {k} /\ k \notin Unpaid /\ PaidOnes' = PaidOnes
      /\ UNCHANGED <<Unminted, MintedOnes>>
  BY <1>2, <1>4, <1>5 DEF Unpaid, PaidOnes, Unminted, MintedOnes, Minted, Tries, mints
<1> HIDE DEF k
<1>7. SumFunctionOnSet(burns', Unpaid') = SumFunctionOnSet(burns, Unpaid) + n
  <2>1. Unpaid \subseteq DOMAIN burns
    BY DEF Unpaid
  <2>2. SumFunctionOnSet(burns', Unpaid) = SumFunctionOnSet(burns, Unpaid)
    BY <1>4, <2>1, SumSame
  <2>3. SumFunctionOnSet(burns', Unpaid \cup {k}) = SumFunctionOnSet(burns', Unpaid) + burns'[k]
    <3>1. burns'[k] \in Int /\ \A i \in Unpaid : burns'[i] \in Int
      BY <1>1, <1>4, <2>1
    <3> QED
      BY <1>6, <3>1, SumAdd
  <2> QED
    BY <1>4, <1>6, <2>2, <2>3
<1>8. SumFunctionOnSet(burns', DOMAIN burns') = SumFunctionOnSet(burns, DOMAIN burns) + n
  <2>1. SumFunctionOnSet(burns', DOMAIN burns) = SumFunctionOnSet(burns, DOMAIN burns)
    BY <1>4, SumSame
  <2>2. SumFunctionOnSet(burns', DOMAIN burns \cup {k})
          = SumFunctionOnSet(burns', DOMAIN burns) + burns'[k]
    <3>1. burns'[k] \in Int /\ \A i \in DOMAIN burns : burns'[i] \in Int
      BY <1>1, <1>4
    <3> QED
      BY <1>4, <3>1, SumAdd
  <2> QED
    BY <1>4, <2>1, <2>2
<1>9. SumFunctionOnSet(BurnAmount', PaidOnes') = SumFunctionOnSet(BurnAmount, PaidOnes)
  <2>1. PaidOnes \subseteq DOMAIN burns
    BY DEF PaidOnes
  <2>2. \A i \in PaidOnes : BurnAmount'[i] = BurnAmount[i]
    BY <1>4, <2>1 DEF BurnAmount
  <2> QED
    BY <1>6, <2>2, SumSame
<1>10. BooksAreSums'
  <2>1. announced \in Int /\ burnedAmount \in Int
    BY DEF TokenInv, Token!TypeOK, Token!Word
  <2> QED
    BY <1>1, <1>2, <1>3, <1>6, <1>7, <2>1 DEF Claims, BooksAreSums
<1>11. SupplyTracked'
  BY <1>2, <1>6, <1>8 DEF Claims, SupplyTracked, mints
<1>12. ReserveTracked'
  BY <1>2, <1>6, <1>9 DEF Claims, ReserveTracked, pays
<1> QED
  BY <1>3, <1>10, <1>11, <1>12 DEF Claims

LEMMA DestroyClaims ==
    ASSUME IInv, Placed, TokenInv, Claims, NEW by \in Account, NEW n \in Size, Destroy(by, n)
    PROVE  Claims'
<1>1. n \in Nat
  BY SizeAssumption
<1>2. /\ books' = [books EXCEPT !["silent"] = @ + n] /\ burnedAmount' = burnedAmount + n
      /\ UNCHANGED <<minted, announced, burns, deposited, reserve, mints, pays>>
  BY DEF Destroy, Token!Burn, Token!burn, Token!_burn
<1>3. /\ books'["silent"] = books["silent"] + n /\ books'["unminted"] = books["unminted"]
      /\ books'["unpaid"] = books["unpaid"] /\ books'["doubled"] = books["doubled"]
      /\ books'["fees"] = books["fees"]
  BY <1>1, <1>2, BooksAreTotals, Names
<1>4. UNCHANGED <<Unminted, MintedOnes, Unpaid, PaidOnes, BurnAmount>>
  BY <1>2 DEF Unminted, MintedOnes, Minted, Unpaid, PaidOnes, Paid, Tries, BurnAmount, mints, pays
<1>5. BooksAreSums'
  <2>1. announced \in Int /\ burnedAmount \in Int
    BY DEF TokenInv, Token!TypeOK, Token!Word
  <2> QED
    BY <1>1, <1>2, <1>3, <1>4, <2>1 DEF Claims, BooksAreSums
<1>6. SupplyTracked' /\ ReserveTracked'
  BY <1>2, <1>4 DEF Claims, SupplyTracked, ReserveTracked, mints, pays
<1> QED
  BY <1>3, <1>5, <1>6 DEF Claims

LEMMA MintClaims ==
    ASSUME IInv, Placed, TokenInv, Claims, NEW a \in mintOpen \cup mintDoubtful, Mint(a)
    PROVE  Claims'
<1> USE ClaimFacts, SumsAreInt
<1>1. PICK d : d = a[1]
  OBVIOUS
<1>2. PICK n : n = Amount[d]
  OBVIOUS
<1>3. PICK s : s = Stored(n)
  OBVIOUS
<1>4. /\ d \in depositRows /\ d \in deposited /\ d \in Deposit /\ n \in Nat /\ s \in Nat
      /\ DepositAmount[d] = s
  <2>1. d \in depositRows /\ d \in deposited /\ d \in Deposit
    BY <1>1 DEF IInv, BooksTyped, Placed
  <2> QED
    BY <1>2, <1>3, <2>1
<1>5. /\ minted' = minted + s /\ a \notin mintEffective /\ mintEffective' = mintEffective \cup {a}
      /\ UNCHANGED <<announced, burnedAmount, burns, deposited, reserve, mintDoubtful, pays>>
  BY <1>1, <1>2, <1>3, MintToken DEF Mint, In!TakeEffect, Token!safe2eth
<1>6. minted \in Int /\ UNCHANGED <<Unpaid, PaidOnes, BurnAmount>>
  BY <1>5 DEF TokenInv, Token!TypeOK, Unpaid, PaidOnes, Paid, Tries, BurnAmount, pays
<1>7. Minted(d)' /\ \A e : e # d => (Minted(e)' <=> Minted(e))
  BY <1>1, <1>5 DEF Minted, Tries
<1>8. CASE ~Minted(d)
  <2>1. books' = [books EXCEPT !["unminted"] = @ - n, !["drift"] = @ + s - n,
                               !["rounded"] = @ + 1]
    BY <1>1, <1>2, <1>3, <1>8 DEF Mint, Booked, Minted
  <2>2. /\ books'["unminted"] = books["unminted"] - n /\ books'["unpaid"] = books["unpaid"]
        /\ books'["silent"] = books["silent"] /\ books'["doubled"] = books["doubled"]
        /\ books'["fees"] = books["fees"]
    BY <1>4, <2>1, BooksAreTotals, Names
  <2>3. /\ Unminted' = Unminted \ {d} /\ d \in Unminted
        /\ MintedOnes' = MintedOnes \cup {d} /\ d \notin MintedOnes
    BY <1>4, <1>5, <1>7, <1>8 DEF Unminted, MintedOnes
  <2>4. SumFunctionOnSet(Amount, Unminted) = n + SumFunctionOnSet(Amount, Unminted')
    <3>1. \A e \in Unminted : Amount[e] \in Int
      BY DEF Unminted
    <3> QED
      BY <1>2, <2>3, <3>1, SumRemove
  <2>5. SumFunctionOnSet(DepositAmount, MintedOnes') = SumFunctionOnSet(DepositAmount, MintedOnes) + s
    <3>1. DepositAmount[d] \in Int /\ \A e \in MintedOnes : DepositAmount[e] \in Int
      BY <1>4 DEF MintedOnes
    <3> QED
      BY <1>4, <2>3, <3>1, SumAdd
  <2>6. SumFunctionOnSet(Amount, Unminted') \in Int
    <3>1. IsFiniteSet(Unminted') /\ \A e \in Unminted' : Amount[e] \in Int
      BY <2>3, FS_Subset DEF Unminted
    <3> QED
      BY <3>1, SumInt
  <2>7. BooksAreSums'
    BY <1>4, <1>5, <1>6, <2>2, <2>4, <2>6 DEF Claims, BooksAreSums
  <2>8. SupplyTracked'
    BY <1>4, <1>5, <1>6, <2>5 DEF Claims, SupplyTracked
  <2>9. ReserveTracked'
    BY <1>5, <1>6 DEF Claims, ReserveTracked, pays
  <2> QED
    BY <2>2, <2>7, <2>8, <2>9 DEF Claims
<1>9. CASE Minted(d)
  <2>1. books' = [books EXCEPT !["doubled"] = @ + s]
    BY <1>1, <1>2, <1>3, <1>9 DEF Mint, Booked, Minted
  <2>2. /\ books'["unminted"] = books["unminted"] /\ books'["unpaid"] = books["unpaid"]
        /\ books'["silent"] = books["silent"] /\ books'["doubled"] = books["doubled"] + s
        /\ books'["fees"] = books["fees"]
    BY <1>4, <2>1, BooksAreTotals, Names
  <2>3. Unminted' = Unminted /\ MintedOnes' = MintedOnes
    BY <1>5, <1>7, <1>9 DEF Unminted, MintedOnes
  <2>4. mintDoubtful # {}
    <3>1. PICK b \in mintEffective : b[1] = a[1]
      BY <1>1, <1>9 DEF Minted, Tries
    <3> QED
      BY <1>5, <3>1 DEF IInv, In!IInv
  <2>5. BooksAreSums'
    BY <1>5, <1>6, <2>2, <2>3 DEF Claims, BooksAreSums
  <2>6. SupplyTracked'
    BY <1>4, <1>5, <1>6, <2>3, <2>4 DEF Claims, SupplyTracked
  <2>7. ReserveTracked'
    BY <1>5, <1>6 DEF Claims, ReserveTracked, pays
  <2>8. books'["doubled"] >= 0
    <3>1. books["doubled"] \in Int /\ books["doubled"] >= 0 /\ s \in Nat
      BY <1>4, EntriesAreInt DEF Claims
    <3> QED
      BY ONLY <2>2, <3>1
  <2> QED
    BY <2>2, <2>5, <2>6, <2>7, <2>8 DEF Claims
<1> QED
  BY <1>8, <1>9

LEMMA PayClaims ==
    ASSUME IInv, Placed, Claims, NEW a \in payOpen \cup payDoubtful, Pay(a)
    PROVE  Claims'
<1> USE ClaimFacts, SumsAreInt
<1>1. PICK k : k = a[1]
  OBVIOUS
<1>2. PICK n : n = burns[k]
  OBVIOUS
<1>3. PICK s : s = Stored(n)
  OBVIOUS
<1>4. k \in DOMAIN burns /\ n \in Nat /\ s \in Nat /\ BurnAmount[k] = s /\ NetFees[k] = NetFee
  <2>1. k \in DOMAIN burns
    BY <1>1 DEF IInv, BooksTyped
  <2> QED
    BY <1>2, <1>3, <2>1
<1>5. /\ reserve' = reserve - s - NetFee /\ a \notin payEffective /\ payEffective' = payEffective \cup {a}
      /\ UNCHANGED <<minted, announced, burnedAmount, burns, deposited, payDoubtful, mints>>
  BY <1>1, <1>2, <1>3 DEF Pay, Out!TakeEffect, token
<1>6. reserve \in Int /\ NetFee \in Nat /\ UNCHANGED <<Unminted, MintedOnes, BurnAmount>>
  BY <1>5, EntriesAreInt, FeeAssumption DEF Unminted, MintedOnes, Minted, Tries, BurnAmount, mints
<1>7. Paid(k)' /\ \A i : i # k => (Paid(i)' <=> Paid(i))
  BY <1>1, <1>5 DEF Paid, Tries
<1>8. CASE ~Paid(k)
  <2>1. books' = [books EXCEPT !["unpaid"] = @ - n, !["drift"] = @ + s - n,
                               !["rounded"] = @ + 1, !["fees"] = @ + NetFee]
    BY <1>1, <1>2, <1>3, <1>8, BooksAreTotals DEF Pay, Booked, Paid
  <2>2. /\ books'["unpaid"] = books["unpaid"] - n /\ books'["unminted"] = books["unminted"]
        /\ books'["silent"] = books["silent"] /\ books'["doubled"] = books["doubled"]
        /\ books'["fees"] = books["fees"] + NetFee
    BY <1>4, <1>6, <2>1, BooksAreTotals, Names
  <2>3. /\ Unpaid' = Unpaid \ {k} /\ k \in Unpaid
        /\ PaidOnes' = PaidOnes \cup {k} /\ k \notin PaidOnes
    BY <1>4, <1>5, <1>7, <1>8 DEF Unpaid, PaidOnes
  <2>4. SumFunctionOnSet(burns, Unpaid) = n + SumFunctionOnSet(burns, Unpaid')
    <3>1. \A i \in Unpaid : burns[i] \in Int
      BY DEF Unpaid
    <3>2. k \in Unpaid /\ IsFiniteSet(Unpaid)
      BY <2>3
    <3>3. SumFunctionOnSet(burns, Unpaid) = burns[k] + SumFunctionOnSet(burns, Unpaid \ {k})
      BY ONLY <3>1, <3>2, SumRemove
    <3> QED
      BY <1>2, <2>3, <3>3
  <2>5. /\ SumFunctionOnSet(BurnAmount, PaidOnes') = SumFunctionOnSet(BurnAmount, PaidOnes) + s
        /\ SumFunctionOnSet(NetFees, PaidOnes') = SumFunctionOnSet(NetFees, PaidOnes) + NetFee
    <3>1. BurnAmount[k] \in Int /\ \A i \in PaidOnes : BurnAmount[i] \in Int
      BY <1>4 DEF PaidOnes
    <3>2. NetFees[k] \in Int /\ \A i \in PaidOnes : NetFees[i] \in Int
      <4>1. PaidOnes \subseteq DOMAIN burns
        OBVIOUS
      <4> QED
        BY <1>4, <1>6, <4>1
    <3> QED
      BY <1>4, <2>3, <3>1, <3>2, SumAdd
  <2>6. SumFunctionOnSet(burns, Unpaid') \in Int
    <3>1. IsFiniteSet(Unpaid') /\ \A i \in Unpaid' : burns[i] \in Int
      BY <2>3, FS_Subset DEF Unpaid
    <3> QED
      BY <3>1, SumInt
  <2>7. BooksAreSums'
    BY <1>4, <1>5, <1>6, <2>2, <2>4, <2>6 DEF Claims, BooksAreSums
  <2>8. SupplyTracked'
    BY <1>5, <1>6 DEF Claims, SupplyTracked, mints
  <2>9. ReserveTracked'
    <3> DEFINE b == SumFunctionOnSet(BurnAmount, PaidOnes)
               f == SumFunctionOnSet(NetFees, PaidOnes)
               in == SumFunctionOnSet(Amount, deposited)
    <3>1. /\ b \in Int /\ f \in Int /\ in \in Int /\ s \in Int /\ NetFee \in Int
      BY <1>4, <1>6
    <3>2. reserve <= in - b - f /\ (payDoubtful = {} => reserve = in - b - f)
      BY DEF Claims, ReserveTracked
    <3>3. /\ SumFunctionOnSet(BurnAmount', PaidOnes') = b + s
          /\ SumFunctionOnSet(NetFees, PaidOnes') = f + NetFee
          /\ SumFunctionOnSet(Amount, deposited') = in
      BY <1>5, <1>6, <2>5
    <3> HIDE DEF b, f, in
    <3>4. /\ reserve' = reserve - s - NetFee /\ payDoubtful' = payDoubtful
          /\ reserve \in Int /\ NetFee \in Int
      BY <1>5, <1>6
    <3>5. /\ reserve' <= in - (b + s) - (f + NetFee)
          /\ payDoubtful' = {} => reserve' = in - (b + s) - (f + NetFee)
      BY ONLY <3>1, <3>2, <3>4
    <3> QED
      BY <3>3, <3>5 DEF ReserveTracked
  <2>10. books'["fees"] >= 0 /\ books'["doubled"] >= 0
    BY <1>6, <2>2, EntriesAreInt DEF Claims
  <2> QED
    BY <2>7, <2>8, <2>9, <2>10 DEF Claims
<1>9. CASE Paid(k)
  <2>1. books' = [books EXCEPT !["doubled"] = @ + s, !["fees"] = @ + NetFee]
    BY <1>1, <1>2, <1>3, <1>9, BooksAreTotals DEF Pay, Booked, Paid
  <2>2. /\ books'["unminted"] = books["unminted"] /\ books'["unpaid"] = books["unpaid"]
        /\ books'["silent"] = books["silent"] /\ books'["doubled"] = books["doubled"] + s
        /\ books'["fees"] = books["fees"] + NetFee
    BY <1>4, <1>6, <2>1, BooksAreTotals, Names
  <2>3. Unpaid' = Unpaid /\ PaidOnes' = PaidOnes
    BY <1>5, <1>7, <1>9 DEF Unpaid, PaidOnes
  <2>4. payDoubtful # {}
    <3>1. PICK b \in payEffective : b[1] = a[1]
      BY <1>1, <1>9 DEF Paid, Tries
    <3> QED
      BY <1>5, <3>1 DEF IInv, Out!IInv
  <2>5. BooksAreSums'
    BY <1>5, <1>6, <2>2, <2>3 DEF Claims, BooksAreSums
  <2>6. SupplyTracked'
    BY <1>5, <1>6 DEF Claims, SupplyTracked, mints
  <2>7. ReserveTracked'
    <3> DEFINE most == SumFunctionOnSet(Amount, deposited) - SumFunctionOnSet(BurnAmount, PaidOnes)
                         - SumFunctionOnSet(NetFees, PaidOnes)
    <3>1. most \in Int /\ reserve \in Int /\ s \in Nat /\ NetFee \in Nat
      BY <1>4, <1>6
    <3>2. reserve <= most /\ reserve' = reserve - s - NetFee /\ payDoubtful' # {}
      BY <1>5, <2>4 DEF Claims, ReserveTracked
    <3>3. most' = most
      BY <1>5, <1>6, <2>3
    <3> HIDE DEF most
    <3>4. reserve' <= most'
      BY ONLY <3>1, <3>2, <3>3
    <3> QED
      BY <3>2, <3>4 DEF ReserveTracked, most
  <2>8. books'["doubled"] >= 0 /\ books'["fees"] >= 0
    <3>1. /\ books["doubled"] \in Int /\ books["doubled"] >= 0
          /\ books["fees"] \in Int /\ books["fees"] >= 0
      BY EntriesAreInt DEF Claims
    <3>2. s \in Nat /\ NetFee \in Nat
      BY <1>4, <1>6
    <3> QED
      BY ONLY <2>2, <3>1, <3>2
  <2> QED
    BY <2>5, <2>6, <2>7, <2>8 DEF Claims
<1> QED
  BY <1>8, <1>9

LEMMA ClaimsStep ==
    ASSUME IInv, Placed, TokenInv, Claims, [Next]_vars
    PROVE  Claims'
<1>1. ASSUME UNCHANGED <<deposited, burns, mintEffective, payEffective, reserve, books,
                         minted, announced, burnedAmount>>,
             mintDoubtful \subseteq mintDoubtful', payDoubtful \subseteq payDoubtful'
      PROVE  Claims'
  BY <1>1, ClaimsKept
<1>2. ASSUME NEW by \in Account, NEW to \in Account, NEW n \in Size, Move(by, to, n)
      PROVE  Claims'
  BY <1>1, <1>2 DEF Move, Token!Transfer, Token!unchangedSupply, mints, pays
<1>3. CASE Users
  BY <1>2, <1>3, ArriveClaims, RedeemClaims, DestroyClaims DEF Users
<1>4. ASSUME NEW d \in Deposit, RecordDeposit(d) \/ SendMint(d) PROVE Claims'
  BY <1>1, <1>4 DEF RecordDeposit, SendMint, In!File, In!Start, token, pays
<1>5. ASSUME NEW a \in mintOpen, LoseMint(a) \/ StoreMint(a) PROVE Claims'
  BY <1>1, <1>5 DEF LoseMint, StoreMint, In!LoseTrack, In!Settle, token, pays
<1>6. ASSUME NEW k \in 1..MaxBurns, RecordBurn(k) \/ SendPayout(k) PROVE Claims'
  BY <1>1, <1>6 DEF RecordBurn, SendPayout, Out!File, Out!Start, token, mints
<1>7. ASSUME NEW a \in payOpen, LosePayout(a) \/ StorePayout(a) PROVE Claims'
  BY <1>1, <1>7 DEF LosePayout, StorePayout, Out!LoseTrack, Out!Settle, token, mints
<1>8. CASE Relays
  BY <1>4, <1>5, <1>6, <1>7, <1>8, MintClaims, PayClaims DEF Relays
<1>9. CASE Finance \/ UNCHANGED vars
  BY <1>1, <1>9 DEF Finance, CheckFinance, ReadWallet, FinanceFails, SumTables, RoundEnds,
     Restart, vars, token, mints, pays
<1> QED
  BY <1>3, <1>8, <1>9 DEF Next

LEMMA ClaimsStart == Init => Claims
<1> SUFFICES ASSUME Init PROVE Claims
  OBVIOUS
<1>1. books = [t \in Totals |-> 0] /\ deposited = {} /\ burns = <<>>
  BY DEF Init
<1>2. /\ books["unminted"] = 0 /\ books["unpaid"] = 0 /\ books["silent"] = 0
      /\ books["doubled"] = 0 /\ books["fees"] = 0
  BY <1>1, Names
<1>3. DOMAIN burns = {}
  BY <1>1
<1>4. Unminted = {} /\ MintedOnes = {} /\ Unpaid = {} /\ PaidOnes = {}
  BY <1>1, <1>3 DEF Unminted, MintedOnes, Unpaid, PaidOnes
<1>5. reserve = 0 /\ minted = 0 /\ announced = 0 /\ burnedAmount = 0
  BY DEF Init, Token!Init
<1>6. BooksAreSums
  BY <1>2, <1>4, <1>5, SumEmpty DEF BooksAreSums
<1>7. SupplyTracked
  BY <1>3, <1>4, <1>5, SumEmpty DEF SupplyTracked
<1>8. ReserveTracked
  BY <1>1, <1>4, <1>5, SumEmpty DEF ReserveTracked
<1> QED
  BY <1>2, <1>6, <1>7, <1>8 DEF Claims

-----------------------------------------------------------------------------
(* The report. *)

ReportTyped ==
    /\ up \in BOOLEAN
    /\ report \in [step : {"off", "wallet", "sums", "printed"}, contract : Nat, safe : Nat]
    /\ report.step # "off" => up

LEMMA ReportStep ==
    ASSUME IInv, ReportTyped, [Next]_vars
    PROVE  ReportTyped'
<1> USE DEF ReportTyped
<1>1. CASE UNCHANGED <<up, report>>
  BY <1>1
<1>2. CASE Users \/ Relays \/ UNCHANGED vars
  BY <1>1, <1>2 DEF Users, Arrive, Move, Redeem, Destroy, Relays, RecordDeposit, SendMint, Mint,
     LoseMint, StoreMint, RecordBurn, SendPayout, Pay, LosePayout, StorePayout, vars
<1>3. CASE CheckFinance
  BY <1>3, EntriesAreInt DEF CheckFinance, Idle, NoReport
<1>4. CASE ReadWallet
  <2>1. PICK balance \in {reserve, 0} : report' = [report EXCEPT !.step = "sums", !.safe = balance]
    BY <1>4 DEF ReadWallet
  <2>2. balance \in Nat
    BY EntriesAreInt
  <2> QED
    BY <1>4, <2>1, <2>2 DEF ReadWallet
<1>5. CASE FinanceFails \/ RoundEnds
  BY <1>5 DEF FinanceFails, RoundEnds, NoReport
<1>6. CASE SumTables
  <2>1. \/ up' = FALSE /\ report' = NoReport
        \/ report' = [report EXCEPT !.step = "printed"] /\ up' = up
    BY <1>6 DEF SumTables
  <2>2. up = TRUE
    BY <1>6 DEF SumTables
  <2>3. CASE up' = FALSE /\ report' = NoReport
    BY <2>3 DEF NoReport
  <2>4. CASE report' = [report EXCEPT !.step = "printed"] /\ up' = up
    <3>1. report'.step = "printed"
      BY <2>4
    <3>2. report' \in [step : {"off", "wallet", "sums", "printed"}, contract : Nat, safe : Nat]
      BY <2>4
    <3> QED
      BY <2>2, <2>4, <3>2
  <2> QED
    BY <2>1, <2>3, <2>4
<1>7. CASE Restart
  <2>1. report' = report /\ up' = TRUE
    BY <1>7 DEF Restart
  <2> QED
    BY <2>1
<1> QED
  BY <1>2, <1>3, <1>4, <1>5, <1>6, <1>7 DEF Next, Finance

-----------------------------------------------------------------------------
(* What a difference between the books and the tables means. *)

Invariants == IInv /\ TokenInv /\ Placed /\ FeesTracked /\ Claims /\ Quiet /\ ReportTyped

LEMMA InvariantsHold == Spec => []Invariants
<1>1. Init => Quiet /\ ReportTyped
  BY DEF Init, Quiet, In!Init, Out!Init, ReportTyped, NoReport
<1>2. Init => Invariants
  BY <1>1, InitInv, TokenStart, PlacedStart, ClaimsStart DEF Invariants
<1>3. ASSUME Invariants, [Next]_vars PROVE Invariants'
  BY <1>3, StepInv, TokenStep, PlacedStep, FeesStep, ClaimsStep, QuietStep, ReportStep DEF Invariants
<1> QED
  BY <1>2, <1>3, PTL DEF Spec

\* What the supply owes to the claims.
LEMMA SupplyFacts ==
    ASSUME Invariants
    PROVE  /\ totalSupply \in Int /\ minted \in Int /\ announced \in Int /\ burnedAmount \in Int
           /\ totalSupply = minted - burnedAmount
           /\ books["silent"] \in Int /\ books["silent"] = burnedAmount - announced /\ books["silent"] >= 0
           /\ announced = SumFunctionOnSet(burns, DOMAIN burns)
<1>1. totalSupply \in Int /\ minted \in Int /\ announced \in Int /\ burnedAmount \in Int
  BY WordAssumption DEF Invariants, TokenInv, Token!TypeOK, Token!Word
<1>2. totalSupply = minted - burnedAmount
  BY <1>1 DEF Invariants, TokenInv, Token!SupplyAccounted
<1>3. books["silent"] \in Int /\ books["silent"] >= 0
  BY EntriesAreInt DEF Invariants, IInv, BooksTyped
<1>4. books["silent"] = burnedAmount - announced /\ announced = SumFunctionOnSet(burns, DOMAIN burns)
  BY DEF Invariants, Claims, BooksAreSums, SupplyTracked
<1> QED
  BY <1>1, <1>2, <1>3, <1>4

\* The tables' sums are integers and their rounding is bounded.
LEMMA TableFacts ==
    ASSUME Invariants
    PROVE  /\ Income \in Int /\ Outcome \in Int /\ Fees \in Int
           /\ SumFunctionOnSet(burns, burnRows) \in Int /\ SumFunctionOnSet(Amount, depositRows) \in Int
           /\ HalfGrain * Cardinality(burnRows) \in Nat /\ HalfGrain * Cardinality(depositRows) \in Nat
           /\ Outcome <= SumFunctionOnSet(burns, burnRows) + HalfGrain * Cardinality(burnRows)
           /\ SumFunctionOnSet(burns, burnRows) <= Outcome + HalfGrain * Cardinality(burnRows)
           /\ Income <= SumFunctionOnSet(Amount, depositRows) + HalfGrain * Cardinality(depositRows)
           /\ SumFunctionOnSet(Amount, depositRows) <= Income + HalfGrain * Cardinality(depositRows)
<1>1. IInv /\ Placed /\ FeesTracked
  BY DEF Invariants
<1>2. IsFiniteSet(burnRows) /\ burnRows \subseteq 1..MaxBurns
  BY <1>1, RowsInRange
<1>3. IsFiniteSet(depositRows) /\ depositRows \subseteq Deposit
  BY <1>1, ClaimFacts, FS_Subset DEF Placed
<1>4. Cardinality(burnRows) \in Nat /\ Cardinality(depositRows) \in Nat
  BY <1>2, <1>3, FS_CardinalityType
<1>5. HalfGrain * Cardinality(burnRows) \in Nat /\ HalfGrain * Cardinality(depositRows) \in Nat
  <2>1. PICK b : b = Cardinality(burnRows)
    OBVIOUS
  <2>2. PICK c : c = Cardinality(depositRows)
    OBVIOUS
  <2>3. b \in Nat /\ c \in Nat /\ HalfGrain \in Nat
    BY <1>4, <2>1, <2>2, HalfGrainNat
  <2>4. HalfGrain * b \in Nat /\ HalfGrain * c \in Nat
    BY ONLY <2>3
  <2> QED
    BY <2>1, <2>2, <2>4
<1>6. \A k \in burnRows : /\ burns[k] \in Int /\ BurnAmount[k] \in Int /\ fee[k] \in Int
                          /\ BurnAmount[k] <= burns[k] + HalfGrain
                          /\ burns[k] <= BurnAmount[k] + HalfGrain
  <2> SUFFICES ASSUME NEW k \in burnRows
               PROVE  /\ burns[k] \in Int /\ BurnAmount[k] \in Int /\ fee[k] \in Int
                      /\ BurnAmount[k] <= burns[k] + HalfGrain
                      /\ burns[k] <= BurnAmount[k] + HalfGrain
    OBVIOUS
  <2>1. burns[k] \in Nat /\ BurnAmount[k] = Stored(burns[k])
    BY <1>1, ClaimFacts
  <2>2. fee[k] \in Int
    BY <1>1, <1>2 DEF FeesTracked
  <2>3. PICK n : n = burns[k]
    OBVIOUS
  <2>4. /\ n \in Nat /\ Stored(n) \in Nat /\ HalfGrain \in Nat
        /\ Stored(n) - n <= HalfGrain /\ n - Stored(n) <= HalfGrain
    BY <2>1, <2>3, StoredError
  <2> QED
    BY <2>1, <2>2, <2>3, <2>4
<1>7. \A d \in depositRows : /\ Amount[d] \in Int /\ DepositAmount[d] \in Int
                             /\ DepositAmount[d] <= Amount[d] + HalfGrain
                             /\ Amount[d] <= DepositAmount[d] + HalfGrain
  <2> SUFFICES ASSUME NEW d \in depositRows
               PROVE  /\ Amount[d] \in Int /\ DepositAmount[d] \in Int
                      /\ DepositAmount[d] <= Amount[d] + HalfGrain
                      /\ Amount[d] <= DepositAmount[d] + HalfGrain
    OBVIOUS
  <2>1. Amount[d] \in Nat /\ DepositAmount[d] = Stored(Amount[d])
    BY <1>1, <1>3, ClaimFacts
  <2>2. PICK n : n = Amount[d]
    OBVIOUS
  <2>3. /\ n \in Nat /\ Stored(n) \in Nat /\ HalfGrain \in Nat
        /\ Stored(n) - n <= HalfGrain /\ n - Stored(n) <= HalfGrain
    BY <2>1, <2>2, StoredError
  <2> QED
    BY <2>1, <2>2, <2>3
<1>8. HalfGrain \in Int
  BY HalfGrainNat
<1>9. Income \in Int /\ SumFunctionOnSet(Amount, depositRows) \in Int
  BY <1>3, <1>7, SumInt DEF Income
<1>10. Outcome \in Int /\ SumFunctionOnSet(burns, burnRows) \in Int /\ Fees \in Int
  BY <1>2, <1>6, SumInt DEF Outcome, Fees
<1>11. /\ Outcome <= SumFunctionOnSet(burns, burnRows) + HalfGrain * Cardinality(burnRows)
       /\ SumFunctionOnSet(burns, burnRows) <= Outcome + HalfGrain * Cardinality(burnRows)
  BY <1>2, <1>6, <1>8, SumExceeds DEF Outcome
<1>12. /\ Income <= SumFunctionOnSet(Amount, depositRows) + HalfGrain * Cardinality(depositRows)
       /\ SumFunctionOnSet(Amount, depositRows) <= Income + HalfGrain * Cardinality(depositRows)
  BY <1>3, <1>7, <1>8, SumExceeds DEF Income
<1> QED
  BY <1>5, <1>9, <1>10, <1>11, <1>12

LEMMA ContractDiff == ASSUME Invariants PROVE ContractDiffExplained
<1> USE SupplyFacts, TableFacts
<1> DEFINE slack == HalfGrain * Cardinality(burnRows)
           diff == totalSupply - (Income - Outcome)
           least == SumFunctionOnSet(DepositAmount, MintedOnes)
           paid == SumFunctionOnSet(burns, burnRows)
<1>1. /\ least <= minted /\ (mintDoubtful = {} => minted = least)
      /\ \A d \in Deposit : DepositAmount[d] \in Nat
      /\ MintedOnes \subseteq depositRows /\ depositRows \subseteq Deposit /\ IsFiniteSet(depositRows)
      /\ burnRows \subseteq DOMAIN burns /\ IsFiniteSet(DOMAIN burns)
      /\ \A k \in DOMAIN burns : burns[k] \in Nat
  BY ClaimFacts, FS_Subset DEF Invariants, Claims, SupplyTracked, Placed
<1>2. least \in Int
  BY SumsAreInt DEF Invariants
<1>3. least <= Income
  BY <1>1, SumSubset DEF Income
<1>4. paid <= announced
  BY ONLY <1>1, SupplyFacts, SumSubset, Invariants
<1>5. slack \in Nat /\ Outcome <= paid + slack /\ paid <= Outcome + slack /\ paid \in Int
  OBVIOUS
<1>6. /\ totalSupply = minted - burnedAmount /\ books["silent"] = burnedAmount - announced
      /\ totalSupply \in Int /\ minted \in Int /\ announced \in Int /\ burnedAmount \in Int
      /\ books["silent"] \in Int /\ books["silent"] >= 0 /\ Income \in Int /\ Outcome \in Int
  OBVIOUS
<1>7. mintDoubtful = {} => diff <= slack
  <2> SUFFICES ASSUME mintDoubtful = {} PROVE diff <= slack
    OBVIOUS
  <2>1. minted <= Income
    BY <1>1, <1>3
  <2> HIDE DEF slack, least, paid
  <2> QED
    BY ONLY <1>4, <1>5, <1>6, <2>1
<1>8. (\A d \in depositRows : Minted(d)) /\ Unrecorded = {} /\ ~(books["silent"] > 0)
        => diff >= -slack
  <2> SUFFICES ASSUME \A d \in depositRows : Minted(d), Unrecorded = {}, ~(books["silent"] > 0)
               PROVE  diff >= -slack
    OBVIOUS
  <2>1. MintedOnes = depositRows
    BY <1>1 DEF MintedOnes, Invariants, Placed
  <2>2. minted >= Income
    BY <1>1, <1>2, <1>6, <2>1 DEF Income
  <2>3. burnRows = DOMAIN burns
    BY <1>1 DEF Unrecorded
  <2>4. announced = paid
    BY <2>3
  <2>5. ~(books["silent"] > 0)
    OBVIOUS
  <2> HIDE DEF slack, least, paid
  <2> QED
    BY ONLY <1>5, <1>6, <2>2, <2>4, <2>5
<1>9. diff \in Int /\ slack \in Int
  BY <1>5, <1>6
<1>10. diff > slack => mintDoubtful # {}
  <2> HIDE DEF diff, slack
  <2> QED
    BY ONLY <1>7, <1>9
<1>11. diff < -slack => \/ \E d \in depositRows : ~Minted(d)
                        \/ Unrecorded # {} \/ books["silent"] > 0
  <2> HIDE DEF diff, slack
  <2> QED
    BY ONLY <1>8, <1>9
<1> QED
  BY <1>10, <1>11 DEF ContractDiffExplained

\* The sum of the column fee, and what is missing from it: for each recorded
\* fee the wallet has paid, and half a grain at most for each row.
LEMMA FeesSum ==
    ASSUME Invariants
    PROVE  LET spent == SumFunctionOnSet(NetFees, Recorded)
               out == HalfGrain * Cardinality(burnRows) IN
           /\ Fees \in Int /\ FeesMissing \in Int /\ spent \in Int /\ out \in Nat
           /\ Fees + FeesMissing <= spent + out
           /\ spent <= Fees + FeesMissing + out
<1> DEFINE told == Recorded \ feeLost
           rest == burnRows \ feeLost
           junk == SumFunctionOnSet(fee, feeLost)
           kept == SumFunctionOnSet(fee, rest)
           exact == [k \in rest |-> IF k \in told THEN -NetFee ELSE 0]
           spent == SumFunctionOnSet(NetFees, Recorded)
           out == HalfGrain * Cardinality(burnRows)
<1>1. /\ IInv /\ Placed /\ FeesTracked
      /\ IsFiniteSet(burnRows) /\ burnRows \subseteq 1..MaxBurns /\ feeLost \subseteq burnRows
  BY RowsInRange DEF Invariants, FeesTracked
<1>2. /\ Recorded \subseteq burnRows /\ told \subseteq rest /\ rest \subseteq burnRows
      /\ IsFiniteSet(Recorded) /\ IsFiniteSet(told) /\ IsFiniteSet(rest)
      /\ Cardinality(Recorded) \in Nat /\ Cardinality(told) \in Nat
      /\ Cardinality(rest) \in Nat /\ Cardinality(burnRows) \in Nat
      /\ Cardinality(rest) <= Cardinality(burnRows)
  <2>1. Recorded \subseteq burnRows /\ told \subseteq rest /\ rest \subseteq burnRows
    BY DEF Recorded
  <2>2. /\ IsFiniteSet(Recorded) /\ IsFiniteSet(rest)
        /\ Cardinality(rest) <= Cardinality(burnRows)
    BY <1>1, <2>1, FS_Subset
  <2>3. IsFiniteSet(told)
    BY <2>1, <2>2, FS_Subset
  <2> QED
    BY <1>1, <2>1, <2>2, <2>3, FS_CardinalityType
<1>3. \A k \in burnRows : fee[k] \in Int
  BY <1>1 DEF FeesTracked
<1>4. Fees = junk + kept /\ junk \in Int /\ kept \in Int
  <2>1. feeLost \in SUBSET burnRows /\ IsFiniteSet(burnRows)
    BY <1>1
  <2>2. /\ SumFunctionOnSet(fee, burnRows) = junk + kept
        /\ junk \in Int /\ kept \in Int
    BY <1>3, <2>1, SumSplit, Zenon
  <2> QED
    BY <2>2 DEF Fees
<1>5. \A k \in rest : /\ exact[k] \in Int /\ fee[k] \in Int
                      /\ fee[k] <= exact[k] + HalfGrain /\ exact[k] <= fee[k] + HalfGrain
  <2> SUFFICES ASSUME NEW k \in rest
               PROVE  /\ exact[k] \in Int /\ fee[k] \in Int
                      /\ fee[k] <= exact[k] + HalfGrain /\ exact[k] <= fee[k] + HalfGrain
    OBVIOUS
  <2>1. fee[k] = IF k \in told THEN StoredFee ELSE 0
    BY <1>1 DEF FeesTracked, Recorded
  <2>2. exact[k] = IF k \in told THEN -NetFee ELSE 0
    OBVIOUS
  <2> HIDE DEF exact, told, rest
  <2> QED
    BY <2>1, <2>2, StoredFeeError
<1>6. /\ kept <= SumFunctionOnSet(exact, rest) + HalfGrain * Cardinality(rest)
      /\ SumFunctionOnSet(exact, rest) <= kept + HalfGrain * Cardinality(rest)
  <2>1. HalfGrain \in Int
    BY HalfGrainNat
  <2> HIDE DEF exact
  <2> QED
    BY <1>2, <1>5, <2>1, SumExceeds
<1>7. SumFunctionOnSet(exact, rest) = (-NetFee) * Cardinality(told)
  <2>1. /\ IsFiniteSet(rest) /\ told \in SUBSET rest /\ -NetFee \in Int
        /\ \A k \in told : exact[k] = -NetFee
        /\ \A k \in rest \ told : exact[k] = 0
    BY <1>2, StoredFeeError
  <2> HIDE DEF exact, told, rest
  <2> QED
    BY ONLY <2>1, SumOnSubset
<1>8. spent = NetFee * Cardinality(Recorded)
  <2>1. NetFee \in Int /\ \A k \in Recorded : NetFees[k] = NetFee
    BY <1>1, <1>2, StoredFeeError DEF NetFees
  <2> QED
    BY <1>2, <2>1, SumConstant
<1>9. PICK c, t, n, m : /\ c = Cardinality(Recorded) /\ t = Cardinality(told)
                        /\ n = Cardinality(rest) /\ m = Cardinality(burnRows)
  OBVIOUS
<1>10. /\ c \in Nat /\ t \in Nat /\ n \in Nat /\ m \in Nat /\ n <= m
       /\ NetFee \in Nat /\ HalfGrain \in Nat
  BY <1>2, <1>9, StoredFeeError
<1>11. /\ NetFee * (c + t) = NetFee * c + NetFee * t /\ (-NetFee) * t = -(NetFee * t)
       /\ NetFee * c \in Int /\ NetFee * t \in Int
       /\ HalfGrain * n \in Nat /\ HalfGrain * m \in Nat /\ HalfGrain * n <= HalfGrain * m
  BY ONLY <1>10
<1>12. /\ FeesMissing = NetFee * c + NetFee * t - junk
       /\ kept <= HalfGrain * m - NetFee * t /\ -(NetFee * t) <= kept + HalfGrain * m
       /\ spent = NetFee * c /\ out = HalfGrain * m
  <2>1. FeesMissing = NetFee * (c + t) - junk /\ spent = NetFee * c /\ out = HalfGrain * m
    BY <1>8, <1>9 DEF FeesMissing
  <2>2. /\ kept <= (-NetFee) * t + HalfGrain * n
        /\ (-NetFee) * t <= kept + HalfGrain * n
    BY <1>6, <1>7, <1>9
  <2> HIDE DEF junk, kept, spent, out
  <2> QED
    BY ONLY <1>4, <1>11, <2>1, <2>2
<1> HIDE DEF junk, kept, spent, out
<1>13. /\ Fees \in Int /\ FeesMissing \in Int /\ spent \in Int /\ out \in Nat
       /\ Fees + FeesMissing <= spent + out /\ spent <= Fees + FeesMissing + out
  BY ONLY <1>4, <1>11, <1>12
<1> QED
  BY <1>13 DEF spent, out

LEMMA WalletDiff == ASSUME Invariants PROVE WalletDiffExplained
<1> USE TableFacts
<1> DEFINE in == HalfGrain * Cardinality(depositRows)
           out == HalfGrain * Cardinality(burnRows)
           slack == HalfGrain * (Cardinality(depositRows) + Cardinality(burnRows))
           diff == reserve - (Income - Outcome - Fees) + FeesMissing
           came == SumFunctionOnSet(Amount, deposited)
           filed == SumFunctionOnSet(Amount, depositRows)
           paid == SumFunctionOnSet(BurnAmount, PaidOnes)
           taken == SumFunctionOnSet(NetFees, PaidOnes)
           spent == SumFunctionOnSet(NetFees, Recorded)
<1>1. /\ IInv /\ Placed /\ FeesTracked /\ ReserveTracked
      /\ depositRows \subseteq deposited /\ deposited \subseteq Deposit /\ IsFiniteSet(deposited)
      /\ IsFiniteSet(depositRows) /\ IsFiniteSet(burnRows) /\ burnRows \subseteq 1..MaxBurns
      /\ PaidOnes \subseteq burnRows /\ burnRows \subseteq DOMAIN burns
  BY ClaimFacts, RowsInRange, FS_Subset DEF Invariants, Claims, Placed
<1>2. came \in Int /\ filed \in Int /\ paid \in Int /\ taken \in Int /\ reserve \in Int
  BY <1>1, SumsAreInt, EntriesAreInt
<1>3. /\ Income \in Int /\ Outcome \in Int /\ Fees \in Int
      /\ in \in Nat /\ out \in Nat /\ filed <= Income + in /\ Income <= filed + in
      /\ FeesMissing \in Int /\ spent \in Int
      /\ Fees + FeesMissing <= spent + out /\ spent <= Fees + FeesMissing + out
  BY FeesSum
<1>4. slack = in + out
  <2>1. PICK b : b = Cardinality(burnRows)
    OBVIOUS
  <2>2. PICK c : c = Cardinality(depositRows)
    OBVIOUS
  <2>3. b \in Nat /\ c \in Nat /\ HalfGrain \in Nat
    BY <1>1, <2>1, <2>2, HalfGrainNat, FS_CardinalityType
  <2>4. HalfGrain * (c + b) = HalfGrain * c + HalfGrain * b
    BY ONLY <2>3
  <2> QED
    BY <2>1, <2>2, <2>4
<1>5. filed <= came
  <2>1. \A d \in deposited : Amount[d] \in Nat
    BY <1>1, ClaimFacts
  <2> QED
    BY <1>1, <2>1, SumSubset
<1>6. /\ paid <= Outcome
      /\ PaidOnes = burnRows => paid = Outcome
  <2>1. \A k \in burnRows : BurnAmount[k] \in Nat
    BY <1>1, ClaimFacts
  <2> QED
    BY <1>1, <1>2, <2>1, SumSubset DEF Outcome
<1>7. Recorded \subseteq PaidOnes /\ spent <= taken
  <2>1. ASSUME NEW k \in Recorded PROVE k \in PaidOnes
    <3>1. PICK a \in paySettled : a[1] = k
      BY DEF Recorded, Tries
    <3>2. a \in payEffective /\ k \in DOMAIN burns
      BY <1>1, <3>1 DEF Recorded, IInv, Out!IInv, Out!SettledOnce
    <3> QED
      BY <3>1, <3>2 DEF PaidOnes, Paid, Tries
  <2>2. \A k \in PaidOnes : NetFees[k] \in Nat
    BY <1>1, FeeAssumption DEF NetFees
  <2>3. IsFiniteSet(PaidOnes)
    BY <1>1, FS_Subset
  <2> QED
    BY <2>1, <2>2, <2>3, SumSubset
<1>8. ASSUME payOpen = {}, payDoubtful = {}
      PROVE  taken = spent
  <2>1. ASSUME NEW k \in PaidOnes PROVE k \in Recorded
    <3>1. PICK a \in payEffective : a[1] = k
      BY DEF PaidOnes, Paid, Tries
    <3>2. a \in paySettled
      BY <1>1, <1>8, <3>1 DEF IInv, Out!IInv
    <3> QED
      BY <1>1, <3>1, <3>2 DEF Recorded, Tries
  <2>2. PaidOnes = Recorded
    BY <1>7, <2>1
  <2> QED
    BY <2>2
<1>9. /\ reserve <= came - paid - taken
      /\ payDoubtful = {} => reserve = came - paid - taken
  BY <1>1 DEF ReserveTracked
<1>10. ASSUME depositRows = deposited, \A k \in burnRows : Paid(k)
       PROVE  diff <= slack
  <2>1. PaidOnes = burnRows
    BY <1>1, <1>10 DEF PaidOnes
  <2>2. paid = Outcome /\ came = filed
    BY <1>6, <1>10, <2>1
  <2> HIDE DEF in, out, slack, came, filed, paid, taken, spent
  <2> QED
    BY ONLY <1>2, <1>3, <1>4, <1>7, <1>9, <2>2
<1>11. ASSUME payOpen = {}, payDoubtful = {}
       PROVE  diff >= -slack
  <2>1. taken = spent /\ reserve = came - paid - taken
    BY <1>8, <1>9, <1>11
  <2> HIDE DEF in, out, slack, came, filed, paid, taken, spent
  <2> QED
    BY ONLY <1>2, <1>3, <1>4, <1>5, <1>6, <2>1
<1>12. diff \in Int /\ slack \in Int
  BY <1>2, <1>3, <1>4
<1>13. ASSUME diff > slack
       PROVE  depositRows # deposited \/ \E k \in burnRows : ~Paid(k)
  <2> HIDE DEF diff, slack
  <2> QED
    BY <1>10, <1>12, <1>13
<1>14. ASSUME diff < -slack
       PROVE  payOpen # {} \/ payDoubtful # {}
  <2> HIDE DEF diff, slack
  <2> QED
    BY <1>11, <1>12, <1>14
<1> QED
  BY <1>13, <1>14 DEF WalletDiffExplained, ShouldLeftSafe

-----------------------------------------------------------------------------
(* The theorems about types, books and tables. *)

\* The types of every variable of the bridge.
THEOREM TypeCorrect == Spec => []TypeOK
<1>1. ASSUME Invariants PROVE TypeOK
  <2>1. IInv /\ TokenInv /\ Placed /\ FeesTracked /\ Claims /\ Quiet /\ ReportTyped
    BY <1>1 DEF Invariants
  <2>2. ASSUME NEW t \in Totals \ {"drift"} PROVE books[t] >= 0
    <3>1. \A d \in Unminted : Amount[d] \in Nat
      BY <2>1, ClaimFacts DEF Unminted
    <3>2. \A k \in Unpaid : burns[k] \in Nat
      BY <2>1, ClaimFacts DEF Unpaid
    <3>3. SumFunctionOnSet(Amount, Unminted) \in Nat /\ SumFunctionOnSet(burns, Unpaid) \in Nat
      BY <2>1, <3>1, <3>2, ClaimFacts, SumNat
    <3>4. books["unminted"] >= 0 /\ books["unpaid"] >= 0
      BY <2>1, <3>3 DEF Claims, BooksAreSums
    <3>5. /\ books["silent"] >= 0 /\ books["rounded"] >= 0
          /\ books["doubled"] >= 0 /\ books["fees"] >= 0
      BY <2>1 DEF IInv, BooksTyped, Claims
    <3> QED
      BY <3>4, <3>5 DEF Totals
  <2>3. /\ \A a \in mintOpen \cup mintDoubtful \cup mintEffective \cup mintSettled :
             a[1] \in depositRows
        /\ \A a \in payOpen \cup payDoubtful \cup payEffective \cup paySettled :
             a[1] \in burnRows
    BY <2>1 DEF IInv, BooksTyped, Placed
  <2>4. /\ Token!TypeOK /\ depositRows \subseteq deposited /\ deposited \subseteq Deposit
        /\ burns \in Seq(1..MaxUint) /\ Len(burns) <= MaxBurns /\ burnRows \subseteq 1..Len(burns)
        /\ reserve \in Nat /\ fee \in [1..MaxBurns -> Int] /\ feeLost \subseteq burnRows
        /\ books \in [Totals -> Int]
    BY <2>1 DEF IInv, BooksTyped, TokenInv, Placed, FeesTracked
  <2>5. /\ up \in BOOLEAN
        /\ report \in [step : {"off", "wallet", "sums", "printed"}, contract : Nat, safe : Nat]
        /\ report.step # "off" => up /\ mintOpen = {} /\ payOpen = {}
    BY <2>1 DEF Quiet, ReportTyped
  <2> QED
    BY <2>2, <2>3, <2>4, <2>5 DEF TypeOK
<1> QED
  BY <1>1, InvariantsHold, PTL

\* The running totals in the books are the sums of the claims they stand for:
\* deposits without a mint, burns without a payment, burns without an event.
THEOREM BooksAreSumsThm == Spec => []BooksAreSums
<1>1. Invariants => BooksAreSums
  BY DEF Invariants, Claims
<1> QED
  BY <1>1, InvariantsHold, PTL

\* What checkfinance's contract difference means, rounding aside: a surplus of
\* tokens is a mint whose outcome was lost, a shortfall a mint still missing, a
\* burn not yet recorded or a burn without an event.
THEOREM ContractDiffExplainedThm == Spec => []ContractDiffExplained
BY ContractDiff, InvariantsHold, PTL

\* What its wallet difference means, the recorded fees counted as the code
\* counts them, twice against the bridge, and the fees it was not told as
\* what the rows hold for them: a surplus is a deposit not recorded or a burn
\* not paid, a shortfall a payment whose outcome is not recorded.
THEOREM WalletDiffExplainedThm == Spec => []WalletDiffExplained
BY WalletDiff, InvariantsHold, PTL

-----------------------------------------------------------------------------
(* The bridge is made of its parts: what is proved of them holds of it. *)

\* Whatever the bridge does to the contract is a transaction of SAFEToken.
THEOREM ContractThm == Spec => Token!Spec
<1>1. Init => Token!Init
  BY DEF Init
<1>2. Invariants /\ [Next]_vars => [Token!Next]_(Token!vars)
  BY TokenStep DEF Invariants
<1> QED
  BY <1>1, <1>2, InvariantsHold, PTL DEF Spec, Token!Spec

\* Seen from the deposits, every step of the bridge is one of Settlement.
LEMMA InStep == [Next]_vars => [In!Next]_(In!vars)
<1> SUFFICES ASSUME [Next]_vars PROVE [In!Next]_(In!vars)
  OBVIOUS
<1>1. CASE UNCHANGED mints
  BY <1>1 DEF mints, In!vars
<1>2. CASE \E d \in Deposit : RecordDeposit(d) \/ SendMint(d)
  BY <1>2 DEF RecordDeposit, SendMint, In!Start, In!Next
<1>3. CASE \E a \in mintOpen \cup mintDoubtful : Mint(a)
  BY <1>3 DEF Mint, In!Next
<1>4. CASE \E a \in mintOpen : LoseMint(a) \/ StoreMint(a)
  BY <1>4 DEF LoseMint, StoreMint, In!Next
<1>5. CASE Users \/ Finance \/ UNCHANGED vars
  BY <1>1, <1>5 DEF Users, Arrive, Move, Redeem, Destroy, Finance, CheckFinance, ReadWallet,
     FinanceFails, SumTables, RoundEnds, Restart, vars
<1>6. CASE Relays
  BY <1>1, <1>2, <1>3, <1>4, <1>6 DEF Relays, RecordBurn, SendPayout, Pay, LosePayout, StorePayout
<1> QED
  BY <1>5, <1>6 DEF Next

LEMMA OutStep == [Next]_vars => [Out!Next]_(Out!vars)
<1> SUFFICES ASSUME [Next]_vars PROVE [Out!Next]_(Out!vars)
  OBVIOUS
<1>1. CASE UNCHANGED pays
  BY <1>1 DEF pays, Out!vars
<1>2. CASE \E k \in 1..MaxBurns : RecordBurn(k) \/ SendPayout(k)
  BY <1>2 DEF RecordBurn, SendPayout, Out!Start, Out!Next
<1>3. CASE \E a \in payOpen \cup payDoubtful : Pay(a)
  BY <1>3 DEF Pay, Out!Next
<1>4. CASE \E a \in payOpen : LosePayout(a) \/ StorePayout(a)
  BY <1>4 DEF LosePayout, StorePayout, Out!Next
<1>5. CASE Users \/ Finance \/ UNCHANGED vars
  BY <1>1, <1>5 DEF Users, Arrive, Move, Redeem, Destroy, Finance, CheckFinance, ReadWallet,
     FinanceFails, SumTables, RoundEnds, Restart, vars
<1>6. CASE Relays
  BY <1>1, <1>2, <1>3, <1>4, <1>6 DEF Relays, RecordDeposit, SendMint, Mint, LoseMint, StoreMint
<1> QED
  BY <1>5, <1>6 DEF Next

\* The peg-in half of the bridge implements Settlement ...
THEOREM PegInThm == Spec => In!Spec
<1>1. Init => In!Init
  BY DEF Init
<1> QED
  BY <1>1, InStep, PTL DEF Spec, In!Spec

\* ... and so does the peg-out half.
THEOREM PegOutThm == Spec => Out!Spec
<1>1. Init => Out!Init
  BY DEF Init
<1> QED
  BY <1>1, OutStep, PTL DEF Spec, Out!Spec

\* In the bridge as a whole a claim is settled once, with money that has moved,
\* and paid twice only where the outcome of a call was lost, in both directions
\* (safe2eth_thread, eth2safe_thread).
THEOREM PromisesKeptThm ==
    Spec => [](/\ In!SettledOnce /\ In!DoubledOnlyInDoubt
               /\ Out!SettledOnce /\ Out!DoubledOnlyInDoubt)
<1>1. In!IInv => In!SettledOnce /\ In!DoubledOnlyInDoubt
  BY DEF In!IInv, In!SettledOnce, In!DoubledOnlyInDoubt
<1>2. Out!IInv => Out!SettledOnce /\ Out!DoubledOnlyInDoubt
  BY DEF Out!IInv, Out!SettledOnce, Out!DoubledOnlyInDoubt
<1>3. IInv => In!IInv /\ Out!IInv
  BY DEF IInv
<1> QED
  BY <1>1, <1>2, <1>3, Invariance, PTL

-----------------------------------------------------------------------------
(* Settlement itself, for every set of claims. *)

LEMMA SettlementStep == In!IInv /\ [In!Next]_(In!vars) => In!IInv'
<1> SUFFICES ASSUME In!IInv, [In!Next]_(In!vars)
             PROVE  In!IInv'
  OBVIOUS
<1> USE DEF In!IInv, In!SettledOnce
<1>1. ASSUME NEW k \in Deposit, In!File(k)
      PROVE  In!IInv'
  BY <1>1 DEF In!File
<1>2. ASSUME NEW a \in mintOpen', In!Start(a)
      PROVE  In!IInv'
  BY <1>2 DEF In!Start
<1>3. ASSUME NEW a \in mintOpen \cup mintDoubtful, In!TakeEffect(a)
      PROVE  In!IInv'
  BY <1>3 DEF In!TakeEffect
<1>4. ASSUME NEW a \in mintOpen, In!LoseTrack(a)
      PROVE  In!IInv'
  BY <1>4 DEF In!LoseTrack
<1>5. ASSUME NEW a \in mintOpen, In!Settle(a)
      PROVE  In!IInv'
  BY <1>5 DEF In!Settle
<1>6. CASE UNCHANGED In!vars
  BY <1>6 DEF In!vars
<1> QED
  BY <1>1, <1>2, <1>3, <1>4, <1>5, <1>6 DEF In!Next

\* A claim settled twice, or settled without money, is never recorded.
THEOREM SettledOnceThm == In!Spec => []In!SettledOnce
<1>1. In!Init => In!IInv
  BY DEF In!Init, In!IInv, In!SettledOnce
<1>2. In!IInv => In!SettledOnce
  BY DEF In!IInv
<1> QED
  BY <1>1, <1>2, SettlementStep, PTL DEF In!Spec

\* Money moves twice for one claim only where the outcome of an attempt was
\* lost; with the refinement theorems this holds of both relays.
THEOREM DoubledOnlyInDoubtThm == In!Spec => []In!DoubledOnlyInDoubt
<1>1. In!Init => In!IInv
  BY DEF In!Init, In!IInv, In!SettledOnce
<1>2. In!IInv => In!DoubledOnlyInDoubt
  BY DEF In!IInv, In!SettledOnce, In!DoubledOnlyInDoubt
<1> QED
  BY <1>1, <1>2, SettlementStep, PTL DEF In!Spec
=============================================================================
