--------------------------- MODULE SAFETokenProofs ---------------------------
(***************************************************************************)
(* Proofs about SAFEToken for every set of accounts, every cap and every   *)
(* word size.                                                              *)
(***************************************************************************)
EXTENDS SAFEToken, Sums, TLAPS

USE AccountAssumption, WordAssumption

\* The inductive invariant: the types, and how the four totals hang together.
LedgerInv == TypeOK /\ SupplyAccounted /\ AnnouncedIsBurned

LEMMA LedgerInit == Init => LedgerInv
BY DEF Init, LedgerInv, TypeOK, Word, SupplyAccounted, AnnouncedIsBurned

\* Crediting keeps balances words.
LEMMA CreditWord ==
    ASSUME NEW bal \in [Account -> Word], NEW a \in Account, NEW n \in Word,
           credit(bal, a, n)
    PROVE  balances' \in [Account -> Word]
BY DEF credit, Word

\* A transfer moves tokens between words and leaves the totals alone.
LEMMA TransferLedger ==
    ASSUME LedgerInv, NEW from \in Account, NEW to \in Account, NEW n \in Word,
           _transfer(from, to, n)
    PROVE  balances' \in [Account -> Word]
<1>1. [balances EXCEPT ![from] = @ - n] \in [Account -> Word]
  BY DEF _transfer, LedgerInv, TypeOK, Word
<1> QED
  BY <1>1, CreditWord DEF _transfer

LEMMA ApproveLedger ==
    ASSUME LedgerInv, NEW a \in Account, NEW b \in Account, NEW n \in Word,
           _approve(a, b, n)
    PROVE  allowances' \in [Account -> [Account -> Word]]
BY DEF _approve, LedgerInv, TypeOK

\* A burn moves an amount from the supply to the burned total.
LEMMA BurnLedger ==
    ASSUME LedgerInv, NEW from \in Account, NEW n \in Word, burn(from, n)
    PROVE  /\ balances' \in [Account -> Word]
           /\ totalSupply' \in Word /\ totalSupply' = totalSupply - n
           /\ burnedAmount' \in Word /\ burnedAmount' = burnedAmount + n
           /\ SupplyAccounted'
BY DEF burn, _burn, LedgerInv, TypeOK, SupplyAccounted, Word

\* A mint adds the fee and the rest to the supply, within the cap.
LEMMA MintLedger ==
    ASSUME LedgerInv, NEW by \in Account, NEW to \in Account,
           NEW value \in Word, NEW fee \in Word, safe2eth(by, to, value, fee)
    PROVE  /\ balances' \in [Account -> Word]
           /\ totalSupply' \in Word /\ minted' \in Nat
           /\ SupplyAccounted'
<1>1. [balances EXCEPT ![to] = @ + (value - fee)] \in [Account -> Word]
  BY DEF safe2eth, LedgerInv, TypeOK, Word
<1>2. balances' \in [Account -> Word]
  BY <1>1, CreditWord DEF safe2eth
<1> QED
  BY <1>2 DEF safe2eth, MayMint, LedgerInv, TypeOK, SupplyAccounted, Word

LEMMA LedgerStep == LedgerInv /\ [Next]_vars => LedgerInv'
<1> SUFFICES ASSUME LedgerInv, [Next]_vars
             PROVE  LedgerInv'
  OBVIOUS
<1>1. CASE UNCHANGED vars
  BY <1>1 DEF LedgerInv, TypeOK, SupplyAccounted, AnnouncedIsBurned, vars
<1>2. ASSUME NEW by \in Account, sender' = by, Tx(by)
      PROVE  LedgerInv'
  <2>1. CASE \E to \in Account, n \in Word : Transfer(by, to, n)
    BY <1>2, <2>1, TransferLedger DEF Transfer, unchangedSupply, LedgerInv, TypeOK,
       SupplyAccounted, AnnouncedIsBurned
  <2>2. CASE \E from, to \in Account, n \in Word : TransferFrom(by, from, to, n)
    <3> PICK from \in Account, to \in Account, n \in Word : TransferFrom(by, from, to, n)
      BY <2>2
    <3>1. allowances[from][by] - n \in Word
      BY DEF TransferFrom, LedgerInv, TypeOK, Word
    <3> QED
      BY <1>2, <3>1, TransferLedger, ApproveLedger DEF TransferFrom, unchangedSupply,
         LedgerInv, TypeOK, SupplyAccounted, AnnouncedIsBurned
  <2>3. CASE \E spender \in Account, n \in Word : Approve(by, spender, n)
    BY <1>2, <2>3, ApproveLedger DEF Approve, unchangedSupply, LedgerInv, TypeOK,
       SupplyAccounted, AnnouncedIsBurned
  <2>4. CASE \E spender \in Account, n \in Word : IncreaseAllowance(by, spender, n)
    <3> PICK spender \in Account, n \in Word : IncreaseAllowance(by, spender, n)
      BY <2>4
    <3>1. allowances[by][spender] + n \in Word
      BY DEF IncreaseAllowance, LedgerInv, TypeOK, Word
    <3> QED
      BY <1>2, <3>1, ApproveLedger DEF IncreaseAllowance, unchangedSupply, LedgerInv,
         TypeOK, SupplyAccounted, AnnouncedIsBurned
  <2>5. CASE \E spender \in Account, n \in Word : DecreaseAllowance(by, spender, n)
    <3> PICK spender \in Account, n \in Word : DecreaseAllowance(by, spender, n)
      BY <2>5
    <3>1. allowances[by][spender] - n \in Word
      BY DEF DecreaseAllowance, LedgerInv, TypeOK, Word
    <3> QED
      BY <1>2, <3>1, ApproveLedger DEF DecreaseAllowance, unchangedSupply, LedgerInv,
         TypeOK, SupplyAccounted, AnnouncedIsBurned
  <2>6. CASE \E n \in Word : Burn(by, n) \/ eth2safe(by, n)
    <3> PICK n \in Word : Burn(by, n) \/ eth2safe(by, n)
      BY <2>6
    <3>1. burn(by, n) /\ allowances' = allowances /\ announced' \in {announced, announced + n}
      BY DEF Burn, eth2safe
    <3>2. n \in Nat /\ announced \in Nat /\ announced <= burnedAmount /\ burnedAmount \in Nat
      BY DEF LedgerInv, TypeOK, AnnouncedIsBurned, Word
    <3>3. announced' \in Nat /\ announced' <= burnedAmount + n
      BY <3>1, <3>2
    <3> QED
      BY <1>2, <3>1, <3>3, BurnLedger DEF burn, LedgerInv, TypeOK, AnnouncedIsBurned
  <2>7. CASE \E from \in Account, n \in Word : BurnFrom(by, from, n) \/ eth2safe_from(by, from, n)
    <3> PICK from \in Account, n \in Word : BurnFrom(by, from, n) \/ eth2safe_from(by, from, n)
      BY <2>7
    <3>1. burnFrom(by, from, n) /\ announced' \in {announced, announced + n}
      BY DEF BurnFrom, eth2safe_from
    <3>2. n \in Nat /\ announced \in Nat /\ announced <= burnedAmount /\ burnedAmount \in Nat
      BY DEF LedgerInv, TypeOK, AnnouncedIsBurned, Word
    <3>3. announced' \in Nat /\ announced' <= burnedAmount + n
      BY <3>1, <3>2
    <3>4. allowances[from][by] - n \in Word
      BY <3>1 DEF burnFrom, LedgerInv, TypeOK, Word
    <3> QED
      BY <1>2, <3>1, <3>3, <3>4, BurnLedger, ApproveLedger
         DEF burnFrom, burn, LedgerInv, TypeOK, AnnouncedIsBurned
  <2>8. CASE RenounceOwnership(by) \/ (\E newOwner \in Account : TransferOwnership(by, newOwner))
    BY <1>2, <2>8 DEF RenounceOwnership, TransferOwnership, LedgerInv, TypeOK,
       SupplyAccounted, AnnouncedIsBurned
  <2>9. CASE \E to \in Account, value, fee \in Word : safe2eth(by, to, value, fee)
    BY <1>2, <2>9, MintLedger DEF safe2eth, LedgerInv, TypeOK, AnnouncedIsBurned
  <2> QED
    BY <1>2, <2>1, <2>2, <2>3, <2>4, <2>5, <2>6, <2>7, <2>8, <2>9 DEF Tx
<1> QED
  BY <1>1, <1>2 DEF Next

\* The types and the four totals of the contract hold after every transaction
\* (SAFEToken).
THEOREM LedgerInvariance == Spec => []LedgerInv
<1> QED
  BY LedgerInit, LedgerStep, PTL DEF Spec

\* Every amount in the contract stays a word: no SafeMath operation that
\* went through wrapped around.
THEOREM TypeCorrect == Spec => []TypeOK
<1>1. LedgerInv => TypeOK
  BY DEF LedgerInv
<1> QED
  BY <1>1, LedgerInvariance, PTL

\* The supply respects the cap and equals what was minted less what was burned.
THEOREM SupplyAccountedThm == Spec => []SupplyAccounted
<1>1. LedgerInv => SupplyAccounted
  BY DEF LedgerInv
<1> QED
  BY <1>1, LedgerInvariance, PTL

\* The other chain is never asked for more than was burned here.
THEOREM AnnouncedIsBurnedThm == Spec => []AnnouncedIsBurned
<1>1. LedgerInv => AnnouncedIsBurned
  BY DEF LedgerInv
<1> QED
  BY <1>1, LedgerInvariance, PTL

-----------------------------------------------------------------------------
(* The supply and the balances. *)

Total(b) == SumFunctionOnSet(b, Account)

LEMMA SupplyIsTotal ==
    ASSUME LedgerInv
    PROVE  SupplyIsSumOfBalances <=> totalSupply = Total(balances)
<1>1. DOMAIN balances = Account
  BY DEF LedgerInv, TypeOK
<1> QED
  BY <1>1 DEF SupplyIsSumOfBalances, SumFunction, Total

LEMMA TotalInt == ASSUME NEW b \in [Account -> Int] PROVE Total(b) \in Int
<1>1. \A a \in Account : b[a] \in Int
  OBVIOUS
<1> QED
  BY <1>1, SumInt DEF Total

\* One balance is overwritten.
LEMMA TotalChange ==
    ASSUME NEW b \in [Account -> Int], NEW c \in [Account -> Int], NEW a \in Account,
           \A x \in Account : x # a => c[x] = b[x]
    PROVE  Total(c) = Total(b) - b[a] + c[a]
<1>1. \A x \in Account : b[x] \in Int /\ c[x] \in Int
  OBVIOUS
<1>2. SumFunctionOnSet(c, Account) = SumFunctionOnSet(b, Account) - b[a] + c[a]
  BY <1>1, SumChange
<1> QED
  BY <1>2 DEF Total

\* Credits and debits change the total by their amount.
LEMMA AddTotal ==
    ASSUME NEW b \in [Account -> Int], NEW a \in Account, NEW n \in Int,
           NEW c, c = [b EXCEPT ![a] = @ + n]
    PROVE  c \in [Account -> Int] /\ Total(c) = Total(b) + n
<1>1. /\ c \in [Account -> Int] /\ c[a] = b[a] + n /\ b[a] \in Int
      /\ \A x \in Account : x # a => c[x] = b[x]
  OBVIOUS
<1>2. Total(c) = Total(b) - b[a] + c[a] /\ Total(b) \in Int
  BY <1>1, TotalChange, TotalInt
<1> QED
  BY <1>1, <1>2

LEMMA CreditTotal ==
    ASSUME NEW b \in [Account -> Int], NEW a \in Account, NEW n \in Int, credit(b, a, n)
    PROVE  Total(balances') = Total(b) + n
BY AddTotal DEF credit

LEMMA DebitTotal ==
    ASSUME NEW b \in [Account -> Int], NEW a \in Account, NEW n \in Int,
           NEW c, c = [b EXCEPT ![a] = @ - n]
    PROVE  c \in [Account -> Int] /\ Total(c) = Total(b) - n
<1>1. /\ c \in [Account -> Int] /\ c[a] = b[a] - n /\ b[a] \in Int
      /\ \A x \in Account : x # a => c[x] = b[x]
  OBVIOUS
<1>2. Total(c) = Total(b) - b[a] + c[a] /\ Total(b) \in Int
  BY <1>1, TotalChange, TotalInt
<1> QED
  BY <1>1, <1>2

\* A transfer moves as much as it takes, also to the sender itself.
LEMMA TransferTotal ==
    ASSUME balances \in [Account -> Int], NEW from \in Account, NEW to \in Account,
           NEW n \in Int, _transfer(from, to, n)
    PROVE  Total(balances') = Total(balances)
<1> DEFINE b == [balances EXCEPT ![from] = @ - n]
<1>1. \A c : c = b => c \in [Account -> Int] /\ Total(c) = Total(balances) - n
  BY ONLY balances \in [Account -> Int], from \in Account, n \in Int, DebitTotal
<1>2. credit(b, to, n)
  BY DEF _transfer
<1>3. Total(balances) \in Int
  BY TotalInt
<1> HIDE DEF b
<1>4. Total(balances') = Total(b) + n
  BY <1>1, <1>2, CreditTotal
<1> QED
  BY <1>1, <1>3, <1>4

LEMMA BurnTotal ==
    ASSUME balances \in [Account -> Int], totalSupply = Total(balances),
           NEW from \in Account, NEW n \in Int, burn(from, n)
    PROVE  totalSupply' = Total(balances')
<1>1. PICK c : c = [balances EXCEPT ![from] = @ - n]
  OBVIOUS
<1>2. balances' = c /\ totalSupply' = totalSupply - n
  BY <1>1 DEF burn, _burn
<1>3. \A d : d = [balances EXCEPT ![from] = @ - n] =>
              d \in [Account -> Int] /\ Total(d) = Total(balances) - n
  BY ONLY balances \in [Account -> Int], from \in Account, n \in Int, DebitTotal
<1> QED
  BY <1>1, <1>2, <1>3

\* Both mints of safe2eth, also when the user is the owner.
LEMMA MintTotal ==
    ASSUME balances \in [Account -> Int], totalSupply = Total(balances),
           NEW by \in Account, NEW to \in Account, NEW value \in Int, NEW fee \in Int,
           safe2eth(by, to, value, fee)
    PROVE  totalSupply' = Total(balances')
<1> DEFINE b == [balances EXCEPT ![to] = @ + (value - fee)]
<1>1. b \in [Account -> Int] /\ Total(b) = Total(balances) + (value - fee)
  <2>1. ASSUME NEW n \in Int
        PROVE  /\ [balances EXCEPT ![to] = @ + n] \in [Account -> Int]
               /\ Total([balances EXCEPT ![to] = @ + n]) = Total(balances) + n
    BY AddTotal
  <2>2. value - fee \in Int
    OBVIOUS
  <2> QED
    BY <2>1, <2>2, Zenon
<1>2. credit(b, by, fee) /\ totalSupply' = totalSupply + value
  BY DEF safe2eth
<1>3. Total(balances) \in Int
  BY TotalInt
<1> HIDE DEF b
<1>4. Total(balances') = Total(b) + fee
  BY <1>1, <1>2, CreditTotal
<1> QED
  BY <1>1, <1>2, <1>3, <1>4

LEMMA TotalStep ==
    ASSUME LedgerInv, totalSupply = Total(balances), [Next]_vars
    PROVE  totalSupply' = Total(balances')
<1>1. balances \in [Account -> Int] /\ \A n \in Word : n \in Int
  BY DEF LedgerInv, TypeOK, Word
<1>2. CASE UNCHANGED <<balances, totalSupply>>
  BY <1>2
<1>3. CASE UNCHANGED vars
  BY <1>2, <1>3 DEF vars
<1>4. ASSUME NEW by \in Account, Tx(by)
      PROVE  totalSupply' = Total(balances')
  <2>1. CASE \E to \in Account, n \in Word : Transfer(by, to, n)
    BY <1>1, <2>1, TransferTotal DEF Transfer, unchangedSupply
  <2>2. CASE \E from, to \in Account, n \in Word : TransferFrom(by, from, to, n)
    BY <1>1, <2>2, TransferTotal DEF TransferFrom, unchangedSupply
  <2>3. CASE \E n \in Word : Burn(by, n) \/ eth2safe(by, n)
    BY <1>1, <2>3, BurnTotal DEF Burn, eth2safe
  <2>4. CASE \E from \in Account, n \in Word : BurnFrom(by, from, n) \/ eth2safe_from(by, from, n)
    BY <1>1, <2>4, BurnTotal DEF BurnFrom, eth2safe_from, burnFrom
  <2>5. CASE \E to \in Account, value, fee \in Word : safe2eth(by, to, value, fee)
    BY <1>1, <2>5, MintTotal
  <2> QED
    BY <1>2, <1>4, <2>1, <2>2, <2>3, <2>4, <2>5 DEF Tx, Approve, IncreaseAllowance,
       DecreaseAllowance, RenounceOwnership, TransferOwnership, unchangedSupply
<1> QED
  BY <1>3, <1>4 DEF Next

\* What exists is what the accounts hold, for every set of accounts.
THEOREM SupplyIsSumOfBalancesThm == Spec => []SupplyIsSumOfBalances
<1> DEFINE TotalInv == LedgerInv /\ totalSupply = Total(balances)
<1>1. Init => TotalInv
  <2> SUFFICES ASSUME Init PROVE Total([a \in Account |-> 0]) = 0
    BY LedgerInit DEF Init
  <2> DEFINE z == [a \in Account |-> 0]
  <2>1. \A a \in Account : z[a] = 0
    OBVIOUS
  <2> HIDE DEF z
  <2> QED
    BY <2>1, SumZero DEF Total
<1>2. TotalInv /\ [Next]_vars => TotalInv'
  BY LedgerStep, TotalStep
<1>3. TotalInv => SupplyIsSumOfBalances
  BY SupplyIsTotal
<1> HIDE DEF TotalInv
<1> QED
  BY <1>1, <1>2, <1>3, PTL DEF Spec

-----------------------------------------------------------------------------
\* Nobody can debit an account without its transaction or its allowance.
THEOREM DebitsAreAuthorisedThm == Spec => DebitsAreAuthorised
<1> DEFINE Authorised ==
      \A a \in Account : balances'[a] < balances[a] =>
        \/ sender' = a
        \/ allowances[a][sender'] - allowances'[a][sender'] = balances[a] - balances'[a]
<1>1. LedgerInv /\ [Next]_vars => [Authorised]_vars
  <2> SUFFICES ASSUME LedgerInv, NEW by \in Account, sender' = by, Tx(by),
                      NEW a \in Account, balances'[a] < balances[a], by # a
               PROVE  allowances[a][by] - allowances'[a][by] = balances[a] - balances'[a]
    BY DEF Next
  <2>0. /\ balances \in [Account -> Word] /\ allowances \in [Account -> [Account -> Word]]
    BY DEF LedgerInv, TypeOK
  <2>1. ASSUME NEW from \in Account, NEW to \in Account, NEW n \in Word,
               _transfer(from, to, n)
        PROVE  a = from /\ a # to /\ balances'[a] = balances[a] - n
    <3>1. CASE from = to
      BY <2>0, <2>1, <3>1 DEF _transfer, credit, Word
    <3>2. CASE from # to
      BY <2>0, <2>1, <3>2 DEF _transfer, credit, Word
    <3> QED
      BY <3>1, <3>2
  <2>2. ASSUME NEW from \in Account, NEW n \in Word, _burn(from, n)
        PROVE  a = from /\ balances'[a] = balances[a] - n
    BY <2>0, <2>2 DEF _burn, Word
  <2>3. ASSUME NEW from \in Account, NEW n \in Word, n <= allowances[from][by],
               _approve(from, by, allowances[from][by] - n),
               a = from, balances'[a] = balances[a] - n
        PROVE  allowances[a][by] - allowances'[a][by] = balances[a] - balances'[a]
    BY <2>0, <2>3 DEF _approve, Word
  <2>4. CASE \E to \in Account, n \in Word : Transfer(by, to, n)
    BY <2>1, <2>4 DEF Transfer
  <2>5. CASE \E from, to \in Account, n \in Word : TransferFrom(by, from, to, n)
    BY <2>1, <2>3, <2>5 DEF TransferFrom
  <2>6. CASE \E n \in Word : Burn(by, n) \/ eth2safe(by, n)
    BY <2>2, <2>6 DEF Burn, eth2safe, burn
  <2>7. CASE \E from \in Account, n \in Word : BurnFrom(by, from, n) \/ eth2safe_from(by, from, n)
    BY <2>2, <2>3, <2>7 DEF BurnFrom, eth2safe_from, burnFrom, burn
  <2>8. CASE \E to \in Account, value, fee \in Word : safe2eth(by, to, value, fee)
    BY <2>0, <2>8 DEF safe2eth, credit, Word
  <2>9. CASE balances' = balances
    BY <2>0, <2>9 DEF Word
  <2> QED
    BY <2>4, <2>5, <2>6, <2>7, <2>8, <2>9 DEF Tx, Approve, IncreaseAllowance,
       DecreaseAllowance, RenounceOwnership, TransferOwnership
<1>2. DebitsAreAuthorised <=> [][Authorised]_vars
  BY DEF DebitsAreAuthorised
<1> HIDE DEF Authorised
<1> QED
  BY <1>1, <1>2, LedgerInvariance, PTL DEF Spec

\* A renounced contract never mints again.
THEOREM RenouncedIsForeverThm == Spec => RenouncedIsForever
<1> DEFINE Frozen == owner = Zero => owner' = Zero /\ totalSupply' <= totalSupply
<1>1. LedgerInv /\ [Next]_vars => [Frozen]_vars
  <2> SUFFICES ASSUME LedgerInv, NEW by \in Account, Tx(by), owner = Zero
               PROVE  owner' = Zero /\ totalSupply' <= totalSupply
    BY DEF Next
  <2>1. totalSupply \in Nat /\ by # owner
    BY DEF LedgerInv, TypeOK, Word
  <2>2. ASSUME NEW from \in Account, NEW n \in Word, burn(from, n)
        PROVE  owner' = Zero /\ totalSupply' <= totalSupply
    BY <2>1, <2>2 DEF burn, _burn, Word
  <2>3. CASE \E n \in Word : Burn(by, n) \/ eth2safe(by, n)
    BY <2>2, <2>3 DEF Burn, eth2safe
  <2>4. CASE \E from \in Account, n \in Word : BurnFrom(by, from, n) \/ eth2safe_from(by, from, n)
    BY <2>2, <2>4 DEF BurnFrom, eth2safe_from, burnFrom
  <2>5. CASE owner = by
    BY <2>1, <2>5
  <2>6. CASE owner' = owner /\ totalSupply' = totalSupply
    BY <2>1, <2>6
  <2> QED
    BY <2>3, <2>4, <2>5, <2>6 DEF Tx, Transfer, TransferFrom, Approve, IncreaseAllowance,
       DecreaseAllowance, unchangedSupply, RenounceOwnership, TransferOwnership, safe2eth
<1>2. RenouncedIsForever <=> [][Frozen]_vars
  BY DEF RenouncedIsForever
<1> HIDE DEF Frozen
<1> QED
  BY <1>1, <1>2, LedgerInvariance, PTL DEF Spec
=============================================================================
