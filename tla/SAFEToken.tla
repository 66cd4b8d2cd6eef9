------------------------------ MODULE SAFEToken ------------------------------
(***************************************************************************)
(* The contract SAFEToken of nodejs/safe.sol: an ERC-20 token with an      *)
(* owner, a cap on its supply, burning, and the three entry points of the  *)
(* bridge (safe2eth mints, eth2safe and eth2safe_from burn and emit the    *)
(* event that asks for SAFE on the other chain).  A transaction runs       *)
(* alone; one that a require or SafeMath reverts changes nothing, so it is *)
(* no step here.  Amounts are words of the EVM: 0..MaxUint.  An operator   *)
(* named X_Y is X with the mistake Y.                                      *)
(***************************************************************************)
EXTENDS Naturals, FiniteSets, Functions

CONSTANTS
    Account,   \* addresses other than address(0)
    Zero,      \* address(0)
    Deployer,  \* who deploys the contract
    Cap,       \* 3E25 in the code
    MaxUint    \* 2^256 - 1 in the EVM

ASSUME AccountAssumption ==
    IsFiniteSet(Account) /\ Zero \notin Account /\ Deployer \in Account
ASSUME WordAssumption == Cap \in Nat \ {0} /\ MaxUint \in Nat /\ Cap <= MaxUint

VARIABLES
    balances, allowances, totalSupply, burnedAmount, owner,
    sender,    \* history: who sent the last transaction
    minted,    \* history: everything ever minted
    announced  \* history: the amounts of all Eth2Safe_Event so far

vars == <<balances, allowances, totalSupply, burnedAmount, owner,
          sender, minted, announced>>

Word == 0..MaxUint

TypeOK ==
    /\ balances \in [Account -> Word]
    /\ allowances \in [Account -> [Account -> Word]]
    /\ totalSupply \in Word
    /\ burnedAmount \in Word
    /\ owner \in Account \cup {Zero}
    /\ sender \in Account
    /\ minted \in Nat
    /\ announced \in Nat

Init ==
    /\ balances = [a \in Account |-> 0]
    /\ allowances = [a \in Account |-> [b \in Account |-> 0]]
    /\ totalSupply = 0
    /\ burnedAmount = 0
    /\ owner = Deployer
    /\ sender = Deployer
    /\ minted = 0
    /\ announced = 0

-----------------------------------------------------------------------------
(* The internal functions: their require clauses and their effects. *)

_transfer_Stale(from, to, n) ==
    /\ n <= balances[from]
    /\ balances' = [balances EXCEPT ![from] = balances[from] - n,
                                   ![to]   = balances[to] + n]

\* _balances[account] = _balances[account].add(n), starting from bal.
credit(bal, account, n) ==
    /\ bal[account] + n <= MaxUint
    /\ balances' = [bal EXCEPT ![account] = @ + n]

\* The sender is debited before the balance of the recipient is read.
_transfer(from, to, n) ==
    /\ n <= balances[from]
    /\ credit([balances EXCEPT ![from] = @ - n], to, n)

_approve(holder, spender, n) ==
    allowances' = [allowances EXCEPT ![holder][spender] = n]

\* _beforeTokenTransfer, the hook of both _mint calls.
MayMint(n) == totalSupply + n <= Cap

_burn(from, n) ==
    /\ n <= balances[from] /\ n <= totalSupply
    /\ balances' = [balances EXCEPT ![from] = @ - n]
    /\ totalSupply' = totalSupply - n

burn_NoCheck(from, n) ==
    /\ n > 0
    /\ burnedAmount' = burnedAmount + n
    /\ _burn(from, n)
    /\ UNCHANGED <<owner, minted>>

\* burnedAmount only grows, so SafeMath bounds what can ever be burned.
burn(from, n) ==
    /\ n > 0
    /\ burnedAmount + n <= MaxUint
    /\ burnedAmount' = burnedAmount + n
    /\ _burn(from, n)
    /\ UNCHANGED <<owner, minted>>

burnFrom_NoAllowance(by, from, n) ==
    /\ burn(from, n)
    /\ UNCHANGED allowances

burnFrom(by, from, n) ==
    /\ n <= allowances[from][by]
    /\ _approve(from, by, allowances[from][by] - n)
    /\ burn(from, n)

-----------------------------------------------------------------------------
(* The transactions. *)

unchangedSupply == UNCHANGED <<totalSupply, burnedAmount, owner, minted, announced>>

Transfer(by, to, n) ==
    /\ _transfer(by, to, n)
    /\ unchangedSupply /\ UNCHANGED allowances

TransferFrom(by, from, to, n) ==
    /\ n <= allowances[from][by]
    /\ _transfer(from, to, n)
    /\ _approve(from, by, allowances[from][by] - n)
    /\ unchangedSupply

Approve(by, spender, n) ==
    /\ _approve(by, spender, n)
    /\ unchangedSupply /\ UNCHANGED balances

IncreaseAllowance(by, spender, n) ==
    /\ allowances[by][spender] + n <= MaxUint
    /\ _approve(by, spender, allowances[by][spender] + n)
    /\ unchangedSupply /\ UNCHANGED balances

DecreaseAllowance(by, spender, n) ==
    /\ n <= allowances[by][spender]
    /\ _approve(by, spender, allowances[by][spender] - n)
    /\ unchangedSupply /\ UNCHANGED balances

Burn(by, n) == burn(by, n) /\ UNCHANGED <<allowances, announced>>
BurnFrom(by, from, n) == burnFrom(by, from, n) /\ UNCHANGED announced

RenounceOwnership(by) ==
    /\ owner = by
    /\ owner' = Zero
    /\ UNCHANGED <<balances, allowances, totalSupply, burnedAmount, minted, announced>>

TransferOwnership_AnyCaller(by, newOwner) ==
    /\ owner' = newOwner
    /\ UNCHANGED <<balances, allowances, totalSupply, burnedAmount, minted, announced>>

TransferOwnership(by, newOwner) ==
    /\ owner = by
    /\ owner' = newOwner
    /\ UNCHANGED <<balances, allowances, totalSupply, burnedAmount, minted, announced>>

safe2eth_FeeAboveCap(by, to, value, fee) ==
    /\ owner = by
    /\ value >= fee
    /\ MayMint(value - fee)
    /\ balances[to] + (value - fee) <= MaxUint
    /\ credit([balances EXCEPT ![to] = @ + (value - fee)], by, fee)
    /\ totalSupply' = totalSupply + value
    /\ minted' = minted + value
    /\ UNCHANGED <<allowances, burnedAmount, owner, announced>>

\* Two mints: value less the fee for the user, the fee for the owner; the
\* cap is checked before each.
safe2eth(by, to, value, fee) ==
    /\ owner = by
    /\ value >= fee
    /\ MayMint(value - fee) /\ MayMint(value)
    /\ balances[to] + (value - fee) <= MaxUint
    /\ credit([balances EXCEPT ![to] = @ + (value - fee)], by, fee)
    /\ totalSupply' = totalSupply + value
    /\ minted' = minted + value
    /\ UNCHANGED <<allowances, burnedAmount, owner, announced>>

eth2safe_InternalBurn(by, n) ==
    /\ n > 0
    /\ _burn(by, n)
    /\ announced' = announced + n
    /\ UNCHANGED <<allowances, burnedAmount, owner, minted>>

eth2safe(by, n) ==
    /\ burn(by, n)
    /\ announced' = announced + n
    /\ UNCHANGED allowances

eth2safe_from(by, from, n) ==
    /\ burnFrom(by, from, n)
    /\ announced' = announced + n

Tx(by) ==
    \/ \E to \in Account, n \in Word : Transfer(by, to, n)
    \/ \E from, to \in Account, n \in Word : TransferFrom(by, from, to, n)
    \/ \E spender \in Account, n \in Word : Approve(by, spender, n)
    \/ \E spender \in Account, n \in Word : IncreaseAllowance(by, spender, n)
    \/ \E spender \in Account, n \in Word : DecreaseAllowance(by, spender, n)
    \/ \E n \in Word : Burn(by, n)
    \/ \E from \in Account, n \in Word : BurnFrom(by, from, n)
    \/ RenounceOwnership(by)
    \/ \E newOwner \in Account : TransferOwnership(by, newOwner)
    \/ \E to \in Account, value, fee \in Word : safe2eth(by, to, value, fee)
    \/ \E n \in Word : eth2safe(by, n)
    \/ \E from \in Account, n \in Word : eth2safe_from(by, from, n)

Next == \E by \in Account : sender' = by /\ Tx(by)

Spec == Init /\ [][Next]_vars

-----------------------------------------------------------------------------
(* Properties. *)

\* The supply never exceeds the cap, the second mint of safe2eth (the fee)
\* included, and what was minted is what exists plus what was burned: no
\* path of the contract creates or destroys tokens unaccounted.
SupplyAccounted ==
    /\ totalSupply <= Cap
    /\ minted = totalSupply + burnedAmount

\* The supply is the sum of the balances: a transfer to oneself, a mint to
\* the owner and a burn by a spender move as much as they take.
SupplyIsSumOfBalances == totalSupply = SumFunction(balances)

\* Every amount announced to the other chain has been burned here first, so
\* the SAFE the daemon is asked to pay out is no longer on Ethereum.
AnnouncedIsBurned == announced <= burnedAmount

\* Tokens leave an account only by its own transaction or by using up as much
\* of the allowance it gave to the sender.
DebitsAreAuthorised ==
    [][\A a \in Account : balances'[a] < balances[a] =>
         \/ sender' = a
         \/ allowances[a][sender'] - allowances'[a][sender'] = balances[a] - balances'[a]]_vars

\* Once the ownership is renounced nothing can ever be minted again: the
\* supply can only shrink.
RenouncedIsForever ==
    [][owner = Zero => owner' = Zero /\ totalSupply' <= totalSupply]_vars
=============================================================================
