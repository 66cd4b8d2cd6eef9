----------------------------- MODULE Settlement -----------------------------
(***************************************************************************)
(* What either half of the bridge promises, without its machinery: claims  *)
(* are filed (a deposit, a burn) and each is settled by one transfer on    *)
(* the other chain (a mint, a payout).  The transfer and the news of it    *)
(* are separate events, and the news can be lost: an attempt is then in    *)
(* doubt for ever, it may or may not have moved money, or may still do so. *)
(* MintRelay and BurnRelay implement this specification; Bridge is built   *)
(* from two instances of it.  An attempt is a pair of a claim and a number *)
(* that tells the attempts apart.                                          *)
(***************************************************************************)
CONSTANT Claim

VARIABLES
    filed,      \* claims on the books
    open,       \* the attempt under way: one at most
    doubtful,   \* attempts given up without knowing their outcome
    effective,  \* attempts that moved money
    settled     \* attempts recorded as the settlement of their claim

vars == <<filed, open, doubtful, effective, settled>>

Init ==
    /\ filed = {}
    /\ open = {}
    /\ doubtful = {}
    /\ effective = {}
    /\ settled = {}

File(k) ==
    /\ k \in Claim \ filed
    /\ filed' = filed \cup {k}
    /\ UNCHANGED <<open, doubtful, effective, settled>>

\* Only a claim that nothing settles is attempted, under a number of its own.
Start(a) ==
    /\ open = {}
    /\ a[1] \in filed
    /\ \A s \in settled : s[1] # a[1]
    /\ a \notin doubtful \cup effective \cup settled
    /\ open' = {a}
    /\ UNCHANGED <<filed, doubtful, effective, settled>>

\* Money moves at most once per attempt, also long after it was given up.
TakeEffect(a) ==
    /\ a \in open \cup doubtful
    /\ a \notin effective
    /\ effective' = effective \cup {a}
    /\ UNCHANGED <<filed, open, doubtful, settled>>

LoseTrack(a) ==
    /\ a \in open
    /\ open' = {}
    /\ doubtful' = doubtful \cup {a}
    /\ UNCHANGED <<filed, effective, settled>>

\* A settlement is recorded only for money that has moved.
Settle(a) ==
    /\ a \in open \cap effective
    /\ open' = {}
    /\ settled' = settled \cup {a}
    /\ UNCHANGED <<filed, doubtful, effective>>

\* Start is written with open' so that a step can be recognised without
\* enumerating the numbers.
Next ==
    \/ \E k \in Claim : File(k)
    \/ \E a \in open' : Start(a)
    \/ \E a \in open \cup doubtful : TakeEffect(a)
    \/ \E a \in open : LoseTrack(a) \/ Settle(a)

Spec == Init /\ [][Next]_vars

-----------------------------------------------------------------------------
\* Of two attempts that moved money for one claim, one is in doubt: doubled
\* payments come from lost news and from nothing else.
DoubledOnlyInDoubt ==
    \A a, b \in effective :
      a[1] = b[1] /\ a # b => a \in doubtful \/ b \in doubtful

\* A recorded settlement has moved money, and is the only one of its claim.
SettledOnce ==
    /\ settled \subseteq effective
    /\ \A a, b \in settled : a[1] = b[1] => a = b

\* Inductive: whatever moved money is under way, in doubt or recorded; what is
\* under way belongs to a claim that nothing settles.
IInv ==
    /\ \A a, b \in open : a = b
    /\ \A a \in open : a \notin doubtful /\ \A s \in settled : s[1] # a[1]
    /\ effective \subseteq open \cup doubtful \cup settled
    /\ SettledOnce
=============================================================================
