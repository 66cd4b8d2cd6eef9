------------------------------- MODULE MCIntake -------------------------------
(* A small instance of Intake: a chain with one transaction of each kind. *)
EXTENDS Intake, TLC

Good(a) == [chars |-> 188, tag |-> TRUE, pad |-> <<>>, prefix |-> TRUE,
            address |-> a, length |-> 42, blanks |-> 0]
Out(v, r) == [txType |-> 1, nUnlockedHeight |-> 0, value |-> v, addresses |-> {"bridge"}, reserve |-> r]
Paid(outs) == [coinbase |-> FALSE, confirmations |-> 2, vout |-> outs]

\* Amounts are in hundredths of a SAFE.
MCChain == <<
    Paid(<<Out(200, Good("a"))>>),
    Paid(<<Out(300, Good("a")), Out(100, Good("b")),                \* two deposits,
           [Out(900, Good("c")) EXCEPT !.addresses = {"other"}]>>),   \* and the change
    Paid(<<[Out(400, Good("a")) EXCEPT !.nUnlockedHeight = 7],
           [Out(400, Good("a")) EXCEPT !.txType = 2],
           Out(200, [Good("a") EXCEPT !.pad = <<32>>, !.chars = 190])>>),
    Paid(<<Out(5, Good("b"))>>),              \* less than the default minimum
    Paid(<<Out(200, [Good("a") EXCEPT !.pad = <<20>>, !.chars = 190]),
           Out(200, [Good("d") EXCEPT !.length = 41, !.blanks = 1])>>),
    [Paid(<<Out(120, Good("b"))>>) EXCEPT !.confirmations = 1],
    [Paid(<<Out(500, Good("b"))>>) EXCEPT !.coinbase = TRUE] >>

MCDefaults == "g_need_confirms" :> 1 @@ "g_min_value" :> 10 @@ "g_txfee" :> 10
MCFiles == {MCDefaults,
            "g_min_value" :> 100 @@ "g_need_confirms" :> 2,
            "g_min_value" :> 150 @@ "g_txfee" :> 30}
=============================================================================
