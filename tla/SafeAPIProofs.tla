---------------------------- MODULE SafeAPIProofs ----------------------------
(***************************************************************************)
(* Proofs about SafeAPI for every set of sessions of any length.  IInv: at *)
(* most one request of a call is under way, and the answer to the waiting  *)
(* call tells of it.  Asked: a request carries its call's parameters and   *)
(* the ledger holds what they say.  Shown and Told: what is on its way to  *)
(* a query, and what the last one told, is right of the ledger.            *)
(***************************************************************************)
EXTENDS SafeAPI, TLAPS

IsSeq(s) == \E S : s \in Seq(S)

LEMMA SeqFacts ==
    ASSUME NEW s, IsSeq(s)
    PROVE  Len(s) \in Nat /\ DOMAIN s = 1..Len(s)
BY DEF IsSeq

LEMMA AppendFacts ==
    ASSUME NEW s, IsSeq(s), NEW e
    PROVE  /\ IsSeq(Append(s, e)) /\ Len(Append(s, e)) = Len(s) + 1
           /\ DOMAIN Append(s, e) = 1..(Len(s) + 1)
           /\ \A i \in 1..Len(s) : Append(s, e)[i] = s[i]
           /\ Append(s, e)[Len(s) + 1] = e
<1>1. PICK S : s \in Seq(S)
  BY DEF IsSeq
<1>2. s \in Seq(S \cup {e}) /\ e \in S \cup {e}
  BY <1>1
<1> HIDE <1>1
<1> DEFINE T == S \cup {e}
<1>3. s \in Seq(T) /\ e \in T
  BY <1>2
<1> HIDE DEF T
<1>4. Append(s, e) \in Seq(T)
  BY <1>3
<1> QED
  BY <1>3, <1>4 DEF IsSeq

LEMMA OutcomeFacts ==
    ASSUME NEW s, IsSeq(s), NEW i \in DOMAIN s, "outcome" \in DOMAIN s[i], NEW o
    PROVE  LET t == [s EXCEPT ![i].outcome = o] IN
           /\ IsSeq(t) /\ Len(t) = Len(s) /\ DOMAIN t = DOMAIN s
           /\ \A j \in DOMAIN s : j # i => t[j] = s[j]
           /\ t[i].outcome = o /\ "outcome" \in DOMAIN t[i]
<1> DEFINE c == [s[i] EXCEPT !.outcome = o]
           t == [s EXCEPT ![i] = c]
<1>1. PICK S : s \in Seq(S)
  BY DEF IsSeq
<1> DEFINE T == S \cup {c}
<1>2. c.outcome = o /\ "outcome" \in DOMAIN c
  OBVIOUS
<1>3. s \in Seq(T) /\ c \in T
  BY <1>1
<1> HIDE DEF T, c
<1>4. t \in Seq(T) /\ Len(t) = Len(s)
  BY <1>3
<1>5. DOMAIN t = DOMAIN s /\ t[i] = c /\ \A j \in DOMAIN s : j # i => t[j] = s[j]
  BY <1>3
<1>6. [s EXCEPT ![i].outcome = o] = t
  BY DEF t, c
<1> QED
  BY <1>2, <1>4, <1>5, <1>6 DEF IsSeq

-----------------------------------------------------------------------------
(* The inductive invariant. *)

\* The open call is the one that waits.
Books ==
    /\ IsSeq(calls) /\ IsSeq(ledger)
    /\ \A i \in DOMAIN calls : /\ "outcome" \in DOMAIN calls[i]
                              /\ calls[i].outcome.end = "open" <=> waiting.by = i

\* Of a call at most one request is under way, and none once it was executed.
Requests ==
    /\ waiting = Nobody \/ waiting.by \in 0..Len(calls)
    /\ \A r \in atNode : r.by \in 0..Len(calls) /\ ~Done(r.by)
    /\ \A r, q \in atNode \cup {waiting} : r.by = q.by /\ r.by \in 1..Len(calls) => r = q
    /\ \A k \in DOMAIN ledger : ledger[k].by \in 1..Len(calls)

\* The answer under way tells of the call that waits for it.
Replies ==
    /\ reply.kind \in {"none", "result", "error"}
    /\ reply.kind # "none" => waiting # Nobody /\ waiting \notin atNode
    /\ reply.kind = "result" /\ waiting.by \in 1..Len(calls) => Done(waiting.by)
    /\ reply.kind = "error" /\ BitcoinException(reply) \notin Inconclusive
         => ~Done(waiting.by)

IInv == Books /\ Requests /\ Replies /\ ExecutedOnce /\ OutcomesAreTrue

LEMMA Lengths ==
    ASSUME IInv
    PROVE  /\ Len(calls) \in Nat /\ DOMAIN calls = 1..Len(calls)
           /\ Len(ledger) \in Nat /\ DOMAIN ledger = 1..Len(ledger)
BY SeqFacts DEF IInv, Books

-----------------------------------------------------------------------------
(* The caller's steps. *)

LEMMA AskStep ==
    ASSUME IInv, waiting = Nobody, NEW r,
           waiting' = r, atNode' = atNode \cup {r}, ledger' = ledger, reply' = reply,
           \/ r.by = 0 /\ calls' = calls
           \/ /\ r.by = Len(calls) + 1
              /\ \E c : "outcome" \in DOMAIN c /\ c.outcome.end = "open" /\ calls' = Append(calls, c)
    PROVE  IInv'
<1> USE Lengths
<1>1. reply.kind = "none"
  BY DEF IInv, Replies
<1>2. \A i : Done(i)' = Done(i)
  BY DEF Done
<1>3. waiting' # Nobody /\ waiting.by = -1
  BY DEF Nobody
<1>4. CASE r.by = 0 /\ calls' = calls
  <2>1. Books'
    BY <1>3, <1>4 DEF IInv, Books
  <2>2. Requests'
    <3>1. ~Done(0)
      BY DEF IInv, Requests, Done
    <3> QED
      BY <1>2, <1>3, <1>4, <3>1 DEF IInv, Requests
  <2>3. OutcomesAreTrue'
    BY <1>2, <1>4 DEF IInv, OutcomesAreTrue, Pending
  <2>4. Replies' /\ ExecutedOnce'
    BY <1>1 DEF IInv, Replies, ExecutedOnce
  <2> QED
    BY <2>1, <2>2, <2>3, <2>4 DEF IInv
<1>5. CASE /\ r.by = Len(calls) + 1
           /\ \E c : "outcome" \in DOMAIN c /\ c.outcome.end = "open" /\ calls' = Append(calls, c)
  <2>1. PICK c : "outcome" \in DOMAIN c /\ c.outcome.end = "open" /\ calls' = Append(calls, c)
    BY <1>5
  <2>2. /\ IsSeq(calls') /\ Len(calls') = Len(calls) + 1
        /\ DOMAIN calls' = 1..(Len(calls) + 1)
        /\ \A i \in 1..Len(calls) : calls'[i] = calls[i]
        /\ calls'[Len(calls) + 1] = c
    BY <2>1, AppendFacts DEF IInv, Books
  <2>3. Books'
    BY <1>3, <1>5, <2>1, <2>2 DEF IInv, Books
  <2>4. ~Done(r.by)
    BY <1>5 DEF IInv, Requests, Done
  <2>5. Requests'
    BY <1>2, <1>3, <1>5, <2>2, <2>4 DEF IInv, Requests
  <2>6. OutcomesAreTrue'
    <3>1. ASSUME NEW i \in 1..Len(calls) PROVE Pending(i)' = Pending(i)
      <4>1. r.by # i
        <5>1. r.by = Len(calls) + 1 /\ Len(calls) \in Nat /\ i \in 1..Len(calls)
          BY <1>5, <3>1, Lengths
        <5> QED
          BY ONLY <5>1
      <4> QED
        BY <4>1 DEF Pending
    <3> QED
      BY <1>2, <2>1, <2>2, <3>1 DEF IInv, OutcomesAreTrue
  <2>7. Replies' /\ ExecutedOnce'
    BY <1>1 DEF IInv, Replies, ExecutedOnce
  <2> QED
    BY <2>3, <2>5, <2>6, <2>7 DEF IInv
<1> QED
  BY <1>4, <1>5

\* A call ends with an outcome that is true of it.
LEMMA ConcludedStep ==
    ASSUME IInv, waiting # Nobody, NEW o, o.end \in {"returned", "thrown"}, Concluded(o),
           ledger' = ledger, atNode' \subseteq atNode,
           waiting.by # 0 => /\ o.end = "returned" => Done(waiting.by)
                             /\ o.end = "thrown" /\ o.code \notin Inconclusive
                                  => ~Done(waiting.by) /\ ~Pending(waiting.by)
    PROVE  IInv'
<1> USE Lengths
<1>1. \A i : Done(i)' = Done(i) /\ (Pending(i)' => Pending(i))
  BY DEF Done, Pending
<1>2. waiting' = Nobody /\ reply'.kind = "none"
  BY DEF Concluded, NoReply
<1>3. waiting.by \in 0..Len(calls)
  BY DEF IInv, Requests
<1>4. Replies' /\ ExecutedOnce'
  BY <1>2 DEF IInv, Replies, ExecutedOnce
<1>5. /\ IsSeq(calls') /\ DOMAIN calls' = DOMAIN calls /\ Len(calls') = Len(calls)
      /\ \A j \in DOMAIN calls : j # waiting.by => calls'[j] = calls[j]
      /\ waiting.by # 0 => /\ calls'[waiting.by].outcome = o
                            /\ "outcome" \in DOMAIN calls'[waiting.by]
  <2>1. CASE waiting.by = 0
    BY <2>1 DEF Concluded, IInv, Books
  <2>2. CASE waiting.by # 0
    <3>1. waiting.by \in DOMAIN calls /\ calls' = [calls EXCEPT ![waiting.by].outcome = o]
      BY <1>3, <2>2 DEF Concluded
    <3>2. IsSeq(calls) /\ "outcome" \in DOMAIN calls[waiting.by]
      BY <3>1 DEF IInv, Books
    <3> DEFINE t == [calls EXCEPT ![waiting.by].outcome = o]
    <3>3. /\ IsSeq(t) /\ Len(t) = Len(calls) /\ DOMAIN t = DOMAIN calls
          /\ \A j \in DOMAIN calls : j # waiting.by => t[j] = calls[j]
          /\ t[waiting.by].outcome = o /\ "outcome" \in DOMAIN t[waiting.by]
      BY <3>1, <3>2, OutcomeFacts
    <3>4. calls' = t
      BY <3>1
    <3> QED
      BY <3>3, <3>4
  <2> QED
    BY <2>1, <2>2
<1>6. Books'
  BY <1>2, <1>3, <1>5 DEF IInv, Books, Nobody
<1>7. Requests'
  BY <1>1, <1>2, <1>5 DEF IInv, Requests, Nobody
<1>8. OutcomesAreTrue'
  BY <1>1, <1>3, <1>5 DEF IInv, OutcomesAreTrue
<1> QED
  BY <1>4, <1>6, <1>7, <1>8 DEF IInv

-----------------------------------------------------------------------------
(* The steps of the node and of the line. *)

LEMMA FailureFields ==
    ASSUME NEW a, NEW b, NEW c
    PROVE  /\ Failure(a, b, c).kind = "error" /\ Failure(a, b, c).errcode = a
           /\ Failure(a, b, c).body = b
BY DEF Failure, NoReply

LEMMA ResultKinds ==
    /\ Result.kind = "result"
    /\ \A o : [Result EXCEPT !.object = o].kind = "result"
    /\ \A l : [Result EXCEPT !.list = l].kind = "result"
BY DEF Result, NoReply

\* Request r leaves the node; if it was executed, its answer is a result.
LEMMA AnsweredStep ==
    ASSUME IInv, NEW r \in atNode, NEW what, Answered(r, what),
           what.kind \in {"result", "error"},
           \/ /\ ledger' = ledger
              /\ what.kind = "result" => r.by = 0
           \/ /\ r.by # 0 /\ what.kind = "result"
              /\ \E e : e.by = r.by /\ ledger' = Append(ledger, e)
    PROVE  IInv'
<1> USE Lengths
<1>1. r.by \in 0..Len(calls) /\ ~Done(r.by) /\ Nobody \notin atNode
  BY DEF IInv, Requests, Nobody
<1>2. UNCHANGED <<calls, waiting>> /\ atNode' = atNode \ {r}
      /\ reply' = IF r = waiting THEN what ELSE reply
  BY DEF Answered
<1>3. \A i : Pending(i)' => Pending(i)
  BY <1>2 DEF Pending
<1>4. CASE ledger' = ledger /\ (what.kind = "result" => r.by = 0)
  <2>1. \A i : Done(i)' = Done(i)
    BY <1>4 DEF Done
  <2>2. Books' /\ ExecutedOnce'
    BY <1>2, <1>4 DEF IInv, Books, ExecutedOnce
  <2>3. Requests'
    BY <1>2, <1>4, <2>1 DEF IInv, Requests
  <2>4. Replies'
    BY <1>1, <1>2, <1>4, <2>1 DEF IInv, Replies
  <2>5. OutcomesAreTrue'
    BY <1>2, <1>3, <2>1 DEF IInv, OutcomesAreTrue
  <2> QED
    BY <2>2, <2>3, <2>4, <2>5 DEF IInv
<1>5. CASE /\ r.by # 0 /\ what.kind = "result"
           /\ \E e : e.by = r.by /\ ledger' = Append(ledger, e)
  <2>1. PICK e : e.by = r.by /\ ledger' = Append(ledger, e)
    BY <1>5
  <2>2. /\ IsSeq(ledger') /\ DOMAIN ledger' = 1..(Len(ledger) + 1)
        /\ \A k \in 1..Len(ledger) : ledger'[k] = ledger[k]
        /\ ledger'[Len(ledger) + 1] = e
    BY <2>1, AppendFacts DEF IInv, Books
  <2>3. \A i : Done(i)' <=> Done(i) \/ i = r.by
    <3>1. ASSUME NEW i, Done(i)' PROVE Done(i) \/ i = r.by
      <4>1. PICK k \in 1..(Len(ledger) + 1) : ledger'[k].by = i
        BY <2>2, <3>1 DEF Done
      <4>2. CASE k \in 1..Len(ledger)
        <5>1. k \in DOMAIN ledger /\ ledger[k].by = i
          BY <2>2, <4>1, <4>2, Lengths
        <5> QED
          BY <5>1 DEF Done
      <4>3. CASE k \notin 1..Len(ledger)
        <5>1. Len(ledger) \in Nat
          BY Lengths
        <5>2. k = Len(ledger) + 1
          BY ONLY <4>3, <5>1, k \in 1..(Len(ledger) + 1)
        <5> QED
          BY <2>1, <2>2, <4>1, <5>2
      <4> QED
        BY <4>2, <4>3
    <3>2. ASSUME NEW i, Done(i) PROVE Done(i)'
      <4>1. PICK k \in 1..Len(ledger) : ledger[k].by = i
        BY <3>2 DEF Done
      <4>2. k \in DOMAIN ledger' /\ ledger'[k].by = i
        BY <2>2, <4>1
      <4> QED
        BY <4>2 DEF Done
    <3>3. Done(r.by)'
      <4>1. Len(ledger) + 1 \in DOMAIN ledger' /\ ledger'[Len(ledger) + 1].by = r.by
        <5>1. Len(ledger) \in Nat
          BY Lengths
        <5>2. Len(ledger) + 1 \in 1..(Len(ledger) + 1)
          BY ONLY <5>1
        <5> QED
          BY <2>1, <2>2, <5>2
      <4> QED
        BY <4>1 DEF Done
    <3> QED
      BY <3>1, <3>2, <3>3
  <2>4. ExecutedOnce'
    <3>1. \A k \in 1..Len(ledger) : ledger[k].by # r.by
      BY <1>1 DEF Done
    <3> QED
      BY <2>1, <2>2, <3>1 DEF IInv, ExecutedOnce
  <2>5. Books'
    BY <1>2, <2>2 DEF IInv, Books
  <2>6. \A q \in atNode' : q.by # r.by
    BY <1>1, <1>2, <1>5 DEF IInv, Requests
  <2>7. Requests'
    BY <1>1, <1>2, <1>5, <2>1, <2>2, <2>3, <2>6 DEF IInv, Requests
  <2>8. Replies'
    <3>1. CASE r = waiting
      BY <1>1, <1>2, <1>5, <2>3, <3>1 DEF Replies
    <3>2. CASE r # waiting
      <4>1. waiting.by # r.by
        BY <1>1, <1>5, <3>2 DEF IInv, Requests
      <4> QED
        BY <1>2, <2>3, <3>2, <4>1 DEF IInv, Replies
    <3> QED
      BY <3>1, <3>2
  <2>9. OutcomesAreTrue'
    <3>1. Pending(r.by)
      BY DEF Pending
    <3> QED
      BY <1>2, <1>3, <2>3, <3>1 DEF IInv, OutcomesAreTrue
  <2> QED
    BY <2>4, <2>5, <2>7, <2>8, <2>9 DEF IInv
<1> QED
  BY <1>4, <1>5

LEMMA SpoilStep == ASSUME IInv, Spoil PROVE IInv'
<1>1. UNCHANGED <<calls, waiting, atNode, ledger>> /\ reply.kind = "result"
  BY DEF Spoil
<1>2. reply'.kind = "error" /\ BitcoinException(reply') \in Inconclusive
  <2>1. CASE reply' = Failure(InvalidResponse, "cut", 0)
    <3>1. reply'.kind = "error" /\ reply'.errcode = InvalidResponse /\ reply'.body = "cut"
      BY <2>1, FailureFields
    <3> QED
      BY <3>1 DEF BitcoinException, Inconclusive, Connector, Internal, InvalidResponse
  <2>2. CASE reply' = Failure(Connector, "none", 0)
    <3>1. reply'.kind = "error" /\ reply'.errcode = Connector
      BY <2>2, FailureFields
    <3> QED
      BY <3>1 DEF BitcoinException, Inconclusive
  <2>3. CASE reply' = Failure(Internal, "json", 0)
    <3>1. reply'.kind = "error" /\ reply'.errcode = Internal /\ reply'.body = "json"
      BY <2>3, FailureFields
    <3> QED
      BY <3>1 DEF BitcoinException, Inconclusive, Connector, Internal
  <2> QED
    BY <2>1, <2>2, <2>3 DEF Spoil
<1> HIDE DEF BitcoinException
<1>3. \A i : Done(i)' = Done(i) /\ Pending(i)' = Pending(i)
  BY <1>1 DEF Done, Pending
<1>4. Books' /\ ExecutedOnce'
  BY <1>1 DEF IInv, Books, ExecutedOnce
<1>5. Requests'
  BY <1>1, <1>3 DEF IInv, Requests
<1>6. Replies'
  BY <1>1, <1>2 DEF IInv, Replies
<1>7. OutcomesAreTrue'
  BY <1>1, <1>3 DEF IInv, OutcomesAreTrue
<1> QED
  BY <1>4, <1>5, <1>6, <1>7 DEF IInv

-----------------------------------------------------------------------------
LEMMA Step == IInv /\ [Next]_vars => IInv'
<1> SUFFICES ASSUME IInv, [Next]_vars PROVE IInv'
  OBVIOUS
<1>1. ASSUME NEW m \in Writes, NEW empty \in SUBSET Optional, Write(m, empty) PROVE IInv'
  <2> DEFINE c == [method |-> m, empty |-> empty, outcome |-> Open]
             r == [by |-> Len(calls) + 1, method |-> m, command |-> Command(m),
                   params |-> Params(m, empty), about |-> 0]
  <2>1. /\ waiting = Nobody /\ waiting' = r /\ atNode' = atNode \cup {r}
        /\ ledger' = ledger /\ reply' = reply /\ calls' = Append(calls, c)
    BY <1>1 DEF Write
  <2>2. r.by = Len(calls) + 1 /\ "outcome" \in DOMAIN c /\ c.outcome.end = "open"
    BY DEF Open
  <2> HIDE DEF c, r
  <2> QED
    BY <2>1, <2>2, AskStep
<1>2. ASSUME NEW q, NEW k, Query(q, k) PROVE IInv'
  <2> DEFINE r == [by |-> 0, method |-> q, command |-> q, params |-> <<>>, about |-> k]
  <2>1. /\ waiting = Nobody /\ waiting' = r /\ atNode' = atNode \cup {r}
        /\ ledger' = ledger /\ reply' = reply /\ calls' = calls
    BY <1>2 DEF Query
  <2>2. r.by = 0
    OBVIOUS
  <2> HIDE DEF r
  <2> QED
    BY <2>1, <2>2, AskStep
<1>3. CASE Return
  <2>1. waiting # Nobody /\ reply.kind = "result" /\ Concluded(Returned)
        /\ atNode' = atNode /\ ledger' = ledger
    BY <1>3 DEF Return
  <2>2. waiting.by # 0 => Done(waiting.by)
    BY <2>1, Lengths DEF IInv, Replies, Requests
  <2>3. Returned.end = "returned"
    BY DEF Returned
  <2> QED
    BY <2>1, <2>2, <2>3, ConcludedStep
<1>4. CASE Throw
  <2>1. waiting # Nobody /\ reply.kind = "error" /\ Concluded(Thrown(reply))
        /\ atNode' = atNode /\ ledger' = ledger
    BY <1>4 DEF Throw
  <2>2. Thrown(reply).end = "thrown" /\ Thrown(reply).code = BitcoinException(reply)
    BY DEF Thrown
  <2>3. waiting.by # 0 => ~Pending(waiting.by)
    BY <2>1, Lengths DEF IInv, Replies, Requests, Pending
  <2>4. BitcoinException(reply) \notin Inconclusive => ~Done(waiting.by)
    BY <2>1 DEF IInv, Replies
  <2> QED
    BY <2>1, <2>2, <2>3, <2>4, ConcludedStep
<1>5. CASE GiveUp
  <2> DEFINE o == Thrown(Failure(Connector, "none", 0))
  <2>1. waiting # Nobody /\ Concluded(o) /\ atNode' \subseteq atNode /\ ledger' = ledger
    BY <1>5 DEF GiveUp
  <2>2. o.end = "thrown" /\ o.code \in Inconclusive
    BY DEF Thrown, Failure, NoReply, BitcoinException, Inconclusive
  <2> HIDE DEF o
  <2> QED
    BY <2>1, <2>2, ConcludedStep
<1>6. ASSUME NEW r \in atNode, Execute(r) PROVE IInv'
  <2>1. r.by # 0 /\ Answered(r, Result) /\ Result.kind = "result"
    BY <1>6 DEF Execute, Result, NoReply
  <2>2. \E e : e.by = r.by /\ ledger' = Append(ledger, e)
    BY <1>6 DEF Execute
  <2> QED
    BY <2>1, <2>2, AnsweredStep
<1>7. ASSUME NEW r \in atNode, Show(r) PROVE IInv'
  <2> DEFINE keys == {Read(r.method)[f] : f \in DOMAIN Read(r.method)}
             object == [key \in keys |-> Member(r.method, r.about, key)]
             list == IF ReadList(r.method) = ListMember(r.method) THEN Entries(r.method) ELSE {}
             what == IF r.method \in Queries THEN [Result EXCEPT !.object = object]
                                             ELSE [Result EXCEPT !.list = list]
  <2>1. Answered(r, what)
    BY <1>7 DEF Show
  <2> HIDE DEF object, list
  <2>3. what.kind = "result"
    BY ResultKinds
  <2> HIDE DEF what
  <2>2. r.by = 0 /\ ledger' = ledger
    BY <1>7 DEF Show
  <2> QED
    BY <2>1, <2>2, <2>3, AnsweredStep
<1>8. ASSUME NEW r \in atNode, Refuse(r) PROVE IInv'
  <2>1. PICK a, b, c : Answered(r, Failure(a, b, c))
    BY <1>8 DEF Refuse
  <2>2. ledger' = ledger
    BY <1>8 DEF Refuse
  <2>3. Failure(a, b, c).kind = "error"
    BY FailureFields
  <2> QED
    BY <2>1, <2>2, <2>3, AnsweredStep
<1>9. CASE Spoil
  BY <1>9, SpoilStep
<1>10. CASE UNCHANGED vars
  BY <1>10 DEF vars, IInv, Books, Requests, Replies, ExecutedOnce, OutcomesAreTrue, Done, Pending
<1> QED
  BY <1>1, <1>2, <1>3, <1>4, <1>5, <1>6, <1>7, <1>8, <1>9, <1>10 DEF Next

LEMMA Start == Init => IInv
<1> SUFFICES ASSUME Init PROVE IInv
  OBVIOUS
<1>1. IsSeq(<<>>) /\ DOMAIN <<>> = {}
  BY DEF IsSeq
<1> QED
  BY <1>1 DEF Init, IInv, Books, Requests, Replies, ExecutedOnce, OutcomesAreTrue, Nobody, NoReply

\* The inductive invariant holds of every reachable state (Write to Spoil).
THEOREM Invariance == Spec => []IInv
BY Start, Step, PTL DEF Spec

\* What the outcome of a call says of its effect, in sessions of any length
\* (sendcommand, BitcoinException): of EffectsAsReported all but the arguments.
THEOREM OutcomesAreTrueThm == Spec => [](ExecutedOnce /\ OutcomesAreTrue)
<1>1. IInv => ExecutedOnce /\ OutcomesAreTrue
  BY DEF IInv
<1> QED
  BY <1>1, Invariance, PTL

-----------------------------------------------------------------------------
(* Parameters by position. *)

Fields(m) == {Appended(m)[i] : i \in DOMAIN Appended(m)}

\* The methods whose parameters the node takes for what they are: of the two
\* others one names no application and one has two parameters interchanged.
LEMMA Positions ==
    ASSUME NEW m \in Writes \ {"setappauth", "putcandy"}
    PROVE  LET a == Appended(m)
               e == Expected[Command(m)] IN
           /\ DOMAIN a = 1..Len(a) /\ Len(a) \in Nat /\ DOMAIN e = 1..Len(e) /\ Len(e) \in Nat
           /\ DOMAIN a \subseteq DOMAIN e /\ \A i \in DOMAIN a : e[i] = a[i]
           /\ \A i, j \in DOMAIN e : e[i] = e[j] => i = j
<1>1. \A c \in DOMAIN Expected :
        /\ DOMAIN Expected[c] = 1..Len(Expected[c]) /\ Len(Expected[c]) \in Nat
        /\ \A i, j \in DOMAIN Expected[c] : Expected[c][i] = Expected[c][j] => i = j
  <2>1. \A c \in DOMAIN Expected : DOMAIN Expected[c] = 1..Len(Expected[c]) /\ Len(Expected[c]) \in Nat
    BY DEF Expected
  <2>2. \A c \in DOMAIN Expected :
          \A i, j \in DOMAIN Expected[c] : Expected[c][i] = Expected[c][j] => i = j
    BY DEF Expected
  <2> QED
    BY <2>1, <2>2
<1>2. CASE m \in DOMAIN AppWrites
  <2>1. Appended(m) = AppWrites[m]
    BY <1>2 DEF Appended
  <2>2. Expected[m] = AppWrites[m] /\ m \in DOMAIN Expected
    BY <1>2 DEF Expected, AppWrites
  <2>3. Command(m) = m
    BY <1>2 DEF Command, AppWrites
  <2> QED
    BY <1>1, <2>1, <2>2, <2>3
<1>3. CASE m \in DOMAIN AssetWrites
  <2>1. Appended(m) = AssetWrites[m]
    BY <1>3 DEF Appended, AppWrites, AssetWrites
  <2>2. Expected[m] = AssetWrites[m] /\ m \in DOMAIN Expected
    BY <1>3 DEF Expected, AssetWrites
  <2>3. Command(m) = m
    BY <1>3 DEF Command, AssetWrites
  <2> QED
    BY <1>1, <2>1, <2>2, <2>3
<1>4. CASE m \in DOMAIN WalletWrites
  <2>1. Appended(m) = WalletWrites[m]
    BY <1>4 DEF Appended, AppWrites, AssetWrites, WalletWrites
  <2>2. Command(m) \in DOMAIN Expected
    BY <1>4 DEF Expected, WalletWrites, Command
  <2>3. DOMAIN WalletWrites[m] = 1..Len(WalletWrites[m]) /\ Len(WalletWrites[m]) \in Nat
    BY <1>4 DEF WalletWrites
  <2>4. DOMAIN WalletWrites[m] \subseteq DOMAIN Expected[Command(m)]
    BY <1>4 DEF Expected, WalletWrites, Command
  <2>5. \A i \in DOMAIN WalletWrites[m] : Expected[Command(m)][i] = WalletWrites[m][i]
    BY <1>4 DEF Expected, WalletWrites, Command
  <2> QED
    BY <1>1, <2>1, <2>2, <2>3, <2>4, <2>5
<1> QED
  BY <1>2, <1>3, <1>4 DEF Writes

\* The node refuses those two.
LEMMA Misplaced ==
    ASSUME NEW m \in {"setappauth", "putcandy"}, NEW r, r.command = Command(m),
           r.params = Params(m, {})
    PROVE  ~Acceptable(r)
<1>1. CASE m = "setappauth"
  <2>1. r.command = "setappauth" /\ r.params = AppWrites["setappauth"]
    BY <1>1 DEF Command, Params, Appended, AppWrites
  <2>2. /\ Expected["setappauth"][2] = "strAppId" /\ AppWrites["setappauth"][2] = "strAdminAddress"
        /\ 2 \in DOMAIN AppWrites["setappauth"]
    BY DEF Expected, AppWrites
  <2> QED
    BY <2>1, <2>2 DEF Acceptable
<1>2. CASE m = "putcandy"
  <2>1. r.command = "putcandy" /\ r.params = AssetWrites["putcandy"]
    BY <1>2 DEF Command, Params, Appended, AppWrites, AssetWrites
  <2>2. /\ Expected["putcandy"][3] = "nExpired" /\ AssetWrites["putcandy"][3] = "strRemarks"
        /\ 3 \in DOMAIN AssetWrites["putcandy"]
    BY DEF Expected, AssetWrites
  <2>3. "nExpired" \notin Texts /\ "strRemarks" \in Texts
    BY DEF Texts, Empty
  <2> QED
    BY <2>1, <2>2, <2>3 DEF Acceptable
<1> QED
  BY <1>1, <1>2

\* Only registerapp has optional arguments.
LEMMA NoOptional == ASSUME NEW m \in Writes, m # "registerapp" PROVE Fields(m) \cap Optional = {}
<1>1. CASE m \in DOMAIN AppWrites
  <2>1. Appended(m) = AppWrites[m]
    BY <1>1 DEF Appended
  <2>2. \A i \in DOMAIN AppWrites[m] : AppWrites[m][i] \notin Optional
    BY <1>1 DEF AppWrites, Optional
  <2> QED
    BY <2>1, <2>2 DEF Fields
<1>2. CASE m \in DOMAIN AssetWrites
  <2>1. Appended(m) = AssetWrites[m]
    BY <1>2 DEF Appended, AppWrites, AssetWrites
  <2>2. \A i \in DOMAIN AssetWrites[m] : AssetWrites[m][i] \notin Optional
    BY <1>2 DEF AssetWrites, Optional
  <2> QED
    BY <2>1, <2>2 DEF Fields
<1>3. CASE m \in DOMAIN WalletWrites
  <2>1. Appended(m) = WalletWrites[m]
    BY <1>3 DEF Appended, AppWrites, AssetWrites, WalletWrites
  <2>2. \A i \in DOMAIN WalletWrites[m] : WalletWrites[m][i] \notin Optional
    BY <1>3 DEF WalletWrites, Optional
  <2> QED
    BY <2>1, <2>2 DEF Fields
<1> QED
  BY <1>1, <1>2, <1>3 DEF Writes

\* Up to the first optional argument that is missing before one that is given,
\* each argument is at its place.
LEMMA InPlace ==
    ASSUME NEW c, c.method \in Writes, c.empty \in SUBSET Optional, c.empty \subseteq Fields(c.method)
    PROVE  LET a == Appended(c.method)
               p == Params(c.method, c.empty) IN
           \A i \in DOMAIN a : Unmoved(c, a[i]) =>
             IF a[i] \in c.empty THEN i > Len(p) ELSE i <= Len(p) /\ p[i] = a[i]
<1> DEFINE a == Appended(c.method)
           p == Params(c.method, c.empty)
<1>1. CASE c.method = "registerapp"
  <2>1. a = AppWrites["registerapp"] /\ p = registerapp(c.empty)
    BY <1>1 DEF Appended, AppWrites, Params
  <2>2. DOMAIN AppWrites["registerapp"] = 1..7
    BY DEF AppWrites
  <2>3. /\ AppWrites["registerapp"][5] = "strWebUrl" /\ AppWrites["registerapp"][6] = "strLogoUrl"
        /\ AppWrites["registerapp"][7] = "strCoverUrl"
    BY DEF AppWrites
  <2>4. \A i, j \in 1..7 : i < j => a[i] # a[j]
    BY <2>1 DEF AppWrites
  <2>5. ASSUME NEW f, Unmoved(c, f), NEW i \in 1..7, f = a[i]
        PROVE  \A g, h \in 1..7 : g <= i /\ a[g] \in c.empty /\ g < h => a[h] \in c.empty
    <3> SUFFICES ASSUME NEW g \in 1..7, NEW h \in 1..7, g <= i, a[g] \in c.empty, g < h,
                        a[h] \notin c.empty
                 PROVE  FALSE
      OBVIOUS
    <3>1. PICK k \in 1..(g - 1) : a[k] = f
      BY <2>1, <2>2, <2>5 DEF Unmoved
    <3> HIDE DEF a
    <3> QED
      BY <2>4, <2>5, <3>1
  <2>6. PICK empty \in SUBSET Optional : empty = c.empty
    OBVIOUS
  <2>7. ASSUME NEW i \in 1..7,
               \A g, h \in 1..7 : g <= i /\ AppWrites["registerapp"][g] \in empty /\ g < h
                                  => AppWrites["registerapp"][h] \in empty
        PROVE  LET f == AppWrites["registerapp"][i] IN
               IF f \in empty THEN i > Len(registerapp(empty))
                              ELSE i <= Len(registerapp(empty)) /\ registerapp(empty)[i] = f
    <3>1. /\ i >= 5 /\ "strWebUrl" \in empty => "strLogoUrl" \in empty /\ "strCoverUrl" \in empty
          /\ i >= 6 /\ "strLogoUrl" \in empty => "strCoverUrl" \in empty
      <4> HIDE DEF a
      <4>1. /\ 5 <= i /\ AppWrites["registerapp"][5] \in empty
                 => AppWrites["registerapp"][6] \in empty /\ AppWrites["registerapp"][7] \in empty
            /\ 6 <= i /\ AppWrites["registerapp"][6] \in empty
                 => AppWrites["registerapp"][7] \in empty
        BY ONLY <2>7
      <4> QED
        BY <2>3, <4>1
    <3>2. CASE "strWebUrl" \in empty
      BY <3>1, <3>2 DEF registerapp, AppendGiven, AppWrites, Optional
    <3>3. CASE "strWebUrl" \notin empty
      BY <3>1, <3>3 DEF registerapp, AppendGiven, AppWrites, Optional
    <3> QED
      BY <3>2, <3>3
  <2> QED
    BY <2>1, <2>2, <2>5, <2>6, <2>7
<1>2. CASE c.method # "registerapp"
  <2>1. c.empty = {}
    BY <1>2, NoOptional
  <2>2. p = a
    BY <1>2 DEF Params
  <2>3. \A i \in DOMAIN a : i <= Len(a)
    <3>1. CASE c.method \in DOMAIN AppWrites
      <4>1. a = AppWrites[c.method]
        BY <3>1 DEF Appended
      <4> QED
        BY <3>1, <4>1 DEF AppWrites
    <3>2. CASE c.method \in DOMAIN AssetWrites
      <4>1. a = AssetWrites[c.method]
        BY <3>2 DEF Appended, AppWrites, AssetWrites
      <4> QED
        BY <3>2, <4>1 DEF AssetWrites
    <3>3. CASE c.method \in DOMAIN WalletWrites
      <4>1. a = WalletWrites[c.method]
        BY <3>3 DEF Appended, AppWrites, AssetWrites, WalletWrites
      <4> QED
        BY <3>3, <4>1 DEF WalletWrites
    <3> QED
      BY <3>1, <3>2, <3>3 DEF Writes
  <2> QED
    BY <2>1, <2>2, <2>3
<1> QED
  BY <1>1, <1>2

\* What the node takes a request for is what its caller passed.
LEMMA Arrives ==
    ASSUME NEW c, c.method \in Writes, c.empty \in SUBSET Optional, c.empty \subseteq Fields(c.method),
           NEW r, r.command = Command(c.method),
           r.params = Params(c.method, c.empty), Acceptable(r)
    PROVE  \A i \in DOMAIN Appended(c.method) :
             LET f == Appended(c.method)[i] IN
             Unmoved(c, f) => Understood(r.command, r.params)[f] = Given(c, f)
<1> DEFINE a == Appended(c.method)
           e == Expected[Command(c.method)]
           p == Params(c.method, c.empty)
<1>1. c.method \notin {"setappauth", "putcandy"}
  <2>1. c.method # "registerapp" => c.empty = {}
    BY NoOptional
  <2> QED
    BY <2>1, Misplaced
<1>2. /\ DOMAIN a \subseteq DOMAIN e /\ \A i \in DOMAIN a : e[i] = a[i]
      /\ \A i, j \in DOMAIN e : e[i] = e[j] => i = j
  BY <1>1, Positions
<1>3. \A i \in DOMAIN a : Unmoved(c, a[i]) => IF a[i] \in c.empty THEN i > Len(p) ELSE i <= Len(p) /\ p[i] = a[i]
  BY InPlace
<1>4. DOMAIN a \subseteq Nat /\ Len(p) \in Int
  BY <1>1, Positions
<1> SUFFICES ASSUME NEW i \in DOMAIN a, Unmoved(c, a[i])
             PROVE  Understood(r.command, r.params)[a[i]] = Given(c, a[i])
  OBVIOUS
<1> DEFINE at(f) == CHOOSE j \in DOMAIN e : e[j] = f
<1>9. Understood(r.command, r.params)
        = [f \in {e[j] : j \in DOMAIN e} |-> IF at(f) <= Len(p) THEN p[at(f)] ELSE Empty]
  <2>1. Understood(Command(c.method), p)
          = [f \in {e[j] : j \in DOMAIN e} |-> IF at(f) <= Len(p) THEN p[at(f)] ELSE Empty]
    BY DEF Understood
  <2> QED
    BY <2>1
<1> HIDE DEF a, e, p
<1>5. at(a[i]) = i
  BY <1>2
<1>6. a[i] \in {e[j] : j \in DOMAIN e}
  BY <1>2
<1>7. Understood(r.command, r.params)[a[i]] = IF i <= Len(p) THEN p[i] ELSE Empty
  <2> HIDE DEF at
  <2> QED
    BY <1>5, <1>6, <1>9
<1> QED
  BY <1>3, <1>4, <1>7 DEF Given

-----------------------------------------------------------------------------
(* From the call to the ledger. *)

Legal(c) ==
    /\ DOMAIN c = {"method", "empty", "outcome"}
    /\ c.method \in Writes /\ c.empty \in SUBSET Optional /\ c.empty \subseteq Fields(c.method)

\* A request carries its call's parameters, and the ledger what they say.
Asked ==
    /\ \A i \in DOMAIN calls : Legal(calls[i])
    /\ \A r \in atNode : r.by # 0 =>
         /\ r.command = Command(calls[r.by].method)
         /\ r.params = Params(calls[r.by].method, calls[r.by].empty)
    /\ \A k \in DOMAIN ledger : ledger[k].command = Command(calls[ledger[k].by].method)
    /\ ArgumentsArrive
    /\ reply.kind = "none" => reply = NoReply

\* Calls are neither taken back nor changed but for their outcome ...
CallsKept ==
    /\ DOMAIN calls \subseteq DOMAIN calls'
    /\ \A i \in DOMAIN calls : /\ calls'[i].method = calls[i].method
                              /\ calls'[i].empty = calls[i].empty
    /\ \A i \in DOMAIN calls' : Legal(calls'[i])

\* ... what was executed stays in the ledger, and an entry is added only for
\* a request the node accepts.
LedgerKept ==
    /\ DOMAIN ledger \subseteq DOMAIN ledger'
    /\ \A k \in DOMAIN ledger : ledger'[k] = ledger[k]
    /\ \A k \in DOMAIN ledger' \ DOMAIN ledger :
         /\ k = Len(ledger) + 1 /\ UNCHANGED calls
         /\ \E r \in atNode : /\ r.by # 0 /\ Acceptable(r) /\ ledger'[k].by = r.by
                              /\ ledger'[k].command = r.command
                              /\ ledger'[k].reads = Understood(r.command, r.params)

LEMMA OutcomeKeeps ==
    ASSUME NEW s, IsSeq(s), NEW i \in DOMAIN s, \A j \in DOMAIN s : Legal(s[j]), NEW o
    PROVE  LET t == [s EXCEPT ![i].outcome = o] IN
           /\ DOMAIN t = DOMAIN s
           /\ \A j \in DOMAIN s : /\ t[j].method = s[j].method /\ t[j].empty = s[j].empty
                                  /\ Legal(t[j])
<1> DEFINE t == [s EXCEPT ![i].outcome = o]
<1>1. "outcome" \in DOMAIN s[i] /\ Legal(s[i])
  BY DEF Legal
<1>2. DOMAIN t = DOMAIN s /\ \A j \in DOMAIN s : j # i => t[j] = s[j]
  BY <1>1, OutcomeFacts
<1>3. t[i] = [s[i] EXCEPT !.outcome = o]
  OBVIOUS
<1> HIDE DEF t
<1>4. /\ DOMAIN t[i] = DOMAIN s[i] /\ t[i].method = s[i].method /\ t[i].empty = s[i].empty
  BY <1>1, <1>3 DEF Legal
<1>5. Legal(t[i])
  BY <1>1, <1>4 DEF Legal
<1>6. /\ DOMAIN t = DOMAIN s
      /\ \A j \in DOMAIN s : /\ t[j].method = s[j].method /\ t[j].empty = s[j].empty
                             /\ Legal(t[j])
  BY <1>2, <1>4, <1>5
<1> QED
  BY <1>6 DEF t

LEMMA CallsStep == ASSUME IInv, Asked, [Next]_vars PROVE CallsKept
<1> USE Lengths
<1>0. \A i \in DOMAIN calls : Legal(calls[i])
  BY DEF Asked
<1>1. ASSUME NEW m \in Writes, NEW empty \in SUBSET Optional,
             empty \subseteq {Appended(m)[i] : i \in DOMAIN Appended(m)}, Write(m, empty)
      PROVE  CallsKept
  <2> DEFINE c == [method |-> m, empty |-> empty, outcome |-> Open]
  <2>1. calls' = Append(calls, c)
    BY <1>1 DEF Write
  <2>2. Legal(c)
    BY <1>1 DEF Legal, Fields
  <2> HIDE DEF c
  <2>3. /\ DOMAIN calls' = 1..(Len(calls) + 1) /\ \A i \in 1..Len(calls) : calls'[i] = calls[i]
        /\ calls'[Len(calls) + 1] = c
    BY <2>1, AppendFacts DEF IInv, Books
  <2>4. \A i \in 1..(Len(calls) + 1) : i \in 1..Len(calls) \/ i = Len(calls) + 1
    OBVIOUS
  <2> QED
    BY <1>0, <2>2, <2>3, <2>4 DEF CallsKept
<1>2. ASSUME waiting # Nobody, NEW o, Concluded(o) PROVE CallsKept
  <2>1. CASE waiting.by = 0
    BY <1>0, <1>2, <2>1 DEF CallsKept, Concluded
  <2>2. CASE waiting.by # 0
    <3>1. waiting.by \in DOMAIN calls /\ calls' = [calls EXCEPT ![waiting.by].outcome = o]
      BY <1>2, <2>2 DEF Concluded, IInv, Requests
    <3>2. /\ DOMAIN calls' = DOMAIN calls
          /\ \A j \in DOMAIN calls : /\ calls'[j].method = calls[j].method
                                     /\ calls'[j].empty = calls[j].empty /\ Legal(calls'[j])
      <4>1. IsSeq(calls)
        BY DEF IInv, Books
      <4>2. PICK i \in DOMAIN calls : i = waiting.by
        BY <3>1
      <4> DEFINE t == [calls EXCEPT ![i].outcome = o]
      <4>3. /\ DOMAIN t = DOMAIN calls
            /\ \A j \in DOMAIN calls : /\ t[j].method = calls[j].method
                                       /\ t[j].empty = calls[j].empty /\ Legal(t[j])
        BY ONLY <1>0, <4>1, OutcomeKeeps
      <4>4. calls' = t
        BY <3>1, <4>2
      <4> HIDE DEF t
      <4> QED
        BY <4>3, <4>4
    <3> QED
      BY <3>2 DEF CallsKept
  <2> QED
    BY <2>1, <2>2
<1>3. CASE UNCHANGED calls
  BY <1>0, <1>3 DEF CallsKept
<1>4. CASE Return \/ Throw \/ GiveUp
  BY <1>2, <1>4 DEF Return, Throw, GiveUp
<1>5. CASE \/ \E q \in Queries, k \in DOMAIN ledger : Query(q, k)
           \/ \E q \in Lists : Query(q, Len(ledger))
           \/ \E r \in atNode : Execute(r) \/ Show(r) \/ Refuse(r)
           \/ Spoil \/ UNCHANGED vars
  BY <1>3, <1>5 DEF Query, Execute, Show, Refuse, Answered, Spoil, vars
<1> QED
  BY <1>1, <1>4, <1>5 DEF Next

LEMMA LedgerStep == ASSUME IInv, [Next]_vars PROVE LedgerKept
<1> USE Lengths
<1>1. CASE UNCHANGED ledger
  BY <1>1 DEF LedgerKept
<1>2. ASSUME NEW r \in atNode, Execute(r) PROVE LedgerKept
  <2> DEFINE e == [by |-> r.by, command |-> r.command, reads |-> Understood(r.command, r.params)]
  <2>1. /\ r.by # 0 /\ Acceptable(r) /\ ledger' = Append(ledger, e) /\ UNCHANGED calls
    BY <1>2 DEF Execute, Answered
  <2>2. e.by = r.by /\ e.command = r.command /\ e.reads = Understood(r.command, r.params)
    OBVIOUS
  <2> HIDE DEF e
  <2>3. /\ DOMAIN ledger' = 1..(Len(ledger) + 1)
        /\ \A k \in 1..Len(ledger) : ledger'[k] = ledger[k]
        /\ ledger'[Len(ledger) + 1] = e
    BY <2>1, AppendFacts DEF IInv, Books
  <2>4. \A k \in 1..(Len(ledger) + 1) : k \in 1..Len(ledger) \/ k = Len(ledger) + 1
    OBVIOUS
  <2> QED
    BY <2>1, <2>2, <2>3, <2>4 DEF LedgerKept
<1>3. CASE \E m \in Writes, empty \in SUBSET Optional : Write(m, empty)
  BY <1>1, <1>3 DEF Write
<1>4. CASE \/ \E q \in Queries, k \in DOMAIN ledger : Query(q, k)
           \/ \E q \in Lists : Query(q, Len(ledger))
           \/ \E r \in atNode : Show(r) \/ Refuse(r)
           \/ Return \/ Throw \/ GiveUp \/ Spoil \/ UNCHANGED vars
  BY <1>1, <1>4 DEF Query, Show, Refuse, Return, Throw, GiveUp, Spoil, vars
<1> QED
  BY <1>2, <1>3, <1>4 DEF Next

\* What is asked of the node, beyond what it has been asked.
LEMMA RequestsStep ==
    ASSUME IInv, [Next]_vars
    PROVE  \A r \in atNode' \ atNode :
             \/ r.by = 0
             \/ /\ r.by \in DOMAIN calls' /\ r.command = Command(calls'[r.by].method)
                /\ r.params = Params(calls'[r.by].method, calls'[r.by].empty)
<1> USE Lengths
<1>1. CASE atNode' \subseteq atNode
  BY <1>1
<1>2. ASSUME NEW m \in Writes, NEW empty \in SUBSET Optional, Write(m, empty),
             NEW r \in atNode' \ atNode
      PROVE  /\ r.by \in DOMAIN calls' /\ r.command = Command(calls'[r.by].method)
             /\ r.params = Params(calls'[r.by].method, calls'[r.by].empty)
  <2> DEFINE c == [method |-> m, empty |-> empty, outcome |-> Open]
  <2>1. /\ calls' = Append(calls, c) /\ r.by = Len(calls) + 1
        /\ r.command = Command(m) /\ r.params = Params(m, empty)
    BY <1>2 DEF Write
  <2>2. c.method = m /\ c.empty = empty
    OBVIOUS
  <2> HIDE DEF c
  <2>3. DOMAIN calls' = 1..(Len(calls) + 1) /\ calls'[Len(calls) + 1] = c
    BY <2>1, AppendFacts DEF IInv, Books
  <2>4. Len(calls) + 1 \in 1..(Len(calls) + 1)
    OBVIOUS
  <2> QED
    BY <2>1, <2>2, <2>3, <2>4
<1>3. ASSUME NEW q, NEW k, Query(q, k), NEW r \in atNode' \ atNode PROVE r.by = 0
  BY <1>3 DEF Query
<1>4. CASE \/ \E r \in atNode : Execute(r) \/ Show(r) \/ Refuse(r)
           \/ Return \/ Throw \/ GiveUp \/ Spoil \/ UNCHANGED vars
  BY <1>1, <1>4 DEF Execute, Show, Refuse, Answered, Return, Throw, GiveUp, Spoil, vars
<1>5. CASE \/ \E q \in Queries, k \in DOMAIN ledger : Query(q, k)
           \/ \E q \in Lists : Query(q, Len(ledger))
  BY <1>3, <1>5
<1>6. CASE \E m \in Writes, empty \in SUBSET Optional : Write(m, empty)
  BY <1>2, <1>6
<1> QED
  BY <1>4, <1>5, <1>6 DEF Next

\* No answer under way means the empty one.
LEMMA NoReplyStep ==
    ASSUME reply.kind = "none" => reply = NoReply, [Next]_vars
    PROVE  reply'.kind = "none" => reply' = NoReply
<1>1. CASE reply' = reply \/ reply' = NoReply
  BY <1>1
<1>2. ASSUME NEW r \in atNode, NEW what, what.kind # "none", Answered(r, what)
      PROVE  reply'.kind = "none" => reply' = NoReply
  BY <1>2 DEF Answered
<1>3. ASSUME NEW r \in atNode, Execute(r) PROVE reply'.kind = "none" => reply' = NoReply
  BY <1>2, <1>3, ResultKinds DEF Execute
<1>4. ASSUME NEW r \in atNode, Show(r) PROVE reply'.kind = "none" => reply' = NoReply
  <2>1. PICK what : Answered(r, what) /\ what.kind = "result"
    <3>1. CASE r.method \in Queries
      <4>1. PICK o : Answered(r, [Result EXCEPT !.object = o])
        BY <1>4, <3>1 DEF Show
      <4> QED
        BY <4>1, ResultKinds
    <3>2. CASE r.method \notin Queries
      <4>1. PICK l : Answered(r, [Result EXCEPT !.list = l])
        BY <1>4, <3>2 DEF Show
      <4> QED
        BY <4>1, ResultKinds
    <3> QED
      BY <3>1, <3>2
  <2> QED
    BY <1>2, <2>1
<1>5. ASSUME NEW r \in atNode, Refuse(r) PROVE reply'.kind = "none" => reply' = NoReply
  <2>1. PICK a, b, c : Answered(r, Failure(a, b, c))
    BY <1>5 DEF Refuse
  <2> QED
    BY <1>2, <2>1, FailureFields
<1>6. CASE Spoil
  BY <1>6, FailureFields DEF Spoil
<1>7. CASE \/ \E m \in Writes, empty \in SUBSET Optional : Write(m, empty)
           \/ \E q \in Queries, k \in DOMAIN ledger : Query(q, k)
           \/ \E q \in Lists : Query(q, Len(ledger))
           \/ Return \/ Throw \/ GiveUp \/ UNCHANGED vars
  BY <1>1, <1>7 DEF Write, Query, Return, Throw, GiveUp, Concluded, vars
<1> QED
  BY <1>3, <1>4, <1>5, <1>6, <1>7 DEF Next

LEMMA SameCall ==
    ASSUME NEW c, NEW d, c.method = d.method, c.empty = d.empty
    PROVE  \A f : Unmoved(c, f) = Unmoved(d, f) /\ Given(c, f) = Given(d, f)
BY DEF Unmoved, Given

LEMMA AskedStep == ASSUME IInv, Asked, [Next]_vars PROVE Asked'
<1> USE Lengths
<1>1. CallsKept /\ LedgerKept
  BY CallsStep, LedgerStep
<1>2. \A i \in DOMAIN calls' : Legal(calls'[i])
  BY <1>1 DEF CallsKept
<1>3. \A r \in atNode : r.by # 0 => r.by \in DOMAIN calls
  BY DEF IInv, Requests
<1>4. ASSUME NEW r \in atNode', r.by # 0
      PROVE  /\ r.command = Command(calls'[r.by].method)
             /\ r.params = Params(calls'[r.by].method, calls'[r.by].empty)
  <2>1. CASE r \in atNode
    BY <1>1, <1>3, <1>4, <2>1 DEF Asked, CallsKept
  <2>2. CASE r \notin atNode
    BY <1>4, <2>2, RequestsStep
  <2> QED
    BY <2>1, <2>2
<1>5. ASSUME NEW k \in DOMAIN ledger'
      PROVE  /\ ledger'[k].command = Command(calls'[ledger'[k].by].method)
             /\ \A i \in DOMAIN Appended(calls'[ledger'[k].by].method) :
                  LET f == Appended(calls'[ledger'[k].by].method)[i] IN
                  Unmoved(calls'[ledger'[k].by], f) =>
                    ledger'[k].reads[f] = Given(calls'[ledger'[k].by], f)
  <2>1. CASE k \in DOMAIN ledger
    <3>1. ledger'[k] = ledger[k] /\ ledger[k].by \in DOMAIN calls
      BY <1>1, <2>1 DEF LedgerKept, IInv, Requests
    <3>2. PICK c : c = calls[ledger[k].by]
      OBVIOUS
    <3>3. PICK d : d = calls'[ledger[k].by]
      OBVIOUS
    <3>4. d.method = c.method /\ d.empty = c.empty
      BY <1>1, <3>1, <3>2, <3>3 DEF CallsKept
    <3>5. /\ ledger[k].command = Command(c.method)
          /\ \A i \in DOMAIN Appended(c.method) :
               LET f == Appended(c.method)[i] IN
               Unmoved(c, f) => ledger[k].reads[f] = Given(c, f)
      BY <2>1, <3>2 DEF Asked, ArgumentsArrive
    <3>6. \A f : Unmoved(d, f) = Unmoved(c, f) /\ Given(d, f) = Given(c, f)
      BY <3>4, SameCall
    <3> QED
      BY <3>1, <3>3, <3>4, <3>5, <3>6
  <2>2. CASE k \notin DOMAIN ledger
    <3>1. UNCHANGED calls
      BY <1>1, <1>5, <2>2 DEF LedgerKept
    <3>2. PICK r \in atNode : /\ r.by # 0 /\ Acceptable(r) /\ ledger'[k].by = r.by
                              /\ ledger'[k].command = r.command
                              /\ ledger'[k].reads = Understood(r.command, r.params)
      BY <1>1, <1>5, <2>2 DEF LedgerKept
    <3>3. PICK c : c = calls[r.by]
      OBVIOUS
    <3>4. /\ Legal(c) /\ r.command = Command(c.method) /\ r.params = Params(c.method, c.empty)
      BY <1>3, <3>2, <3>3 DEF Asked
    <3>5. \A i \in DOMAIN Appended(c.method) :
            LET f == Appended(c.method)[i] IN
            Unmoved(c, f) => Understood(r.command, r.params)[f] = Given(c, f)
      BY <3>2, <3>4, Arrives DEF Legal
    <3> QED
      BY <3>1, <3>2, <3>3, <3>4, <3>5
  <2> QED
    BY <2>1, <2>2
<1>6. ArgumentsArrive'
  BY <1>5 DEF ArgumentsArrive
<1>7. reply'.kind = "none" => reply' = NoReply
  BY NoReplyStep DEF Asked
<1> QED
  BY <1>2, <1>4, <1>5, <1>6, <1>7 DEF Asked

LEMMA AskedStart == Init => Asked
BY DEF Init, Asked, ArgumentsArrive, NoReply

LEMMA Stays == Spec => []Asked
<1>1. IInv /\ Asked /\ [Next]_vars => Asked'
  BY AskedStep
<1> QED
  BY <1>1, AskedStart, Invariance, PTL DEF Spec

\* One call is open at a time, an answer is under way only to the one that
\* waits, and what was executed was asked for (Write to Spoil).
THEOREM TypeCorrect == Spec => []TypeOK
<1>1. IInv /\ Asked => TypeOK
  BY Lengths DEF IInv, Asked, Legal, Books, Requests, Replies, TypeOK, NoReply
<1> QED
  BY <1>1, Invariance, Stays, PTL

\* What the outcome of a call says of its effect, and that what is executed is
\* what was asked for, whichever calls follow each other (sendcommand,
\* BitcoinException, the parameters of each method).
THEOREM EffectsAsReportedThm == Spec => []EffectsAsReported
<1>1. IInv /\ Asked => EffectsAsReported
  BY DEF IInv, Asked, EffectsAsReported
<1> QED
  BY <1>1, Invariance, Stays, PTL

-----------------------------------------------------------------------------
(* What a query gives back. *)

\* The method behind a command that only one method sends.
LEMMA Sender ==
    ASSUME NEW m \in Writes, NEW c \in {"registerapp", "createextenddatatx", "issueasset"},
           Command(m) = c
    PROVE  m = c
BY DEF Command

LEMMA AppReads ==
    \A f \in DOMAIN getappinfo :
      /\ getappinfo[f] \in DOMAIN AppObject /\ AppObject[getappinfo[f]] = f
      /\ \E i \in DOMAIN AppWrites["registerapp"] : AppWrites["registerapp"][i] = f
<1>1. \A f \in DOMAIN getappinfo : getappinfo[f] \in DOMAIN AppObject /\ AppObject[getappinfo[f]] = f
  BY DEF getappinfo, AppObject
<1>2. DOMAIN AppWrites["registerapp"] = 1..7
  BY DEF AppWrites
<1>3. \A f \in DOMAIN getappinfo : \E i \in 1..7 : AppWrites["registerapp"][i] = f
  <2>1. /\ AppWrites["registerapp"][1] = "strAppName" /\ AppWrites["registerapp"][2] = "strAppDesc"
        /\ AppWrites["registerapp"][3] = "nDevType" /\ AppWrites["registerapp"][4] = "strDevName"
        /\ AppWrites["registerapp"][5] = "strWebUrl" /\ AppWrites["registerapp"][6] = "strLogoUrl"
        /\ AppWrites["registerapp"][7] = "strCoverUrl"
    BY DEF AppWrites
  <2>2. DOMAIN getappinfo = {"strAppName", "strAppDesc", "nDevType", "strDevName",
                             "strWebUrl", "strLogoUrl", "strCoverUrl"}
    BY DEF getappinfo
  <2> QED
    BY <2>1, <2>2
<1> QED
  BY <1>1, <1>2, <1>3

LEMMA DataReads ==
    \A f \in DOMAIN getextenddata :
      /\ getextenddata[f] \in DOMAIN DataObject /\ DataObject[getextenddata[f]] = f
      /\ \E i \in DOMAIN AppWrites["createextenddatatx"] : AppWrites["createextenddatatx"][i] = f
<1>1. \A f \in DOMAIN getextenddata :
        getextenddata[f] \in DOMAIN DataObject /\ DataObject[getextenddata[f]] = f
  BY DEF getextenddata, DataObject
<1>2. DOMAIN AppWrites["createextenddatatx"] = 1..5
  BY DEF AppWrites
<1>3. /\ AppWrites["createextenddatatx"][3] = "strAppId"
      /\ AppWrites["createextenddatatx"][5] = "strExtendData"
  BY DEF AppWrites
<1>4. DOMAIN getextenddata = {"strAppId", "strExtendData"}
  BY DEF getextenddata
<1> QED
  BY <1>1, <1>2, <1>3, <1>4

LEMMA ExtendReads ==
    \A f \in DOMAIN getappdetailsExtend :
      /\ getappdetailsExtend[f] \in DOMAIN ExtendObject
      /\ ExtendObject[getappdetailsExtend[f]] = f
      /\ \E i \in DOMAIN AppWrites["createextenddatatx"] : AppWrites["createextenddatatx"][i] = f
<1>1. \A f \in DOMAIN getappdetailsExtend :
        /\ getappdetailsExtend[f] \in DOMAIN ExtendObject
        /\ ExtendObject[getappdetailsExtend[f]] = f
  BY DEF getappdetailsExtend, ExtendObject
<1>2. DOMAIN AppWrites["createextenddatatx"] = 1..5
  BY DEF AppWrites
<1>3. /\ AppWrites["createextenddatatx"][2] = "strUserSafeAddress"
      /\ AppWrites["createextenddatatx"][3] = "strAppId"
      /\ AppWrites["createextenddatatx"][4] = "dAppAuthCmd"
      /\ AppWrites["createextenddatatx"][5] = "strExtendData"
  BY DEF AppWrites
<1>4. DOMAIN getappdetailsExtend = {"strUserSafeAddress", "strAppId", "dAppAuthCmd", "strExtendData"}
  BY DEF getappdetailsExtend
<1> QED
  BY <1>1, <1>2, <1>3, <1>4

LEMMA ObjectGivesBack ==
    ASSUME IInv, Asked, NEW q \in Queries, NEW k \in DOMAIN ledger, ledger[k].command = Made_by(q),
           NEW c, c = calls[ledger[k].by],
           \A f \in DOMAIN Read(q) : Converts(f, Member(q, k, Read(q)[f]))
    PROVE  \A f \in DOMAIN Read(q) : Unmoved(c, f) => Member(q, k, Read(q)[f]) = Given(c, f)
<1> USE Lengths
<1>1. ledger[k].by \in DOMAIN calls
  BY DEF IInv, Requests
<1>2. /\ Legal(c) /\ Command(c.method) = Made_by(q)
      /\ \A i \in DOMAIN Appended(c.method) : Unmoved(c, Appended(c.method)[i]) =>
           ledger[k].reads[Appended(c.method)[i]] = Given(c, Appended(c.method)[i])
  BY <1>1 DEF Asked, ArgumentsArrive
<1>3. CASE q \in {"getappinfo", "getappdetails"}
  <2>1. c.method = "registerapp"
    BY <1>2, <1>3, Sender DEF Made_by, Legal
  <2>2. Appended(c.method) = AppWrites["registerapp"]
    BY <2>1 DEF Appended, AppWrites
  <2>3. Read(q) = getappinfo
    BY <1>3 DEF Read, getappdetails
  <2>4. \A f \in DOMAIN getappinfo : Member(q, k, getappinfo[f]) = ledger[k].reads[f]
    BY <1>3, AppReads DEF Member
  <2>5. \A f \in DOMAIN getappinfo : Unmoved(c, f) => ledger[k].reads[f] = Given(c, f)
    BY <1>2, <2>2, AppReads
  <2> QED
    BY <2>3, <2>4, <2>5
<1>4. CASE q = "getextenddata"
  <2>1. c.method = "createextenddatatx"
    BY <1>2, <1>4, Sender DEF Made_by, Legal
  <2>2. Appended(c.method) = AppWrites["createextenddatatx"]
    BY <2>1 DEF Appended, AppWrites
  <2>3. Read(q) = getextenddata
    BY <1>4 DEF Read
  <2>4. \A f \in DOMAIN getextenddata : Member(q, k, getextenddata[f]) = ledger[k].reads[f]
    BY <1>4, DataReads DEF Member
  <2>5. \A f \in DOMAIN getextenddata : Unmoved(c, f) => ledger[k].reads[f] = Given(c, f)
    BY <1>2, <2>2, DataReads
  <2> QED
    BY <2>3, <2>4, <2>5
<1>5. CASE q = "getappdetailsExtend"
  <2>1. c.method = "createextenddatatx"
    BY <1>2, <1>5, Sender DEF Made_by, Legal
  <2>2. Appended(c.method) = AppWrites["createextenddatatx"]
    BY <2>1 DEF Appended, AppWrites
  <2>3. Read(q) = getappdetailsExtend
    BY <1>5 DEF Read
  <2>4. \A f \in DOMAIN getappdetailsExtend : Member(q, k, getappdetailsExtend[f]) = ledger[k].reads[f]
    BY <1>5, ExtendReads DEF Member
  <2>5. \A f \in DOMAIN getappdetailsExtend : Unmoved(c, f) => ledger[k].reads[f] = Given(c, f)
    BY <1>2, <2>2, ExtendReads
  <2> QED
    BY <2>3, <2>4, <2>5
\* A text where the result has the time of issue converts to nothing.
<1>6. CASE q = "getassetinfo"
  <2>1. c.method = "issueasset"
    BY <1>2, <1>6, Sender DEF Made_by, Legal
  <2>2. Appended(c.method) = AssetWrites["issueasset"]
    BY <2>1 DEF Appended, AppWrites, AssetWrites
  <2>3. 13 \in DOMAIN AssetWrites["issueasset"] /\ AssetWrites["issueasset"][13] = "strRemarks"
    BY DEF AssetWrites
  <2>4. ledger[k].reads["strRemarks"] = "strRemarks"
    <3>0. Unmoved(c, "strRemarks")
      BY <1>2, <2>1, NoOptional DEF Legal, Unmoved
    <3>1. ledger[k].reads["strRemarks"] = Given(c, "strRemarks")
      BY <1>2, <2>2, <2>3, <3>0
    <3>2. "strRemarks" \notin c.empty
      BY <1>2 DEF Legal, Optional
    <3> QED
      BY <3>1, <3>2 DEF Given
  <2>5. Read(q) = getassetinfo /\ "issueTime" \in DOMAIN getassetinfo
        /\ getassetinfo["issueTime"] = "remarks"
    BY <1>6 DEF Read, getassetinfo
  <2>6. Member(q, k, "remarks") = ledger[k].reads["strRemarks"]
    BY <1>6 DEF Member, AssetObject
  <2>7. Converts("issueTime", "strRemarks")
    BY <2>4, <2>5, <2>6
  <2> QED
    BY <2>7 DEF Converts, Texts, Absent, Empty
<1> QED
  BY <1>3, <1>4, <1>5, <1>6 DEF Queries

LEMMA ListMembers == \A q \in Lists : ReadList(q) = ListMember(q)
BY DEF Lists, ReadList, ListMember, AppTxLists, AssetTxLists, AssetLists,
       getapplist, getapplistbyaddress, getlocalassetlist

LEMMA Apart ==
    /\ Queries \cap Lists = {} /\ Writes \cap (Queries \cup Lists) = {}
    /\ "none" \notin Queries \cup Lists
<1>1. Queries \cap Lists = {} /\ "none" \notin Queries \cup Lists
  BY DEF Queries, Lists, AppTxLists, AssetTxLists, AssetLists
<1>2. DOMAIN AppWrites \cap (Queries \cup Lists) = {}
  BY DEF Queries, Lists, AppTxLists, AssetTxLists, AssetLists, AppWrites
<1>3. DOMAIN AssetWrites \cap (Queries \cup Lists) = {}
  BY DEF Queries, Lists, AppTxLists, AssetTxLists, AssetLists, AssetWrites
<1>4. DOMAIN WalletWrites \cap (Queries \cup Lists) = {}
  BY DEF Queries, Lists, AppTxLists, AssetTxLists, AssetLists, WalletWrites
<1> QED
  BY <1>1, <1>2, <1>3, <1>4 DEF Writes

\* A list that is right of the ledger, for a call made when it had about
\* entries; and one read from an object of the kth.
ListFine(q, about, list) ==
    /\ about \in 0..Len(ledger) /\ list \subseteq Entries(q)
    /\ \A k \in Entries(q) \ list : k > about /\ \A l \in list : l < k

ObjectFine(q, k, object) ==
    \A f \in DOMAIN Read(q) : object[Read(q)[f]] = Member(q, k, Read(q)[f])

\* The call that waits, and the answer on its way to it.
Shown ==
    /\ waiting.by # 0 => waiting.method \notin Queries \cup Lists
    /\ waiting.by = 0 /\ waiting.method \in Queries =>
         /\ waiting.about \in DOMAIN ledger
         /\ ledger[waiting.about].command = Made_by(waiting.method)
         /\ reply.kind = "result" => ObjectFine(waiting.method, waiting.about, reply.object)
    /\ waiting.by = 0 /\ waiting.method \in Lists =>
         /\ waiting.about \in 0..Len(ledger)
         /\ reply.kind = "result" => ListFine(waiting.method, waiting.about, reply.list)

\* The last answer.
Told ==
    /\ answer.method \in Queries => answer.about \in DOMAIN ledger
    /\ answer.method \in Lists => ListFine(answer.method, answer.about, answer.list)
    /\ ReadBack

LEMMA EntriesAre == ASSUME IInv, NEW q PROVE Entries(q) \subseteq 1..Len(ledger)
BY Lengths DEF Entries

LEMMA LedgerGrows ==
    ASSUME IInv, [Next]_vars
    PROVE  /\ LedgerKept /\ DOMAIN ledger' = 1..Len(ledger') /\ Len(ledger') \in Nat
           /\ Len(ledger) \in Nat /\ Len(ledger) <= Len(ledger')
<1> USE Lengths
<1>1. /\ LedgerKept /\ DOMAIN ledger' = 1..Len(ledger') /\ Len(ledger') \in Nat
  <2>1. IInv'
    BY Step
  <2>2. IsSeq(ledger')
    BY <2>1 DEF IInv, Books
  <2> QED
    BY <2>2, LedgerStep, SeqFacts
<1>2. Len(ledger) <= Len(ledger')
  <2>1. Len(ledger) = 0 \/ Len(ledger) \in DOMAIN ledger'
    BY <1>1 DEF LedgerKept
  <2> QED
    BY <1>1, <2>1
<1> QED
  BY <1>1, <1>2

\* The ledger grows at its end: a list that was right still is, and an object
\* is still that of its entry.
LEMMA ListStays ==
    ASSUME IInv, [Next]_vars, NEW q, NEW about, NEW list, ListFine(q, about, list)
    PROVE  ListFine(q, about, list)'
<1> USE Lengths
<1>1. /\ LedgerKept /\ DOMAIN ledger' = 1..Len(ledger') /\ Len(ledger') \in Nat
  BY LedgerGrows
<1>2. Len(ledger) <= Len(ledger')
  BY LedgerGrows
<1>3. Entries(q) \subseteq Entries(q)'
  BY <1>1 DEF Entries, LedgerKept
<1>4. \A k \in Entries(q)' \ Entries(q) : k = Len(ledger) + 1
  BY <1>1 DEF Entries, LedgerKept
<1>5. ASSUME NEW k \in Entries(q)' \ list PROVE k > about /\ \A l \in list : l < k
  <2>1. CASE k \in Entries(q)
    BY <2>1, <1>5 DEF ListFine
  <2>2. CASE k \notin Entries(q)
    <3>1. k = Len(ledger) + 1 /\ list \subseteq 1..Len(ledger) /\ about \in 0..Len(ledger)
      BY <1>4, <1>5, <2>2, EntriesAre DEF ListFine
    <3> QED
      BY <3>1
  <2> QED
    BY <2>1, <2>2
<1>6. about \in 0..Len(ledger') /\ list \subseteq Entries(q)'
  BY <1>1, <1>2, <1>3 DEF ListFine
<1> QED
  BY <1>5, <1>6 DEF ListFine

LEMMA ObjectStays ==
    ASSUME IInv, [Next]_vars, NEW q, NEW k \in DOMAIN ledger, NEW object, ObjectFine(q, k, object)
    PROVE  ObjectFine(q, k, object)'
<1>1. ledger'[k] = ledger[k]
  BY LedgerStep DEF LedgerKept
<1>2. \A key : Member(q, k, key)' = Member(q, k, key)
  BY <1>1 DEF Member
<1>3. ASSUME NEW f \in DOMAIN Read(q) PROVE object[Read(q)[f]] = Member(q, k, Read(q)[f])'
  BY <1>2, <1>3 DEF ObjectFine
<1> QED
  BY <1>3 DEF ObjectFine

\* The waiting call and what is on its way to it stay, or what is on its way
\* becomes no result.
LEMMA ShownStays ==
    ASSUME IInv, Shown, [Next]_vars, waiting' = waiting,
           reply' = reply \/ reply'.kind # "result" \/ waiting.by # 0
    PROVE  Shown'
<1>1. PICK w : w = waiting
  OBVIOUS
<1>2. PICK p : p = reply
  OBVIOUS
<1>3. LedgerKept /\ DOMAIN ledger \subseteq DOMAIN ledger'
  BY LedgerStep DEF LedgerKept
<1>4. ASSUME w.by = 0, w.method \in Queries
      PROVE  /\ w.about \in DOMAIN ledger' /\ ledger'[w.about].command = Made_by(w.method)
             /\ reply'.kind = "result" => ObjectFine(w.method, w.about, p.object)'
  <2>1. /\ w.about \in DOMAIN ledger /\ ledger[w.about].command = Made_by(w.method)
        /\ p.kind = "result" => ObjectFine(w.method, w.about, p.object)
    BY <1>1, <1>2, <1>4 DEF Shown
  <2>2. reply'.kind = "result" => p.kind = "result"
    BY <1>1, <1>2, <1>4
  <2>3. reply'.kind = "result" => ObjectFine(w.method, w.about, p.object)'
    BY <2>1, <2>2, ObjectStays
  <2> QED
    BY <1>3, <2>1, <2>3 DEF LedgerKept
<1>5. ASSUME w.by = 0, w.method \in Lists
      PROVE  /\ w.about \in 0..Len(ledger')
             /\ reply'.kind = "result" => ListFine(w.method, w.about, p.list)'
  <2>1. /\ w.about \in 0..Len(ledger)
        /\ p.kind = "result" => ListFine(w.method, w.about, p.list)
    BY <1>1, <1>2, <1>5 DEF Shown
  <2>2. reply'.kind = "result" => p.kind = "result"
    BY <1>1, <1>2, <1>5
  <2>3. reply'.kind = "result" => ListFine(w.method, w.about, p.list)'
    BY <2>1, <2>2, ListStays
  <2>4. Len(ledger) <= Len(ledger') /\ Len(ledger) \in Nat /\ Len(ledger') \in Nat
    BY LedgerGrows
  <2> QED
    BY <2>1, <2>3, <2>4
<1>6. reply'.kind = "result" /\ w.by = 0 => reply' = p
  BY <1>1, <1>2
<1>7. waiting' = w /\ (w.by # 0 => w.method \notin Queries \cup Lists)
  BY <1>1 DEF Shown
<1> QED
  BY <1>4, <1>5, <1>6, <1>7 DEF Shown, ObjectFine, Member, ListFine, Entries

\* The node shows what the waiting call asks for.
LEMMA ShownShow == ASSUME IInv, Shown, NEW r \in atNode, Show(r), r = waiting PROVE Shown'
<1>1. UNCHANGED <<waiting, ledger>> /\ r.by = 0
  BY DEF Show, Answered
<1>2. waiting.by = 0
  BY <1>1
<1>3. CASE r.method \in Queries
  <2> DEFINE keys == {Read(r.method)[f] : f \in DOMAIN Read(r.method)}
             object == [key \in keys |-> Member(r.method, r.about, key)]
  <2>1. reply' = [Result EXCEPT !.object = object]
    BY <1>3 DEF Show, Answered
  <2>2. \A f \in DOMAIN Read(r.method) : object[Read(r.method)[f]]
                                           = Member(r.method, r.about, Read(r.method)[f])
    OBVIOUS
  <2> HIDE DEF object
  <2>3. reply'.object = object
    BY <2>1 DEF Result, NoReply
  <2>4. ObjectFine(r.method, r.about, reply'.object)
    BY <2>2, <2>3 DEF ObjectFine
  <2>5. r.method \notin Lists
    BY <1>3, Apart
  <2> QED
    BY <1>1, <1>2, <1>3, <2>4, <2>5 DEF Shown, ObjectFine, Member
<1>4. CASE r.method \in Lists
  <2>1. r.method \notin Queries
    BY <1>4, Apart
  <2>2. reply' = [Result EXCEPT !.list = Entries(r.method)]
    BY <1>4, <2>1, ListMembers DEF Show, Answered
  <2>3. reply'.list = Entries(r.method)
    BY <2>2 DEF Result, NoReply
  <2>4. r.about \in 0..Len(ledger)
    BY <1>2, <1>4 DEF Shown
  <2>5. ListFine(r.method, r.about, reply'.list)
    BY <2>3, <2>4 DEF ListFine
  <2> QED
    BY <1>1, <1>2, <1>4, <2>1, <2>5 DEF Shown, ListFine, Entries
<1>5. CASE r.method \notin Queries \cup Lists
  BY <1>1, <1>5 DEF Shown
<1> QED
  BY <1>3, <1>4, <1>5

LEMMA ShownStep == ASSUME IInv, Shown, [Next]_vars PROVE Shown'
<1> USE Lengths
<1>1. CASE waiting = Nobody /\ waiting' # Nobody
  <2>1. reply.kind = "none"
    BY <1>1 DEF IInv, Replies
  <2>2. ASSUME NEW m \in Writes, NEW empty, Write(m, empty) PROVE Shown'
    <3>1. waiting'.by = Len(calls) + 1 /\ waiting'.method = m
      BY <2>2 DEF Write
    <3>2. waiting'.by # 0
      BY <3>1
    <3> QED
      BY <3>1, <3>2, Apart DEF Shown
  <2>3. ASSUME NEW q \in Queries, NEW k \in DOMAIN ledger, Query(q, k) PROVE Shown'
    <3>1. /\ waiting'.by = 0 /\ waiting'.method = q /\ waiting'.about = k
          /\ UNCHANGED <<reply, ledger>> /\ ledger[k].command = Made_by(q) /\ q \notin Lists
      BY <2>3, Apart DEF Query
    <3> QED
      BY <2>1, <3>1 DEF Shown
  <2>4. ASSUME NEW q \in Lists, Query(q, Len(ledger)) PROVE Shown'
    <3>1. /\ waiting'.by = 0 /\ waiting'.method = q /\ waiting'.about = Len(ledger)
          /\ UNCHANGED <<reply, ledger>> /\ q \notin Queries
      BY <2>4, Apart DEF Query
    <3>2. Len(ledger) \in 0..Len(ledger)
      OBVIOUS
    <3> QED
      BY <2>1, <3>1, <3>2 DEF Shown
  <2>5. CASE Return \/ Throw \/ GiveUp \/ Spoil \/ UNCHANGED vars
    BY <1>1, <2>5 DEF Return, Throw, GiveUp, Concluded, Spoil, vars
  <2>6. CASE \E r \in atNode : Execute(r) \/ Show(r) \/ Refuse(r)
    BY <1>1, <2>6 DEF Execute, Show, Refuse, Answered
  <2> QED
    BY <2>2, <2>3, <2>4, <2>5, <2>6 DEF Next
<1>2. CASE waiting' = Nobody
  BY <1>2, Apart DEF Shown, Nobody
<1>3. CASE waiting # Nobody /\ waiting' # Nobody
  <2>1. ASSUME NEW r \in atNode, Execute(r) PROVE Shown'
    <3>1. waiting' = waiting /\ r.by # 0 /\ reply' = IF r = waiting THEN Result ELSE reply
      BY <2>1 DEF Execute, Answered
    <3> QED
      BY <3>1, ShownStays
  <2>2. ASSUME NEW r \in atNode, Show(r) PROVE Shown'
    <3>1. CASE r = waiting
      BY <2>2, <3>1, ShownShow
    <3>2. CASE r # waiting
      <4>1. waiting' = waiting /\ reply' = reply
        BY <2>2, <3>2 DEF Show, Answered
      <4> QED
        BY <4>1, ShownStays
    <3> QED
      BY <3>1, <3>2
  <2>3. ASSUME NEW r \in atNode, Refuse(r) PROVE Shown'
    <3>1. PICK a, b, c : Answered(r, Failure(a, b, c))
      BY <2>3 DEF Refuse
    <3>2. waiting' = waiting /\ reply' = IF r = waiting THEN Failure(a, b, c) ELSE reply
      BY <3>1 DEF Answered
    <3>3. Failure(a, b, c).kind = "error"
      BY FailureFields
    <3> QED
      BY <3>2, <3>3, ShownStays
  <2>4. CASE Spoil
    <3>1. waiting' = waiting /\ reply'.kind = "error"
      BY <2>4, FailureFields DEF Spoil
    <3> QED
      BY <3>1, ShownStays
  <2>5. CASE UNCHANGED vars
    BY <2>5, ShownStays DEF vars
  <2>6. CASE \/ \E m \in Writes, empty \in SUBSET Optional : Write(m, empty)
             \/ \E q \in Queries, k \in DOMAIN ledger : Query(q, k)
             \/ \E q \in Lists : Query(q, Len(ledger))
    BY <1>3, <2>6 DEF Write, Query
  <2>7. CASE Return \/ Throw \/ GiveUp
    BY <1>3, <2>7 DEF Return, Throw, GiveUp, Concluded
  <2> QED
    BY <2>1, <2>2, <2>3, <2>4, <2>5, <2>6, <2>7 DEF Next
<1> QED
  BY <1>1, <1>2, <1>3

\* The last answer stays true.
LEMMA ToldStays == ASSUME IInv, Asked, Told, [Next]_vars, UNCHANGED answer PROVE Told'
<1>1. PICK a : a = answer
  OBVIOUS
<1>2. answer' = a
  BY <1>1
<1>3. a.method \in Lists => ListFine(a.method, a.about, a.list)'
  BY <1>1, ListStays DEF Told
<1>4. ASSUME a.method \in Queries
      PROVE  /\ a.about \in DOMAIN ledger'
             /\ a.end = "returned" =>
                  LET c == calls'[ledger'[a.about].by] IN
                  \A f \in DOMAIN a.fields : Unmoved(c, f) => a.fields[f] = Given(c, f)
  <2>1. a.about \in DOMAIN ledger
    BY <1>1, <1>4 DEF Told
  <2>2. a.about \in DOMAIN ledger' /\ ledger'[a.about] = ledger[a.about]
    BY <2>1, LedgerStep DEF LedgerKept
  <2>3. PICK i \in DOMAIN calls : i = ledger[a.about].by
    BY <2>1, Lengths DEF IInv, Requests
  <2>4. PICK c : c = calls[i]
    OBVIOUS
  <2>5. PICK d : d = calls'[i]
    OBVIOUS
  <2>6. d.method = c.method /\ d.empty = c.empty
    BY <2>4, <2>5, CallsStep DEF CallsKept
  <2>7. \A f : Unmoved(d, f) = Unmoved(c, f) /\ Given(d, f) = Given(c, f)
    BY <2>6, SameCall
  <2>8. a.end = "returned" =>
          \A f \in DOMAIN a.fields : Unmoved(c, f) => a.fields[f] = Given(c, f)
    BY <1>1, <1>4, <2>3, <2>4 DEF Told, ReadBack
  <2> QED
    BY <2>2, <2>3, <2>5, <2>7, <2>8
<1>5. ListFine(a.method, a.about, a.list)' =>
        /\ a.list \subseteq Entries(a.method)'
        /\ \A k \in Entries(a.method)' \ a.list : k > a.about /\ \A l \in a.list : l < k
  BY DEF ListFine
<1>6. ReadBack'
  BY <1>2, <1>3, <1>4, <1>5 DEF ReadBack, Entries
<1>7. answer'.method \in Lists => ListFine(answer.method, answer.about, answer.list)'
  BY <1>2, <1>3 DEF ListFine, Entries
<1> QED
  BY <1>2, <1>4, <1>6, <1>7 DEF Told

LEMMA ToldReturn == ASSUME IInv, Asked, Shown, Return PROVE Told'
<1>1. PICK q : q = waiting.method
  OBVIOUS
<1>2. PICK k : k = waiting.about
  OBVIOUS
<1>3. reply.kind = "result" /\ UNCHANGED ledger
  BY DEF Return
<1>4. q \in Queries \cup Lists => waiting.by = 0 /\ UNCHANGED calls
  BY <1>1 DEF Return, Concluded, Shown
<1>5. CASE q \in Queries
  <2>1. /\ k \in DOMAIN ledger /\ ledger[k].command = Made_by(q)
        /\ ObjectFine(q, k, reply.object)
    BY <1>1, <1>2, <1>3, <1>4, <1>5 DEF Shown
  <2>2. PICK fields : fields = [f \in DOMAIN Read(q) |-> reply.object[Read(q)[f]]]
    OBVIOUS
  <2>3. PICK end : end = IF \A f \in DOMAIN Read(q) : Converts(f, reply.object[Read(q)[f]])
                           THEN "returned" ELSE "Json::LogicError"
    OBVIOUS
  <2>4. answer' = [NoAnswer EXCEPT !.method = q, !.about = k, !.end = end, !.fields = fields]
    BY <1>1, <1>2, <1>5, <2>2, <2>3 DEF Return
  <2>5. /\ answer'.method = q /\ answer'.about = k /\ answer'.end = end
        /\ answer'.fields = fields
    BY <2>4 DEF NoAnswer
  <2>6. PICK c : c = calls[ledger[k].by]
    OBVIOUS
  <2>7. ASSUME end = "returned"
        PROVE  \A f \in DOMAIN fields : Unmoved(c, f) => fields[f] = Given(c, f)
    <3>1. \A f \in DOMAIN Read(q) : Converts(f, reply.object[Read(q)[f]])
      BY <2>3, <2>7
    <3>2. \A f \in DOMAIN Read(q) : Converts(f, Member(q, k, Read(q)[f]))
      BY <2>1, <3>1 DEF ObjectFine
    <3>3. \A f \in DOMAIN Read(q) : Unmoved(c, f) => Member(q, k, Read(q)[f]) = Given(c, f)
      BY <1>5, <2>1, <2>6, <2>7, <3>2, ObjectGivesBack
    <3> QED
      BY <2>1, <2>2, <3>3 DEF ObjectFine
  <2>8. q \notin Lists
    BY <1>5, Apart
  <2>9. ReadBack'
    BY <1>3, <1>4, <1>5, <2>5, <2>6, <2>7, <2>8 DEF ReadBack
  <2> QED
    BY <1>3, <2>1, <2>5, <2>8, <2>9 DEF Told
<1>6. CASE q \in Lists
  <2>1. ListFine(q, k, reply.list) /\ q \notin Queries
    BY <1>1, <1>2, <1>3, <1>4, <1>6, Apart DEF Shown
  <2>2. answer' = [NoAnswer EXCEPT !.method = q, !.about = k, !.end = "returned",
                     !.list = reply.list]
    BY <1>1, <1>2, <1>6, <2>1 DEF Return
  <2>3. answer'.method = q /\ answer'.about = k /\ answer'.list = reply.list
    BY <2>2 DEF NoAnswer
  <2>4. ListFine(answer.method, answer.about, answer.list)'
    BY <1>3, <2>1, <2>3 DEF ListFine, Entries
  <2>5. ReadBack'
    BY <2>1, <2>3, <2>4 DEF ReadBack, ListFine, Entries
  <2> QED
    BY <2>1, <2>3, <2>4, <2>5 DEF Told
<1>7. CASE q \notin Queries \cup Lists
  <2>1. answer'.method = "none"
    BY <1>1, <1>7 DEF Return, NoAnswer
  <2> QED
    BY <2>1, Apart DEF Told, ReadBack
<1> QED
  BY <1>5, <1>6, <1>7

LEMMA ToldStep == ASSUME IInv, Asked, Shown, Told, [Next]_vars PROVE Told'
<1>1. CASE Return
  BY <1>1, ToldReturn
<1>2. CASE UNCHANGED answer
  BY <1>2, ToldStays
<1>3. CASE answer' = NoAnswer
  <2>1. answer'.method = "none"
    BY <1>3 DEF NoAnswer
  <2> QED
    BY <2>1, Apart DEF Told, ReadBack
<1>4. CASE \/ \E m \in Writes, empty \in SUBSET Optional : Write(m, empty)
           \/ \E q \in Queries, k \in DOMAIN ledger : Query(q, k)
           \/ \E q \in Lists : Query(q, Len(ledger))
  BY <1>3, <1>4 DEF Write, Query
<1>5. CASE \/ Throw \/ GiveUp \/ Spoil \/ UNCHANGED vars
           \/ \E r \in atNode : Execute(r) \/ Show(r) \/ Refuse(r)
  BY <1>2, <1>5 DEF Throw, GiveUp, Spoil, Execute, Show, Refuse, Answered, vars
<1> QED
  BY <1>1, <1>4, <1>5 DEF Next

\* A query gives back what was once passed, and a list is right of the ledger
\* whenever it arrives (the methods that return a result).
THEOREM ReadBackThm == Spec => []ReadBack
<1>1. Init => Shown /\ Told
  BY Apart DEF Init, Shown, Told, ReadBack, Nobody, NoAnswer
<1>2. IInv /\ Asked /\ Shown /\ Told /\ [Next]_vars => (Shown /\ Told)'
  BY ShownStep, ToldStep
<1>3. Told => ReadBack
  BY DEF Told
<1> QED
  BY <1>1, <1>2, <1>3, Invariance, Stays, PTL DEF Spec
=============================================================================
