------------------------------- MODULE SafeAPI -------------------------------
(***************************************************************************)
(* The client library: how a call of BitcoinAPI or SafeAPI becomes a       *)
(* request with parameters by position, what comes back of the node's      *)
(* answer or of the exception, and what a caller may conclude from either. *)
(* The node (external) keeps a ledger of the calls it executed and shows   *)
(* it.  A value is the name of the argument that held it, so that it is    *)
(* seen where a value ends up; an optional argument may be left Empty.     *)
(* Calls the bridge makes of the chain are in Scanner and Intake.  An      *)
(* operator named X_Y is X with the mistake Y.                             *)
(***************************************************************************)
EXTENDS Integers, Sequences

CONSTANT Sessions  \* bound: the sequences of changes a caller asks for

VARIABLES
    calls,    \* the changes asked for so far: method, empty arguments, outcome
    waiting,  \* the call whose answer the caller waits for
    atNode,   \* requests the node has received and not yet dealt with
    reply,    \* what is on its way back to the waiting call
    ledger,   \* the node's: what it executed, as it understood it
    answer    \* what the last query told its caller

vars == <<calls, waiting, atNode, reply, ledger, answer>>

-----------------------------------------------------------------------------
(* Requests: the order in which each method appends its arguments. *)

AppWrites ==
    [registerapp |-> <<"strAppName", "strAppDesc", "nDevType", "strDevName",
                       "strWebUrl", "strLogoUrl", "strCoverUrl">>,
     setappauth |-> <<"nSetType", "strAdminAddress", "strUserAddress", "nAuth">>,
     createextenddatatx |-> <<"nAppTxType", "strUserSafeAddress", "strAppId",
                              "dAppAuthCmd", "strExtendData">>]

AssetWrites ==
    [issueasset |-> <<"strShortName", "strAssetName", "strAssetDesc", "strAssetUnit",
                      "dTotalAmount", "dFirstIssueAmount", "dFirstActualAmount", "nDecimals",
                      "bDestory", "bPayCandy", "dCandyAmount", "nCandyExpired", "strRemarks">>,
     addissueasset |-> <<"strAssetId", "dAmount", "strRemarks">>,
     transferasset |-> <<"strSafeAddress", "strAssetId", "dAmount", "nLockTime", "strRemarks">>,
     destoryasset |-> <<"strAssetId", "dAmount", "strRemarks">>,
     putcandy |-> <<"strAssetId", "dAmount", "strRemarks", "nExpired">>,
     getcandy |-> <<"strAssetId">>]

\* The overloads of move, sendtoaddress, sendfrom and sendmany with more
\* parameters have names of their own here.
WalletWrites ==
    [move |-> <<"fromaccount", "toaccount", "amount", "minconf">>,
     moveWithComment |-> <<"fromaccount", "toaccount", "amount", "minconf", "comment">>,
     setaccount |-> <<"bitcoinaddress", "account">>,
     sendtoaddress |-> <<"bitcoinaddress", "amount">>,
     sendtoaddressWithComment |-> <<"bitcoinaddress", "amount", "comment", "comment_to">>,
     sendfrom |-> <<"fromaccount", "tobitcoinaddress", "amount">>,
     sendfromWithComment |-> <<"fromaccount", "tobitcoinaddress", "amount", "minconf",
                               "comment", "comment_to">>,
     sendmany |-> <<"fromaccount", "amounts">>,
     sendmanyWithComment |-> <<"fromaccount", "amounts", "minconf", "comment">>]

Writes == DOMAIN AppWrites \cup DOMAIN AssetWrites \cup DOMAIN WalletWrites
Appended(m) == IF m \in DOMAIN AppWrites THEN AppWrites[m]
               ELSE IF m \in DOMAIN AssetWrites THEN AssetWrites[m] ELSE WalletWrites[m]

Optional == {"strWebUrl", "strLogoUrl", "strCoverUrl"}
Empty == ""

ASSUME SessionsAssumption == \A s \in Sessions : \A i \in DOMAIN s : s[i] \in Writes

\* An optional argument that is empty is not appended; the arguments after it
\* move up.
AppendGiven(params, f, empty) == IF f \in empty THEN params ELSE Append(params, f)
registerapp(empty) ==
    AppendGiven(
      AppendGiven(
        AppendGiven(<<"strAppName", "strAppDesc", "nDevType", "strDevName">>,
          "strWebUrl", empty), "strLogoUrl", empty), "strCoverUrl", empty)
Params(m, empty) == IF m = "registerapp" THEN registerapp(empty) ELSE Appended(m)

-----------------------------------------------------------------------------
(* Results: the fields of a query's result and the members of the answer's *)
(* object they are read from.                                              *)

getappinfo == [strAppName |-> "appName", strAppDesc |-> "appDesc", nDevType |-> "devType",
               strDevName |-> "devName", strWebUrl |-> "webUrl",
               strLogoUrl |-> "appLogoUrl", strCoverUrl |-> "appCoverUrl"]

\* getappdetails fills three results: appData as getappinfo does, er, which
\* has a name of its own here, and ar, of a setappauth, which the node has
\* never executed (see Acceptable).  The members of a part that its
\* transaction is not of are absent.
getappdetails == getappinfo
getappdetailsExtend ==
    [strUserSafeAddress |-> "userSafeAddress", strAppId |-> "appId",
     dAppAuthCmd |-> "appAuthCmd", strExtendData |-> "extendData"]

getextenddata_Swapped == [strAppId |-> "appData", strExtendData |-> "appId"]
getextenddata == [strAppId |-> "appId", strExtendData |-> "appData"]

getassetinfo ==
    [strShortName |-> "assetShortName", strAssetName |-> "assetName",
     strAssetDesc |-> "assetDesc", strAssetUnit |-> "assetUnit",
     dTotalAmount |-> "assetTotalAmount", dFirstIssueAmount |-> "firstIssueAmount",
     dFirstActualAmount |-> "firstActualAmount", nDecimals |-> "assetDecimals",
     bDestory |-> "isDestory", bPayCandy |-> "isPayCandy",
     dCandyAmount |-> "candyTotalAmount", nCandyExpired |-> "destoryTotalAmout",
     dDestoryTotalAmout |-> "candyExpired", issueTime |-> "remarks", strRemarks |-> "issueTime"]

Queries == {"getappinfo", "getappdetails", "getappdetailsExtend", "getextenddata", "getassetinfo"}
Read(q) == CASE q = "getappinfo" -> getappinfo [] q = "getappdetails" -> getappdetails
             [] q = "getappdetailsExtend" -> getappdetailsExtend
             [] q = "getextenddata" -> getextenddata [] q = "getassetinfo" -> getassetinfo

\* The member that holds the list, for the methods that return one.
AppTxLists == [getapptxids |-> "txList", getaddressapptxids |-> "txList"]
AssetTxLists == [getassetidtxids |-> "txList", getaddrassettxids |-> "txList"]
AssetLists == [getassetlist |-> "assetList", getassetlistbyaddress |-> "assetList"]
getapplist == "appList"
getapplistbyaddress == "appList"
getlocalassetlist == "assetList"
Lists == DOMAIN AppTxLists \cup DOMAIN AssetTxLists \cup DOMAIN AssetLists
           \cup {"getapplist", "getapplistbyaddress", "getlocalassetlist"}
ReadList(q) == CASE q \in DOMAIN AppTxLists -> AppTxLists[q]
                 [] q \in DOMAIN AssetTxLists -> AssetTxLists[q]
                 [] q \in DOMAIN AssetLists -> AssetLists[q]
                 [] q = "getapplist" -> getapplist
                 [] q = "getapplistbyaddress" -> getapplistbyaddress
                 [] q = "getlocalassetlist" -> getlocalassetlist

Texts == {"strAppName", "strAppDesc", "strDevName", "strWebUrl", "strLogoUrl", "strCoverUrl",
          "strAdminAddress", "strUserAddress", "strUserSafeAddress", "strAppId", "strExtendData",
          "strShortName", "strAssetName", "strAssetDesc", "strAssetUnit", "strRemarks",
          "strAssetId", "strSafeAddress", "fromaccount", "toaccount", "bitcoinaddress",
          "tobitcoinaddress", "account", "comment", "comment_to", Empty}

\* Json reads a number as text but no text as a number, and nothing as either.
Absent == "absent"
Converts(field, value) == field \in Texts \/ value \notin Texts \/ value = Absent

-----------------------------------------------------------------------------
(* Exceptions. *)

Connector == -32003       \* no answer: refused, reset or timed out
InvalidResponse == -32001 \* an answer that is no JSON-RPC response
Internal == -32603        \* HTTP status other than 200, with the body
Unparsed == -1            \* the body does not parse
NoCode == 0               \* the body is JSON without error.code

BitcoinException_AnyInternal(e) ==
    IF e.errcode \in {Connector, Internal} THEN e.errcode
    ELSE IF e.body = "error" THEN e.code ELSE IF e.body = "json" THEN NoCode ELSE Unparsed

\* What BitcoinException makes of the library's code and the body: the node's
\* "error" object with its code, other "json", an answer "cut" off or "none".
\* A rejected password comes without a body.
BitcoinException(e) ==
    IF e.errcode = Connector \/ (e.errcode = Internal /\ e.body = "none") THEN e.errcode
    ELSE IF e.body = "error" THEN e.code ELSE IF e.body = "json" THEN NoCode ELSE Unparsed

\* The codes that leave it open whether the call was executed.
Inconclusive == {Connector, Unparsed, NoCode}

-----------------------------------------------------------------------------
(* The node (external). *)

NodeCodes == {-5, -1}     \* an error of its own: -1 is one of Bitcoin's

Expected == [
    registerapp |-> <<"strAppName", "strAppDesc", "nDevType", "strDevName",
                      "strWebUrl", "strLogoUrl", "strCoverUrl">>,
    setappauth |-> <<"nSetType", "strAppId", "strUserAddress", "nAuth">>,
    createextenddatatx |-> <<"nAppTxType", "strUserSafeAddress", "strAppId",
                             "dAppAuthCmd", "strExtendData">>,
    issueasset |-> <<"strShortName", "strAssetName", "strAssetDesc", "strAssetUnit",
                     "dTotalAmount", "dFirstIssueAmount", "dFirstActualAmount", "nDecimals",
                     "bDestory", "bPayCandy", "dCandyAmount", "nCandyExpired", "strRemarks">>,
    addissueasset |-> <<"strAssetId", "dAmount", "strRemarks">>,
    transferasset |-> <<"strSafeAddress", "strAssetId", "dAmount", "nLockTime", "strRemarks">>,
    destoryasset |-> <<"strAssetId", "dAmount", "strRemarks">>,
    putcandy |-> <<"strAssetId", "dAmount", "nExpired", "strRemarks">>,
    getcandy |-> <<"strAssetId">>,
    move |-> <<"fromaccount", "toaccount", "amount", "minconf", "comment">>,
    setaccount |-> <<"bitcoinaddress", "account">>,
    sendtoaddress |-> <<"bitcoinaddress", "amount", "comment", "comment_to">>,
    sendfrom |-> <<"fromaccount", "tobitcoinaddress", "amount", "minconf", "comment", "comment_to">>,
    sendmany |-> <<"fromaccount", "amounts", "minconf", "comment">>]

\* The command of a method: an overload with a comment has that of the other.
Command(m) == CASE m = "moveWithComment" -> "move"
                [] m = "sendtoaddressWithComment" -> "sendtoaddress"
                [] m = "sendfromWithComment" -> "sendfrom"
                [] m = "sendmanyWithComment" -> "sendmany"
                [] OTHER -> m

\* The parameters as the node takes them.
Understood(command, params) ==
    LET args == Expected[command] IN
    [f \in {args[i] : i \in DOMAIN args} |->
       LET at == CHOOSE i \in DOMAIN args : args[i] = f IN
       IF at <= Len(params) THEN params[at] ELSE Empty]

Made(command) == \E k \in DOMAIN ledger : ledger[k].command = command
Acceptable(r) ==
    LET args == Expected[r.command] IN
    /\ Len(r.params) <= Len(args)
    /\ \A i \in DOMAIN r.params :
         /\ r.params[i] \in Texts <=> args[i] \in Texts
         /\ args[i] = "strAppId" => r.params[i] = "strAppId" /\ Made("registerapp")
         /\ args[i] = "strAssetId" => r.params[i] = "strAssetId" /\ Made("issueasset")

AppObject == [appName |-> "strAppName", appDesc |-> "strAppDesc", devType |-> "nDevType",
              devName |-> "strDevName", webUrl |-> "strWebUrl", appLogoUrl |-> "strLogoUrl",
              appCoverUrl |-> "strCoverUrl"]
ExtendObject == [userSafeAddress |-> "strUserSafeAddress", appId |-> "strAppId",
                 appAuthCmd |-> "dAppAuthCmd", extendData |-> "strExtendData"]
DataObject == [appId |-> "strAppId", appData |-> "strExtendData"]
AssetObject == [assetShortName |-> "strShortName", assetName |-> "strAssetName",
                assetDesc |-> "strAssetDesc", assetUnit |-> "strAssetUnit",
                assetTotalAmount |-> "dTotalAmount", firstIssueAmount |-> "dFirstIssueAmount",
                firstActualAmount |-> "dFirstActualAmount", assetDecimals |-> "nDecimals",
                isDestory |-> "bDestory", isPayCandy |-> "bPayCandy",
                candyTotalAmount |-> "dCandyAmount", candyExpired |-> "nCandyExpired",
                remarks |-> "strRemarks"]
Made_by(q) == CASE q \in {"getappinfo", "getappdetails"} -> "registerapp"
                [] q \in {"getappdetailsExtend", "getextenddata"} -> "createextenddatatx"
                [] q = "getassetinfo" -> "issueasset"

\* The value of a member of the object the node answers query q with; what
\* it counts itself, as destoryTotalAmout and issueTime, is a number.
Member(q, k, key) ==
    LET object == CASE q \in {"getappinfo", "getappdetails"} -> AppObject
                    [] q = "getappdetailsExtend" -> ExtendObject
                    [] q = "getextenddata" -> DataObject [] q = "getassetinfo" -> AssetObject IN
    IF key \in DOMAIN object THEN ledger[k].reads[object[key]]
    ELSE IF key \in {"destoryTotalAmout", "issueTime"} THEN "number" ELSE Absent

Of(list) == CASE list \in {"getapplist", "getapplistbyaddress"} -> {"registerapp"}
              [] list \in {"getapptxids", "getaddressapptxids"} -> DOMAIN AppWrites
              [] list \in {"getassetidtxids", "getaddrassettxids"} -> DOMAIN AssetWrites
              [] OTHER -> {"issueasset"}
Entries(list) == {k \in DOMAIN ledger : ledger[k].command \in Of(list)}
ListMember(list) == CASE list \in {"getapplist", "getapplistbyaddress"} -> "appList"
                      [] list \in {"getassetlist", "getassetlistbyaddress", "getlocalassetlist"} -> "assetList"
                      [] OTHER -> "txList"

-----------------------------------------------------------------------------
Open == [end |-> "open", code |-> 0]
Returned == [end |-> "returned", code |-> 0]
Thrown(e) == [end |-> "thrown", code |-> BitcoinException(e)]

Nobody == [by |-> -1, method |-> "none", command |-> "none", params |-> <<>>, about |-> 0]
NoReply == [kind |-> "none", object |-> <<>>, list |-> {}, errcode |-> 0, body |-> "none", code |-> 0]
Result == [NoReply EXCEPT !.kind = "result"]
Failure(errcode, body, code) ==
    [NoReply EXCEPT !.kind = "error", !.errcode = errcode, !.body = body, !.code = code]
NoAnswer == [method |-> "none", about |-> 0, end |-> "none", fields |-> <<>>, list |-> {}]

Init ==
    /\ calls = <<>> /\ ledger = <<>>
    /\ waiting = Nobody /\ atNode = {}
    /\ reply = NoReply /\ answer = NoAnswer

(* The caller. *)

Write(m, empty) ==
    /\ waiting = Nobody
    /\ \E s \in Sessions : /\ Len(calls) < Len(s) /\ s[Len(calls) + 1] = m
                           /\ \A i \in DOMAIN calls : calls[i].method = s[i]
    /\ calls' = Append(calls, [method |-> m, empty |-> empty, outcome |-> Open])
    /\ waiting' = [by |-> Len(calls) + 1, method |-> m, command |-> Command(m),
                   params |-> Params(m, empty), about |-> 0]
    /\ atNode' = atNode \cup {waiting'}
    /\ answer' = NoAnswer
    /\ UNCHANGED <<reply, ledger>>

Query(q, k) ==
    /\ waiting = Nobody
    /\ q \in Queries => k \in DOMAIN ledger /\ ledger[k].command = Made_by(q)
    /\ waiting' = [by |-> 0, method |-> q, command |-> q, params |-> <<>>, about |-> k]
    /\ atNode' = atNode \cup {waiting'}
    /\ answer' = NoAnswer
    /\ UNCHANGED <<calls, reply, ledger>>

Concluded(outcome) ==
    /\ waiting' = Nobody /\ reply' = NoReply
    /\ calls' = IF waiting.by = 0 THEN calls ELSE [calls EXCEPT ![waiting.by].outcome = outcome]

\* sendcommand returns and the method fills its result; a member that does
\* not convert throws Json's exception, which is no BitcoinException.
Return ==
    /\ waiting # Nobody /\ reply.kind = "result"
    /\ Concluded(Returned)
    /\ LET q == waiting.method IN
       answer' = IF q \in Queries
                   THEN LET read == Read(q) IN
                        [NoAnswer EXCEPT !.method = q, !.about = waiting.about,
                           !.end = IF \A f \in DOMAIN read : Converts(f, reply.object[read[f]])
                                     THEN "returned" ELSE "Json::LogicError",
                           !.fields = [f \in DOMAIN read |-> reply.object[read[f]]]]
                 ELSE IF q \in Lists
                   THEN [NoAnswer EXCEPT !.method = q, !.about = waiting.about,
                           !.end = "returned", !.list = reply.list]
                 ELSE NoAnswer
    /\ UNCHANGED <<atNode, ledger>>

\* sendcommand throws what it was told, without another attempt.
Throw ==
    /\ waiting # Nobody /\ reply.kind = "error"
    /\ Concluded(Thrown(reply))
    /\ UNCHANGED <<atNode, ledger, answer>>

GiveUp_Retries ==
    /\ waiting # Nobody
    /\ atNode' = atNode \cup {waiting}
    /\ UNCHANGED <<calls, waiting, reply, ledger, answer>>

\* httpTimeout: the node may still execute the request, or have done so.  A
\* query given up is forgotten here, since it changes nothing.
GiveUp ==
    /\ waiting # Nobody
    /\ Concluded(Thrown(Failure(Connector, "none", 0)))
    /\ atNode' = IF waiting.by = 0 THEN atNode \ {waiting} ELSE atNode
    /\ UNCHANGED <<ledger, answer>>

(* The node and the line to it (external). *)

Answered(r, what) ==
    /\ atNode' = atNode \ {r}
    /\ reply' = IF r = waiting THEN what ELSE reply
    /\ UNCHANGED <<calls, waiting, answer>>

Execute(r) ==
    /\ r.by # 0 /\ Acceptable(r)
    /\ ledger' = Append(ledger, [by |-> r.by, command |-> r.command,
                                 reads |-> Understood(r.command, r.params)])
    /\ Answered(r, Result)

Show(r) ==
    /\ r.by = 0
    /\ LET keys == {Read(r.method)[f] : f \in DOMAIN Read(r.method)} IN
       Answered(r, IF r.method \in Queries
                     THEN [Result EXCEPT !.object = [key \in keys |-> Member(r.method, r.about, key)]]
                     ELSE [Result EXCEPT !.list = IF ReadList(r.method) = ListMember(r.method)
                                                    THEN Entries(r.method) ELSE {}])
    /\ UNCHANGED ledger

\* An error of the node's, a rejected password, an HTTP error with JSON of
\* another kind, or the request is lost.
Refuse(r) ==
    /\ \/ \E code \in NodeCodes : Answered(r, Failure(Internal, "error", code))
       \/ \E body \in {"none", "json"} : Answered(r, Failure(Internal, body, 0))
       \/ Answered(r, Failure(Connector, "none", 0))
    /\ UNCHANGED ledger

\* The answer arrives cut off, as the HTTP error of a proxy that would not
\* wait for it, or not at all.
Spoil ==
    /\ reply.kind = "result"
    /\ reply' \in {Failure(InvalidResponse, "cut", 0), Failure(Internal, "json", 0),
                  Failure(Connector, "none", 0)}
    /\ UNCHANGED <<calls, waiting, atNode, ledger, answer>>

Next ==
    \/ \E m \in Writes, empty \in SUBSET Optional :
         empty \subseteq {Appended(m)[i] : i \in DOMAIN Appended(m)} /\ Write(m, empty)
    \/ \E q \in Queries, k \in DOMAIN ledger : Query(q, k)
    \/ \E q \in Lists : Query(q, Len(ledger))
    \/ Return \/ Throw \/ GiveUp
    \/ \E r \in atNode : Execute(r) \/ Show(r) \/ Refuse(r)
    \/ Spoil

Spec == Init /\ [][Next]_vars

-----------------------------------------------------------------------------
(* Properties. *)

TypeOK ==
    /\ \A i \in DOMAIN calls :
         /\ calls[i].method \in Writes /\ calls[i].empty \subseteq Optional
         /\ calls[i].outcome.end = "open" <=> waiting.by = i
    /\ waiting = Nobody => reply = NoReply
    /\ reply # NoReply => waiting \notin atNode
    /\ \A k \in DOMAIN ledger : ledger[k].by \in DOMAIN calls

\* Argument f comes before the first that is left empty although a later one
\* is given.
Unmoved(c, f) ==
    LET a == Appended(c.method) IN
    \A i, j \in DOMAIN a :
      a[i] \in c.empty /\ i < j /\ a[j] \notin c.empty => \E k \in 1..(i - 1) : a[k] = f
Given(c, f) == IF f \in c.empty THEN Empty ELSE f

Done(i) == \E k \in DOMAIN ledger : ledger[k].by = i
Pending(i) == \E r \in atNode : r.by = i

ExecutedOnce == \A k, l \in DOMAIN ledger : ledger[k].by = ledger[l].by => k = l
OutcomesAreTrue ==
    \A i \in DOMAIN calls :
      LET o == calls[i].outcome IN
      /\ o.end = "returned" => Done(i)
      /\ o.end = "thrown" /\ o.code \notin Inconclusive => ~Done(i) /\ ~Pending(i)
ArgumentsArrive ==
    \A k \in DOMAIN ledger :
      LET c == calls[ledger[k].by] IN
      \A i \in DOMAIN Appended(c.method) :
        LET f == Appended(c.method)[i] IN
        Unmoved(c, f) => ledger[k].reads[f] = Given(c, f)

\* What a caller may conclude: a call that returned was executed, one that
\* threw with a code of the node's, or for the password, never will be, and
\* none is executed twice.  Only the connector's code, 0 and -1 leave it open;
\* -1 is what BitcoinException says of a body it cannot parse.
\* What is executed is what was asked for, up to the first optional argument
\* that is left out in the middle: the later ones move up, the earlier ones
\* are not disturbed.
EffectsAsReported == ExecutedOnce /\ OutcomesAreTrue /\ ArgumentsArrive

\* A query gives back what its caller, or an earlier one, once passed, and a
\* list names entries of the ledger of the kind asked for, all those there
\* were when the call was made and later ones in the order they were executed.
ReadBack ==
    /\ answer.method \in Queries /\ answer.end = "returned" =>
         LET c == calls[ledger[answer.about].by] IN
         \A f \in DOMAIN answer.fields : Unmoved(c, f) => answer.fields[f] = Given(c, f)
    /\ answer.method \in Lists =>
         /\ answer.list \subseteq Entries(answer.method)
         /\ \A k \in Entries(answer.method) \ answer.list :
              /\ k > answer.about
              /\ \A l \in answer.list : l < k
=============================================================================
