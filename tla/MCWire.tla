------------------------------- MODULE MCWire -------------------------------
(***************************************************************************)
(* The readings of what the parties exchange (konduit-data's CBOR, its     *)
(* Plutus data, the validator's types, JSON) against each other: values of *)
(* every type are laid out for the chain, as a request or an answer in one *)
(* of the two formats, or as a record of the database; the tree may be     *)
(* changed in one place on its way, and is read by all that read it.  So   *)
(* with what cardano/sdk puts on the chain and takes from it: outputs and  *)
(* transactions, the file of the tip, and the answers of a wallet.  And    *)
(* with what a service makes of its requests: there the tree is what the   *)
(* rows of its database hold.                                              *)
(***************************************************************************)
EXTENDS WireShapes, TLC

Node == INSTANCE WireRequest
Data == INSTANCE WireData
Kernel == INSTANCE WireKernel
Json == INSTANCE WireJson
Ledger == INSTANCE WireTx

-----------------------------------------------------------------------------
(* The values.                                                             *)

Bytes(len, of) == [len |-> len, of |-> of]
At(ms) == [ms |-> ms, sub |-> 0]

\* A time in memory whose milliseconds are not a u64.
Late == [ms |-> 1003, sub |-> 1]
ListsOf(S, n) == UNION {[1..k -> S] : k \in 0..n}

Tags == {Bytes(n, "tag") : n \in {0, 20, 64, 65, 129}}
Amounts == {0, MaxU64}
Secret == Bytes(32, "secret")
Lock == HashOf(Secret)
Sig == Bytes(64, "sig")

Bodies(latch) == [index : {1, MaxU64}, amount : Amounts, timeout : {At(0), At(3), Late}, latch : {latch}]
Excludes == {e \in ListsOf(1..3, 3) : Passes("indexes", e)}
SquashBodies ==
    {body \in [amount : Amounts, index : {0, 1, 4}, exclude : Excludes] : Passes("squash", body)}

SignedBy(bodies) == [body : bodies, signature : {Sig}]
WithIs(name, values) == {(("is" :> name) @@ v) : v \in values}
Cheques == WithIs("Unlocked", SignedBy(Bodies(Secret))) \cup WithIs("Locked", SignedBy(Bodies(Lock)))

Useds == [index : {1}, amount : Amounts]
Pendings == [amount : Amounts, timeout : {At(3)}, lock : {Lock}]
Stages ==
    [is : {"Opened"}, amount : Amounts, useds : ListsOf(Useds, 2)]
    \cup [is : {"Closed"}, amount : {1}, useds : ListsOf(Useds, 1), elapse_at : {At(3)}]
    \cup [is : {"Responded"}, amount : {1}, pendings : ListsOf(Pendings, 2)]
Datums ==
    [own_hash  : {Bytes(28, "hash")},
     constants : [tag : Tags, add_vkey : {Bytes(32, "consumer")}, sub_vkey : {Bytes(32, "adaptor")},
                  close_period : {At(3)}],
     stage     : Stages]

Unpends == {Bytes(0, ""), Secret, Bytes(1, "0")}
ASquash == [body |-> [amount |-> 1, index |-> 4, exclude |-> <<2>>], signature |-> Sig]
ACheque == [index |-> 1, amount |-> 1, timeout |-> At(3), latch |-> Secret]
Conts ==
    [is : {"Add", "Close"}]
    \cup [is : {"Sub"}, squash : {ASquash}, unlockeds : ListsOf(SignedBy({ACheque}), 2)]
    \cup [is : {"Respond"}, squash : {ASquash},
          cheques : ListsOf(WithIs("Unlocked", SignedBy({ACheque}))
                            \cup WithIs("Locked", SignedBy({[ACheque EXCEPT !.latch = Lock]})), 2)]
    \cup [is : {"Unlock", "Expire"}, unpends : ListsOf(Unpends, 2)]
Steps == [is : {"Cont"}, cont : Conts] \cup [is : {"Eol"}, eol : [is : {"End", "Elapse"}]]
Redeemers == [is : {"Defer", "Mutual"}] \cup [is : {"Main"}, steps : ListsOf(Steps, 1)]

Proposals ==
    [proposal : {ASquash.body}, current : {ASquash}, unlockeds : ListsOf(SignedBy({ACheque}), 1),
     lockeds : ListsOf(SignedBy({[ACheque EXCEPT !.latch = Lock]}), 2)]
Statuses == {[is |-> "Complete"]} \cup [is : {"Incomplete", "Stale"}, of : Proposals]
PayBodies == {Node!PayOf(locked, [text |-> "invoice"]) : locked \in SignedBy(Bodies(Lock))}
QuoteBodies ==
    {[is |-> "Bolt11", of |-> [text |-> "invoice"]]}
    \cup [is : {"Simple"}, of : [amount_msat : Amounts, payee : {Bytes(33, "payee")},
                                route_hints : ListsOf({<<[text |-> "hop"]>>}, 1)]]
Quotes == [index : {1}, amount : Amounts, relative_timeout : {3}, routing_fee : Amounts]

Receipts == [squash : {ASquash}, cheques : ListsOf(WithIs("Locked", SignedBy(Bodies(Lock))), 1)]
                \cup [squash : {ASquash}, cheques : {<<c>> : c \in WithIs("Unlocked", SignedBy({ACheque}))}]
Retainers == [amount : Amounts, subbed : {1}, useds : ListsOf(Useds, 1)]
\* What comes to the door of a service.
Body == [key |-> Bytes(32, "client"), nonce |-> 1]
TokenMac == Bytes(20, "mac")
PowMac == Bytes(32, "mac")
TokenRequests == {[body |-> Body, signature |-> Sig]}
Tokens == {[body |-> Body, mac |-> TokenMac]}
Challenges == {Node!NewChallenge(difficulty, 1, ttl, PowMac) : difficulty \in {0, 7}, ttl \in {3, MaxU64}}

Entries == [retainer : {None} \cup Retainers, receipt : {None} \cup Receipts,
            aux : [is_active : BOOLEAN]]

\* What the sdk puts on the ledger.
Key(name) == Ledger!Adr!FromKey(name)
Enterprise == Ledger!Adr!New("testnet", Key("wallet"))
Delegated ==
    Ledger!Adr!WithDelegation(Ledger!Adr!New("mainnet", Ledger!Adr!FromScript("script")), Key("stake"))
Byron == Ledger!Adr!Address("byron", 1, Key("old"), Ledger!Adr!NoPart)

Assets == <<<<2, <<<<"snek", 5>>, <<"dust", 0>>>>>>, <<1, <<<<"dust", 0>>>>>>, <<2, <<<<"milk", 1>>>>>>>>
ASum == Ledger!WithAssets(Ledger!NewValue(2), Assets)
Simple == Ledger!NewOutput(Enterprise, Ledger!NewValue(2))
Funded == {Ledger!NewOutput(Byron, ASum), Ledger!WithOutputAssets(Ledger!OutputTo(Delegated), Assets)}
Plain ==
    Funded \cup {Simple, Ledger!OutputTo(Delegated),
     Ledger!WithOutputAssets(Ledger!NewOutput(Enterprise, Ledger!NewValue(9)), Tail(Assets))}
AScript == Ledger!Script("V3", Bytes(100, "validator"))
Outputs ==
    UNION {{out, Ledger!WithDatum(out, L(<<I(1)>>)), Ledger!WithDatumHash(out, Bytes(32, "datum")),
            Ledger!WithDatum(Ledger!WithPlutusScript(out, AScript), L(<<>>))} : out \in Plain}

RefTo(index) == [transaction_id |-> Bytes(32, "tx"), index |-> index]
Maps(keys, values) == UNION {[some -> values] : some \in SUBSET keys}
Tips ==
    LET Some == {Simple, Ledger!NewOutput(Enterprise, ASum),
                 Ledger!WithDatum(Ledger!WithPlutusScript(Ledger!OutputTo(Delegated), AScript), L(<<I(1)>>))}
    IN  Maps({Enterprise, Delegated}, Maps({RefTo(0), RefTo(1)}, Some))

\* What the setters of a transaction are given, and in which order.
Mints ==
    {<<>>, <<[policy |-> 1, data |-> L(<<>>), assets |-> <<<<"snek", 5>>>>],
             [policy |-> 2, data |-> L(<<I(3)>>), assets |-> <<<<"milk", 0 - 1>>>>]>>}
Transactions ==
    [inputs  : Maps({RefTo(n) : n \in 0..2}, {<<>>, <<L(<<I(7)>>)>>}),
     mint    : Mints,
     outputs : {<<out, Simple>> : out \in Funded},
     scripts : {<<AScript>>},
     mintFirst : BOOLEAN]

Wallets ==
    [network : Ledger!Adr!NetworkId, change : {Enterprise, Delegated, Byron},
     utxos : Maps({RefTo(0), RefTo(1)}, Funded),
     keys  : {<<[vkey |-> Bytes(32, "consumer"), signature |-> Sig],
                [vkey |-> Bytes(32, "other"), signature |-> Sig]>>}]

\* The values of each type.
Values ==
    [Datum |-> Datums,
     Squash |-> SignedBy(SquashBodies),
     Unlocked |-> SignedBy(Bodies(Secret)),
     Locked |-> SignedBy(Bodies(Lock)),
     Cheque |-> Cheques,
     Redeemer |-> Redeemers,
     PayBody |-> PayBodies,
     QuoteBody |-> QuoteBodies,
     Quote |-> Quotes,
     SquashStatus |-> Statuses,
     Receipt |-> Receipts,
     TokenRequest |-> TokenRequests,
     Token |-> Tokens,
     Challenge |-> Challenges,
     Entry |-> Entries,
     Input |-> {RefTo(0), RefTo(MaxU64)},
     Output |-> Outputs,
     Tip |-> Tips,
     Transaction |-> Transactions,
     Wallet |-> Wallets,
     Service |-> {"konduit-server"}]

\* A type, and how each of those that write and read it lays it out.
Types ==
    [Datum    |-> [cbor |-> Node!Datum, data |-> Data!Datum, kernel |-> Kernel!Datum],
     Squash   |-> [cbor |-> Node!Squash, data |-> Data!Squash,
                   kernel |-> Kernel!Squash, json |-> Json!Squash],
     Unlocked |-> [cbor |-> Node!ChequeSigned(Node!Secret),
                   data |-> Data!Unlocked, kernel |-> Kernel!Unlocked,
                   json |-> Json!ChequeSigned(Json!Secret)],
     Locked   |-> [cbor |-> Node!ChequeSigned(Node!Lock),
                   data |-> Data!Locked, kernel |-> Kernel!Unlocked,
                   json |-> Json!ChequeSigned(Json!Lock)],
     Cheque   |-> [cbor |-> Node!Cheque, data |-> Data!Cheque,
                   kernel |-> Kernel!Cheque, json |-> Json!Cheque],
     Redeemer |-> [cbor |-> Node!Redeemer, data |-> Data!Redeemer,
                   kernel |-> Kernel!Redeemer],
     PayBody  |-> [cbor |-> Node!PayBody, json |-> Json!PayBody],
     QuoteBody    |-> [cbor |-> Node!QuoteBody, json |-> Json!QuoteBody],
     Quote        |-> [cbor |-> Node!Quote, json |-> Json!Quote],
     SquashStatus |-> [cbor |-> Node!SquashStatus, json |-> Json!SquashStatus],
     Receipt  |-> [cbor |-> Node!Receipt, json |-> Json!Receipt],
     TokenRequest |-> [cbor |-> Node!TokenRequest, json |-> Json!TokenRequest],
     Token    |-> [cbor |-> Node!Token],
     Challenge    |-> [cbor |-> Node!Challenge, json |-> Json!Challenge],
     Entry    |-> [cbor |-> Node!Entry]]

\* A value with whole milliseconds, and as many as a u64 holds, for its times.
Whole(time) == At(AsMillis(time))
WholeCheque(cheque) == [cheque EXCEPT !.body.timeout = Whole(@)]
WholeReceipt(receipt) ==
    [receipt EXCEPT !.cheques = [n \in DOMAIN @ |-> WholeCheque(@[n])]]
Coarse(kind, v) ==
    CASE kind \in {"Unlocked", "Locked", "Cheque"} -> WholeCheque(v)
      [] kind = "PayBody" -> [v EXCEPT !.cheque_body.timeout = Whole(@)]
      [] kind = "Receipt" -> WholeReceipt(v)
      [] kind = "Entry"   -> IF v.receipt = None THEN v ELSE [v EXCEPT !.receipt = WholeReceipt(@)]
      [] OTHER -> v

-----------------------------------------------------------------------------
(* One change to a tree.                                                   *)

RECURSIVE Edits(_)
Edits(tree) ==
    LET Inside(trees) ==
            UNION {{[trees EXCEPT ![n] = e] : e \in Edits(trees[n])} : n \in DOMAIN trees}
        Around(trees) ==
            {trees \o <<I(0)>>} \cup (IF trees = <<>> THEN {} ELSE {Front(trees), Tail(trees)})
    IN  IF Has(tree, "int") THEN {I(0 - 1), I(0), I(1), I(MaxU64 + 1), B(Bytes(0, ""))}
        ELSE IF Has(tree, "bytes")
        THEN {B(Bytes(tree.bytes.len, "other")), B(Bytes(tree.bytes.len + 1, "other")),
              B(Bytes(33, "other")), I(0), L(<<>>)}
        ELSE IF Has(tree, "items")
        THEN {L(trees) : trees \in Inside(tree.items) \cup Around(tree.items)}
             \cup {Constr(0, tree.items), I(0)}
        ELSE {Constr(tree.ix, trees) : trees \in Inside(tree.fields) \cup Around(tree.fields)}
             \cup {Constr(ix, tree.fields) : ix \in 0..3} \cup {L(tree.fields)}

\* One change to a JSON body.  A member that is no field of the struct is ignored.
RECURSIVE JsonEdits(_)
JsonEdits(json) ==
    IF Has(json, "number") THEN {Json!JNumber(n) : n \in {0 - 1, 0, 1, MaxU64 + 1}} \cup {Json!JNull}
    ELSE IF Has(json, "hex")
    THEN {Json!JHex(Bytes(json.hex.len, "other")), Json!JHex(Bytes(json.hex.len + 1, "other")),
          Json!JNumber(0)}
    ELSE IF Has(json, "string") THEN {Json!JText("Stale"), Json!JNull}
    ELSE IF Has(json, "array")
    THEN LET trees == json.array
         IN  {Json!JArray(new) : new \in
                UNION {{[trees EXCEPT ![n] = e] : e \in JsonEdits(trees[n])} : n \in DOMAIN trees}
                \cup {trees \o <<Json!JNumber(1)>>} \cup (IF trees = <<>> THEN {} ELSE {Tail(trees)})}
    ELSE LET members == json.object
         IN  {Json!JObject(new) : new \in
                UNION {{[members EXCEPT ![name] = e] : e \in JsonEdits(members[name])}
                          : name \in DOMAIN members}
                \cup {[name \in DOMAIN members \ {gone} |-> members[name]] : gone \in DOMAIN members}
                \cup {members @@ ("unknown" :> Json!JNull)}}

\* One change to a token of CBOR, or tokens after the last.
StreamEdits(stream) ==
    LET Changed(token) ==
            IF Has(token, "number") THEN {[number |-> n] : n \in {0, 1, MaxU64}}
            ELSE IF Has(token, "bytes")
            THEN {[bytes |-> Bytes(token.bytes.len + n, "other")] : n \in {0, 1}} \cup {[number |-> 0]}
            ELSE IF Has(token, "octets") THEN {[octets |-> Bytes(token.octets.len, "other")]}
            ELSE IF Has(token, "array") THEN {Begin("array")}
            ELSE {}
    IN  {stream \o <<[number |-> 0]>>}
        \cup UNION {{[stream EXCEPT ![n] = token] : token \in Changed(stream[n])} : n \in DOMAIN stream}

\* One change to an output of the ledger: what others may have put there.
OutputEdits(out) ==
    {[out EXCEPT !.address = Ledger!Adr!Bytes(Ledger!Adr!Address(era, 1, Key("other"), Ledger!Adr!NoPart))] :
        era \in {"stake", "byron", "shelley"}}
    \cup {[out EXCEPT !.value = held] : held \in
            {[coin |-> 0],
             [coin |-> 3, multiasset |-> <<<<2, <<<<"milk", 1>>, <<"snek", 1>>>>>>, <<1, <<<<"dust", 2>>>>>>>>]}}
    \cup {[out EXCEPT !.script = <<script>>] : script \in
            {Ledger!NativeScript, [plutus |-> "V1", bytes |-> Bytes(9, "old")]}}
    \cup (IF out.script = <<>>
          THEN {[Ledger!AsLegacy(out) EXCEPT !.value = held] : held \in
                  {out.value, [coin |-> 3, multiasset |-> <<<<2, <<<<"milk", 0>>>>>>, <<1, <<>>>>>>]}}
          ELSE {})

\* And to a transaction.
TransactionEdits(tx) ==
    {[tx EXCEPT !.outputs = <<out>>] : out \in OutputEdits(tx.outputs[1])}
    \cup {Ledger!WithField(tx, "collateral_return", <<out>>) : out \in OutputEdits(tx.outputs[2])}

\* And to the answers of a wallet.
AnswersEdits(answers) ==
    {[answers EXCEPT !.network = number] :
        number \in {[whole |-> FALSE, is |-> 0], [whole |-> TRUE, is |-> 2]}}
    \cup {[answers EXCEPT !.change = Ledger!Adr!StakeText("mainnet", Key("stake"))],
          [answers EXCEPT !.utxos = Ledger!NullAnswer], [answers EXCEPT !.witnesses = <<>>],
          [answers EXCEPT !.witnesses = Tail(@)], [answers EXCEPT !.hash = Bytes(31, "short")]}
    \cup {[answers EXCEPT !.utxos = Ledger!ListAnswer(<<<<RefTo(2), out>>>>)] :
            out \in OutputEdits(Ledger!IntoOutput(Simple))}

\* And to what is typed.
TypedEdits(parts) ==
    {Tail(parts), parts \o <<Json!JNumber(0)>>, <<parts[1], Json!JText("x")>>,
     <<Json!JHex(Bytes(31, "tx")), parts[2]>>, <<Json!JHex(Bytes(32, "other")), parts[2]>>}

-----------------------------------------------------------------------------
VARIABLES
    kind, value,
    media,    \* on its way to the chain, in JSON, in CBOR, ..., or not yet
    tree,     \* what is on its way
    garbled,  \* whether it was changed
    read      \* what its reader makes of it
vars == <<kind, value, media, tree, garbled, read>>

Layout == Types[kind]

\* The service: two channels, one of whose keytags begins with the other.
Server ==
    INSTANCE KonduitService WITH
        rows <- tree, Keytag <- {<<1, 1>>, <<1, 1, 2>>}, KeyLength <- 2,
        Invoice <- {[hash |-> <<"sha2_256", "s1">>, msat |-> 1]}, Settles <- {"settled", "failed"},
        Retained <- {[amount |-> 6, subbed |-> 0, useds |-> <<>>]}, Timeout <- {0, 1},
        MaxIndexSigned <- 2, FeePlaceholder <- 1, MaxUnsquashed <- 3,
        ClosePeriod <- 0, MinAdaBuffer <- 0

Init == /\ kind \in DOMAIN Values
        /\ value \in Values[kind]
        /\ media = "unsent"
        /\ IF kind = "Service" THEN Server!Init ELSE tree = Json!JNull
        /\ garbled = FALSE
        /\ read = [ok |-> FALSE]

\* All that a transaction says of itself.
Inspected(tx) ==
    [declared |-> Ledger!Declared(tx), witnessed |-> Ledger!Witnessed(tx),
     scripts |-> Ledger!PlutusScripts(tx)]

ReadOf(medium, sent) ==
    IF medium = "ledger" THEN IF kind = "Output" THEN Ledger!TryFromOutput(sent)
                              ELSE Ledger!ReadAs(Inspected(sent))
    ELSE IF medium = "file" THEN Ledger!ReadAs(Ledger!LoadTip(sent))
    ELSE IF medium = "typed" THEN Ledger!InputFromStr(sent)
    ELSE IF medium = "browser" THEN Ledger!ReadAs(Ledger!Cip30(sent))
    ELSE IF medium = "chain" THEN Data!TryFrom(Layout.data, sent)
    ELSE IF kind = "Token" THEN Node!FromStr(Node!Token, sent.stream)
    ELSE Node!Unmediate(medium, Layout, sent)

Sent == /\ media = "unsent"
        /\ read' = ReadOf(media', tree')
        /\ UNCHANGED <<kind, value, garbled>>

Post == /\ kind \in DOMAIN Types /\ Has(Layout, "data")
        /\ media' = "chain"
        /\ tree' = Data!From(Layout.data, value)
        /\ Sent

\* A request, or the answer to one.
Answer == /\ kind \in DOMAIN Types /\ Has(Layout, "json")
          /\ \E accept \in Node!Headers : media' = Node!ParseMediaType(accept)
          /\ LET answer == Node!Mediate(media', Layout, value)
             IN  answer.ok /\ tree' = answer.v
          /\ Sent

Store == /\ kind = "Entry"
         /\ media' = "Cbor"
         /\ tree' = [stream |-> Node!AsBytes(value)]
         /\ Sent

\* In a header.
Carry == /\ kind \in {"Token", "Challenge"}
         /\ media' = "Cbor"
         /\ tree' = [stream |-> Node!Display(Layout.cbor, value)]
         /\ Sent

\* The setters, in one order or the other.
Built(given) ==
    LET Mint(tx)   == Ledger!WithMint(tx, given.mint)
        Inputs(tx) == Ledger!WithInputs(tx, given.inputs)
        spending   == IF given.mintFirst THEN Inputs(Mint(Ledger!NewTransaction))
                      ELSE Mint(Inputs(Ledger!NewTransaction))
        pledged    == Ledger!WithCollaterals(spending, DOMAIN given.inputs)
        signed     == Ledger!WithSpecifiedSignatories(pledged, <<Bytes(28, "key")>>)
        witnessed  == Ledger!WithDatums(Ledger!WithPlutusScripts(signed, given.scripts), <<L(<<>>)>>)
    IN  Ledger!WithCollateralReturn(
            Ledger!WithReferenceInputs(Ledger!WithOutputs(witnessed, given.outputs), {RefTo(9)}),
            1, given.outputs[2])

Publish == /\ kind \in {"Output", "Transaction"}
           /\ media' = "ledger"
           /\ tree' = IF kind = "Output" THEN Ledger!IntoOutput(value) ELSE Built(value)
           /\ Sent

\* What cannot be written is not.
Save == /\ kind = "Tip"
        /\ media' = "file"
        /\ LET file == Ledger!SaveTip(value) IN file.ok /\ tree' = file.v
        /\ Sent

Type == /\ kind = "Input"
        /\ media' = "typed"
        /\ tree' = Ledger!InputText(value)
        /\ Sent

\* The extension: it may say of no UTxOs that there are none, or list none.
Ask == /\ kind = "Wallet"
       /\ media' = "browser"
       /\ \E none \in {Ledger!NullAnswer, Ledger!ListAnswer(<<>>)} :
            LET utxos == Ledger!PairsOf([ref \in DOMAIN value.utxos |-> Ledger!IntoOutput(value.utxos[ref])])
            IN  tree' = [network |-> [whole |-> TRUE, is |-> Ledger!Adr!NetworkByte(value.network)],
                         change |-> Ledger!Adr!Text(value.change),
                         utxos |-> IF utxos = <<>> THEN none ELSE Ledger!ListAnswer(utxos),
                         witnesses |-> value.keys, hash |-> Bytes(32, "tx")]
       /\ Sent

Garble == /\ media \notin {"unsent", "file"} /\ kind # "Entry" /\ ~garbled
          /\ tree' \in (CASE media = "chain" -> Edits(tree)
                          [] media = "ledger" -> IF kind = "Output" THEN OutputEdits(tree)
                                                 ELSE TransactionEdits(tree)
                          [] media = "browser" -> AnswersEdits(tree)
                          [] media = "typed" -> TypedEdits(tree)
                          [] media = "Json"  -> JsonEdits(tree)
                          [] media = "Cbor"  -> [stream : StreamEdits(tree.stream)])
          /\ garbled' = TRUE
          /\ read' = ReadOf(media, tree')
          /\ UNCHANGED <<kind, value, media>>

Serve == kind = "Service" /\ Server!Next /\ UNCHANGED <<kind, value, media, garbled, read>>

Next == Serve \/ Post \/ Answer \/ Store \/ Carry \/ Publish \/ Save \/ Type \/ Ask \/ Garble
Spec == Init /\ [][Next]_vars

-----------------------------------------------------------------------------
\* A quote without hints for its route is written without the list of them,
\* and not read without it.
IsUnreadable == kind = "QuoteBody" /\ media = "Json" /\ value.is = "Simple" /\ value.of.route_hints = <<>>

\* What an output holds; what there is none of is not there.
Quantities(holdings) == {holding \in holdings : holding[3] # 0}
Holdings(assets) ==
    Quantities(UNION {{<<policy, name, assets[policy][name]>> : name \in DOMAIN assets[policy]} :
                         policy \in DOMAIN assets})
PairedHoldings(pairs) ==
    Quantities(UNION {{<<pair[1], asset[1], asset[2]>> : asset \in ToSet(pair[2])} : pair \in ToSet(pairs)})

\* An output of the sdk's, and one of the ledger's, for what they are.
Settled(out) ==
    [out EXCEPT !.value = [lovelace |-> @.lovelace, assets |-> Holdings(@.assets)], !.deferred = FALSE]
Meaning(out) ==
    [address |-> out.address, coin |-> out.value.coin,
     assets |-> IF Has(out.value, "multiasset") THEN PairedHoldings(out.value.multiasset) ELSE {},
     datum |-> out.datum, script |-> IF Has(out, "legacy") THEN <<>> ELSE out.script]

\* What was put on the ledger is found there, and pays for itself.
OutputAgrees(found, given) ==
    /\ Settled(found) = Settled(given)
    /\ given.deferred => found.value.lovelace >= Ledger!MinAcceptable(found)

\* Every redeemer points to what it was given for.
TransactionAgrees ==
    LET declared == read.v.declared
        Position(ref) == Cardinality({other \in DOMAIN value.inputs : other.index < ref.index})
        spends == UNION {{<<<<"Spend", Position(ref)>>, data>> : data \in ToSet(value.inputs[ref])} :
                            ref \in DOMAIN value.inputs}
        mints  == {<<<<"Mint", n - 1>>, value.mint[n].data>> : n \in DOMAIN value.mint}
    IN  /\ Len(declared.inputs) = Cardinality(DOMAIN value.inputs)
        /\ \A ref \in DOMAIN value.inputs : declared.inputs[Position(ref) + 1] = ref
        /\ ToSet(read.v.witnessed.redeemers) = spends \cup mints
        /\ \A n \in DOMAIN value.mint :
              /\ tree.mint[n][1] = value.mint[n].policy
              /\ declared.mint.assets[value.mint[n].policy] = Ledger!MapOf(value.mint[n].assets)
        /\ \A n \in DOMAIN value.outputs : OutputAgrees(declared.outputs.v[n], value.outputs[n])
        /\ OutputAgrees(declared.collateral_return[1], value.outputs[2])
        /\ read.v.scripts = value.scripts
        /\ DOMAIN Ledger!AsResolvedInputs(tree) =
              {[transaction_id |-> Ledger!Id(tree), index |-> n - 1] : n \in DOMAIN value.outputs}

WalletAgrees ==
    /\ read.v.network_id = Ledger!ReadAs(value.network)
    /\ read.v.change_address = Ledger!ReadAs(value.change)
    /\ IF DOMAIN value.utxos = {} THEN read.v.utxos = Ledger!ReadAs(Ledger!NoUtxos)
       ELSE /\ DOMAIN read.v.utxos.v[1] = DOMAIN value.utxos
            /\ \A ref \in DOMAIN value.utxos : OutputAgrees(read.v.utxos.v[1][ref], value.utxos[ref])
    /\ read.v.sign_tx = Ledger!ReadAs(value.keys[1])

(* What one party writes another reads as the same value.  The two         *)
(* encoders of konduit-data write the same bytes, which are read back by   *)
(* the CBOR decoder, to the last byte, from Plutus data, and by the        *)
(* validator's types; a request or an answer comes through in JSON as it   *)
(* is and in CBOR, as in the database, without the part of a timeout below *)
(* a millisecond, which the chain loses too.  What the sdk puts on the     *)
(* ledger it finds there, in whichever order it was put together: outputs  *)
(* with what they hold and the least that they must, redeemers where they  *)
(* point to what they are for; and it comes through the file of the tip,   *)
(* where that is written, and from a wallet, as it is.                     *)
EncodersAgree ==
    media # "unsent" /\ ~garbled =>
        CASE media = "chain" ->
                /\ Node!Encode(Layout.cbor, value) = Data!ToCbor(tree)
                /\ Node!Decode(Layout.cbor, Data!ToCbor(tree)) = Node!ReadAs(Coarse(kind, value), <<>>)
                /\ read = Data!ReadAs(Coarse(kind, value))
                /\ Kernel!Expect(Layout.kernel, tree) = Kernel!ReadAs(Coarse(kind, value))
          [] media = "Json" -> read = Node!Done(value) \/ IsUnreadable
          [] media = "ledger" -> IF kind = "Output" THEN read.ok /\ OutputAgrees(read.v, value)
                                 ELSE TransactionAgrees
          [] media \in {"file", "typed"} -> read = Ledger!ReadAs(value)
          [] media = "browser" -> WalletAgrees
          [] media = "Cbor" ->
                (IF kind = "Entry" THEN Node!FromBytes(tree.stream) ELSE Node!Decode(Layout.cbor, tree.stream))
                    = Node!ReadAs(Coarse(kind, value), <<>>)

\* The checks of the constructors, which JSON goes round.
IsSound(v) ==
    kind = "Squash" => Passes("indexes", v.body.exclude) /\ Passes("squash", v.body)

(* A tree that konduit-data reads, whoever made it, the validator and the  *)
(* CBOR decoder read as the same value: no datum is one channel to the     *)
(* adaptor and another one on chain.  (Not so for redeemers, which the     *)
(* node only writes: an Add or End with fields is read without them.)      *)
(* What CBOR reads has been checked, and what JSON reads can, if the       *)
(* constructors would take it, be written to the database and read again.  *)
(* An output of whoever's, if it is read, is for the ledger what it was    *)
(* when it is written again.  And what the client of a service hears holds *)
(* of the row of its channel, which alone its request changed, if any.     *)
ReadersAgree ==
    LET IsKept(out, from) == Meaning(Ledger!IntoOutput(out)) = Meaning(from)
    IN  /\ kind = "Service" => Server!AnswersHold
        /\ kind # "Redeemer" /\ read.ok =>
           CASE media = "chain" ->
                   /\ Kernel!Expect(Layout.kernel, tree) = Kernel!ReadAs(read.v)
                   /\ Node!Decode(Layout.cbor, Data!ToCbor(tree)) = Node!ReadAs(read.v, <<>>)
             [] media = "ledger" ->
                   IF kind = "Output" THEN IsKept(read.v, tree)
                   ELSE LET declared == read.v.declared
                        IN  /\ declared.outputs.ok =>
                                 \A n \in DOMAIN tree.outputs : IsKept(declared.outputs.v[n], tree.outputs[n])
                            /\ declared.collateral_return # <<>> =>
                                 IsKept(declared.collateral_return[1], tree.collateral_return[1])
             [] media = "browser" ->
                   read.v.utxos.ok /\ read.v.utxos.v # Ledger!NoUtxos =>
                       \A pair \in ToSet(tree.utxos.list) : IsKept(read.v.utxos.v[1][pair[1]], pair[2])
             [] media = "typed" -> Ledger!InputText(read.v) = tree
             [] media = "file" -> TRUE
             [] media = "Json" ->
                   kind \in {"Squash", "PayBody"} /\ IsSound(read.v) =>
                       Node!Decode(Layout.cbor, Node!Encode(Layout.cbor, read.v))
                           = Node!ReadAs(Coarse(kind, read.v), <<>>)
             [] media = "Cbor" ->
                   /\ IsSound(read.v)
                   /\ Node!Decode(Layout.cbor, Node!Encode(Layout.cbor, read.v)) = Node!ReadAs(read.v, <<>>)

-----------------------------------------------------------------------------
(* Signatures.                                                             *)

Consumer == "consumer"
Keytag(tag) == Node!NewKeytag(Consumer, tag)

\* A request to pay is verified as the cheque that it is of.
AsSigned(v) == IF kind = "PayBody" THEN Node!ChequeOfPay(v) ELSE v
IsOf(v, name) == kind = name \/ (kind = "Cheque" /\ v.is = name)

Made(tag) ==
    CASE kind = "Squash" -> Node!MakeSquash(Consumer, tag, value)
      [] IsOf(value, "Unlocked") -> Node!MakeUnlocked(Consumer, tag, value)
      [] OTHER -> Node!MakeLocked(Consumer, tag, AsSigned(value))

\* As what the header of a request says that it is from.
Verifies(keytag, v, made) ==
    LET from == Node!SplitKeytag(keytag)
    IN  CASE kind = "Squash" -> Node!SquashVerifies(from.key, from.tag, v, made)
          [] kind = "Cheque" -> Node!ChequeVerifies(from.key, from.tag, v, made)
          [] kind = "Unlocked" -> Node!UnlockedVerifies(from.key, from.tag, v, made)
          [] OTHER -> Node!LockedVerifies(from.key, from.tag, AsSigned(v), made)

\* What the signature is on, of a value that was signed.
Signs(v) ==
    LET signed == AsSigned(Coarse(kind, v))
    IN  [body |-> IF IsOf(v, "Unlocked") THEN Node!LockedOf(signed.body) ELSE signed.body,
         signature |-> signed.signature]

\* Cheques and squashes: who pays for what.
SignedForChannel ==
    LET TaggedSquash == Node!Tuple(<<Field("tag", Node!Tag), Field("body", Node!SquashBody)>>)
    IN  \A tag \in Tags :
          LET made == Made(tag)
          IN  /\ \A other \in Tags :
                    Verifies(Keytag(other), read.v, made) <=> other = tag /\ Signs(read.v) = Signs(value)
              /\ kind \in {"Locked", "PayBody"} /\ Verifies(Keytag(tag), read.v, made) =>
                    LET unlocked == Node!TryFromLocked(AsSigned(read.v), Secret)
                    IN  /\ unlocked.ok /\ Node!UnlockedVerifies(Consumer, tag, unlocked.v, made)
                        /\ Node!AsLocked(unlocked.v) = AsSigned(read.v)
              /\ kind # "Squash" => ~Node!Decode(TaggedSquash, made.on).ok
              /\ media = "chain" /\ kind \in {"Squash", "Unlocked", "Locked"} =>
                    LET body == tree.items[1].items
                    IN  Data!ToCbor(Kernel!Message(B(tag),
                            IF kind = "Unlocked" THEN Kernel!LockedBody(body) ELSE L(body)))
                        = CASE kind = "Squash" -> Node!SquashMessage(tag, read.v)
                            [] kind = "Locked" -> Node!LockedMessage(tag, read.v)
                            [] kind = "Unlocked" -> Node!UnlockedMessage(tag, read.v)

\* Tokens: who a client is.
Service == "service"
IssuedToken == [bytes |-> TokenMac, by |-> Service, on |-> Node!Encode(Node!Body, Body)]
IssuedAsAsked ==
    LET made  == Node!Sign(Body.key, Node!TbsBytes(Body), Sig)
        token == Node!Issue(Service, read.v.body, read.v.signature, made, IssuedToken)
    IN  /\ token.ok <=> read.v = value
        /\ token.ok => Node!HmacVerify(Service, [body |-> read.v.body, mac |-> token.v], IssuedToken)

\* Challenges: that a client has worked.  The hashes are of the nonces 0 to 3.
Hashes == [nonce \in 0..3 |-> <<<<255, 0>>, <<1, 0>>, <<0, 128>>, <<0, 16>>>>[nonce + 1]]
WorkedFor ==
    LET issued == [bytes |-> PowMac, by |-> Service,
                   on |-> Node!PowMessage(value.scheme, value.difficulty, value.expires_at, "client")]
        nonce  == Node!Solve(read.v, Hashes)
        Answered(ip, n, now) == Node!VerifyChallenge(read.v, ip, Service, Hashes[n], now, issued)
    IN  \A now \in 0..MaxU64, ip \in {"client", "another"} :
          /\ Answered(ip, nonce, now) = "Ok" <=> ip = "client" /\ read.v = value /\ now <= value.expires_at
          /\ nonce > 0 => Answered(ip, nonce - 1, now) # "Ok"

(* A signature stands for what was signed and for the channel it was       *)
(* signed for, whichever way it came.  What the node verifies it on is     *)
(* byte for byte what the validator does, long tags included and a secret  *)
(* replaced by its hash; it verifies exactly when the body, the lock and   *)
(* the tag are those it was made with, up to whole milliseconds that a u64 *)
(* holds, also once the secret has unlocked the cheque; and no signed      *)
(* cheque can be passed off as a signed squash.  So with what the services *)
(* issue: a token is issued for the client's own signature only, and it    *)
(* and a challenge are taken back as they were issued, by nobody but for   *)
(* whom, in time and for the work.  And what the rows of a service hold    *)
(* was signed for their channels.                                          *)
SignedAlike ==
    /\ kind = "Service" => Server!RowsAreSigned
    /\ read.ok =>
        /\ kind \in {"Squash", "Unlocked", "Locked", "Cheque", "PayBody"} => SignedForChannel
        /\ kind = "TokenRequest" => IssuedAsAsked
        /\ kind = "Token" => (Node!HmacVerify(Service, read.v, IssuedToken) <=> read.v = value)
        /\ kind = "Challenge" => WorkedFor
=============================================================================
