------------------------------ MODULE WireLedger ------------------------------
(***************************************************************************)
(* cardano/sdk between its own types and those of the ledger: values,      *)
(* outputs, scripts and transactions, as they are put into what is         *)
(* submitted and taken from what others made; as a session keeps them in   *)
(* the file of its tip; and as a wallet in the browser (cardano/wallet)    *)
(* hands them over.                                                        *)
(*                                                                         *)
(*   value   [lovelace, assets]: policy -> name -> quantity; policies are  *)
(*           numbers                                                       *)
(*   output  [address, value, deferred, datum, script], where datum and    *)
(*           script are sequences of at most one                           *)
(*                                                                         *)
(* The ledger's maps are sequences of pairs, and a field of a transaction  *)
(* that would be empty is left out.  The data of a datum or a redeemer is  *)
(* not looked into.                                                        *)
(***************************************************************************)
EXTENDS WireJson

Adr == INSTANCE CardanoAddress

\* Maps, and the ledger's pairs.
PairsOf(map) ==
    LET keys == SetToSeq(DOMAIN map) IN [n \in DOMAIN keys |-> <<keys[n], map[keys[n]]>>]

\* Of two pairs with one key the later counts.
MapOf(pairs) ==
    [key \in {pair[1] : pair \in ToSet(pairs)} |->
        pairs[Max({n \in DOMAIN pairs : pairs[n][1] = key})][2]]

-----------------------------------------------------------------------------
(* Hashes and references to outputs.                                       *)

Hash(size) == HexOf({size})
HashFrom(size, bytes) == IF bytes.len = size THEN ReadAs(bytes) ELSE NotRead

InputJson == Struct(<<Field("transaction_id", Hash(32)), Field("index", Number)>>)

\* "<id>#<index>", cut at each "#".
InputText(input) == <<JHex(input.transaction_id), JNumber(input.index)>>
InputFromStr(parts) ==
    IF /\ Len(parts) = 2
       /\ Has(parts[1], "hex") /\ HashFrom(32, parts[1].hex).ok
       /\ IsU64(parts[2])
    THEN ReadAs([transaction_id |-> parts[1].hex, index |-> parts[2].number])
    ELSE NotRead

-----------------------------------------------------------------------------
(* Values.                                                                 *)

NewValue(lovelace) == [lovelace |-> lovelace, assets |-> <<>>]

NonNull(assets) == SelectSeq(assets, LAMBDA asset : asset[2] # 0)

\* given is a sequence of policies, each with a sequence of names and quantities.
WithAssets(value, given) ==
    LET Of(assets, policy) == IF policy \in DOMAIN assets THEN assets[policy] ELSE <<>>
        Added(assets, one) ==
            (one[1] :> (MapOf(NonNull(one[2])) @@ Of(assets, one[1]))) @@ assets
    IN  [value EXCEPT !.assets = FoldLeft(Added, @, given)]

\* No quantity is null, and no policy without a quantity.
IntoMultiasset(assets) ==
    LET inner    == [policy \in DOMAIN assets |-> NonNull(PairsOf(assets[policy]))]
        policies == SetToSortSeq({policy \in DOMAIN assets : inner[policy] # <<>>}, <)
    IN  [n \in DOMAIN policies |-> <<policies[n], inner[policies[n]]>>]

FromMultiasset(pairs) == MapOf([n \in DOMAIN pairs |-> <<pairs[n][1], MapOf(pairs[n][2])>>])

IntoValue(value) ==
    LET pairs == IntoMultiasset(value.assets)
    IN  IF pairs = <<>> THEN [coin |-> value.lovelace]
        ELSE [coin |-> value.lovelace, multiasset |-> pairs]

\* Of the ledger's outputs, those of before Babbage included.
FromValue(value) ==
    [lovelace |-> value.coin,
     assets   |-> IF Has(value, "multiasset") THEN FromMultiasset(value.multiasset) ELSE <<>>]

MintFrom(pairs) == [lovelace |-> 0, assets |-> FromMultiasset(pairs)]
MintInto(value) == IntoMultiasset(value.assets)

-----------------------------------------------------------------------------
(* Scripts.                                                                *)

Versions == {"V1", "V2", "V3"}
Script(version, bytes) == [version |-> version, bytes |-> bytes]

\* ScriptRef, and what is a script to the sdk.
IntoScriptRef(script) == [plutus |-> script.version, bytes |-> script.bytes]
NativeScript == [native |-> TRUE]
FromScriptRef(ref) == Script(ref.plutus, ref.bytes)

ScriptJson(script) == JArray(<<JText(script.version), JHex(script.bytes)>>)
ScriptFromJson(json) == Script(json.array[1].string, json.array[2].hex)

-----------------------------------------------------------------------------
(* Outputs.                                                                *)

DatumHash(hash) == [hash |-> hash]
Inline(data) == [inline |-> data]

NewOutput(address, value) ==
    [address |-> address, value |-> value, deferred |-> FALSE, datum |-> <<>>, script |-> <<>>]

\* The least that an output takes: more with every part that it has.
MinAcceptable(out) ==
    1 + Len(IntoMultiasset(out.value.assets)) + Len(out.datum) + Len(out.script)
SetMinimum(out) ==
    IF out.deferred THEN [out EXCEPT !.value.lovelace = MinAcceptable(out)] ELSE out

OutputTo(address) == SetMinimum([NewOutput(address, NewValue(0)) EXCEPT !.deferred = TRUE])

\* A value that was given is forgotten.
WithOutputAssets(out, given) ==
    SetMinimum([out EXCEPT !.value = WithAssets(NewValue(0), given), !.deferred = TRUE])
WithDatum(out, data) == SetMinimum([out EXCEPT !.datum = <<Inline(data)>>])
WithDatumHash(out, hash) == SetMinimum([out EXCEPT !.datum = <<DatumHash(hash)>>])
WithPlutusScript(out, script) == SetMinimum([out EXCEPT !.script = <<script>>])

\* From<&Output>: as of Babbage, whatever it was read from.
IntoOutput(out) ==
    [address |-> Adr!Bytes(out.address), value |-> IntoValue(out.value), datum |-> out.datum,
     script |-> [n \in DOMAIN out.script |-> IntoScriptRef(out.script[n])]]

\* What an output of before Babbage can hold: the hash of a datum, no script.
AsLegacy(out) == [legacy |-> TRUE, address |-> out.address, value |-> out.value, datum |-> out.datum]

AddressFrom(bytes) ==
    LET address == Adr!AsAny(Adr!FromBytes(bytes))
    IN  IF address = Adr!Refused THEN NotRead ELSE ReadAs(address)

TryFromOutput(out) ==
    LET address == AddressFrom(out.address)
        read    == NewOutput(address.v, FromValue(out.value))
        scripts == IF Has(out, "legacy") THEN <<>> ELSE out.script
    IN  IF ~address.ok \/ NativeScript \in ToSet(scripts) THEN NotRead
        ELSE ReadAs([read EXCEPT !.datum = out.datum,
                                 !.script = [n \in DOMAIN scripts |-> FromScriptRef(scripts[n])]])

-----------------------------------------------------------------------------
(* The tip's file: JSON.                                                   *)

AddressJson(address) == [text |-> Adr!Text(address)]
AddressFromJson(json) == Adr!AsAny(Adr!FromText(json.text))

\* The name of an asset is a byte string, and no key of a JSON object is.
Keyless == [error |-> "key must be a string"]
ValueJson(value) ==
    JArray(<<JNumber(value.lovelace),
             JObject([policy \in DOMAIN value.assets |->
                        IF value.assets[policy] = <<>> THEN JObject(<<>>) ELSE Keyless])>>)
ValueFromJson(json) ==
    [lovelace |-> json.array[1].number,
     assets   |-> [policy \in DOMAIN json.array[2].object |-> <<>>]]

OutputJson(out) ==
    JObject([address |-> AddressJson(out.address),
             value   |-> JObject((IF out.deferred THEN "Minimum" ELSE "Explicit") :> ValueJson(out.value))]
            @@ (IF out.datum = <<>> THEN <<>> ELSE [datum |-> out.datum[1]])
            @@ (IF out.script = <<>> THEN <<>> ELSE [script |-> ScriptJson(out.script[1])]))
OutputFromJson(json) ==
    LET members == json.object
        IfAny(name, list) == IF name \in DOMAIN members THEN list ELSE <<>>
        value == members.value.object
    IN  [address  |-> AddressFromJson(members.address),
         value    |-> ValueFromJson(value[CHOOSE name \in DOMAIN value : TRUE]),
         deferred |-> "Minimum" \in DOMAIN value,
         datum    |-> IfAny("datum", <<members.datum>>),
         script   |-> IfAny("script", <<ScriptFromJson(members.script)>>)]

\* tip maps addresses to maps of references to outputs.
TipVec(tip) ==
    LET rows == PairsOf(tip) IN [n \in DOMAIN rows |-> <<rows[n][1], PairsOf(rows[n][2])>>]
FromTipVec(rows) == MapOf([n \in DOMAIN rows |-> <<rows[n][1], MapOf(rows[n][2])>>])

CanBeSaved(tip) ==
    \A address \in DOMAIN tip, input \in UNION {DOMAIN tip[a] : a \in DOMAIN tip} :
        input \in DOMAIN tip[address] =>
            \A policy \in DOMAIN tip[address][input].value.assets :
                tip[address][input].value.assets[policy] = <<>>

SaveTip(tip) ==
    LET Utxo(pair) == JArray(<<Serialize(InputJson, pair[1]), OutputJson(pair[2])>>)
        Row(row) == JArray(<<AddressJson(row[1]), JArray([n \in DOMAIN row[2] |-> Utxo(row[2][n])])>>)
        rows == TipVec(tip)
    IN  IF CanBeSaved(tip)
        THEN ReadAs(JObject([utxos |-> JArray([n \in DOMAIN rows |-> Row(rows[n])])]))
        ELSE NotRead

\* Of a file that is not there: an empty tip.
LoadTip(json) ==
    LET Utxo(pair) == <<Deserialize(InputJson, pair.array[1]).v, OutputFromJson(pair.array[2])>>
        Row(row) == <<Adr!AsShelley(AddressFromJson(row.array[1])),
                      [n \in DOMAIN row.array[2].array |-> Utxo(row.array[2].array[n])]>>
        rows == json.object.utxos.array
    IN  IF json = JNull THEN <<>> ELSE FromTipVec([n \in DOMAIN rows |-> Row(rows[n])])
=============================================================================
