------------------------------- MODULE WireTx -------------------------------
(***************************************************************************)
(* Transactions as the ledger has them (cardano/sdk's Transaction is one,  *)
(* inside): what the setters put there and what the accessors find; and    *)
(* the answers of a wallet in the browser, which owns the keys             *)
(* (cardano/wallet, CIP-30).                                               *)
(*                                                                         *)
(* A transaction is a record of the fields that are there: one that would  *)
(* be empty is left out.  A pointer is a purpose and a position.  The id   *)
(* is the hash of the body: here, the transaction without its witnesses.   *)
(***************************************************************************)
EXTENDS WireLedger

Pointer(purpose, position) == <<purpose, position>>
ZeroUnits == [mem |-> 0, cpu |-> 0]

NewTransaction == [inputs |-> <<>>, outputs |-> <<>>, fee |-> 0]

\* A field of its own, unless there is nothing in it.
WithField(tx, name, given) ==
    IF given = <<>> THEN [field \in DOMAIN tx \ {name} |-> tx[field]] ELSE (name :> given) @@ tx
FieldOf(tx, name) == IF Has(tx, name) THEN tx[name] ELSE <<>>

-----------------------------------------------------------------------------
(* Setters.                                                                *)

WithoutRedeemers(redeemers, purpose) ==
    SelectSeq(redeemers, LAMBDA redeemer : redeemer[1][1] # purpose)

WithRedeemers(tx, purpose, redeemers) ==
    WithField(tx, "redeemers",
              WithoutRedeemers(FieldOf(tx, "redeemers"), purpose)
              \o [n \in DOMAIN redeemers |-> <<redeemers[n][1], [data |-> redeemers[n][2], units |-> ZeroUnits]>>])

\* References in their order; here all are to one transaction.
Sorted(inputs) == SetToSortSeq(inputs, LAMBDA a, b : a.index < b.index)

\* inputs maps references to their redeemers, sequences of at most one.
WithInputs(tx, inputs) ==
    LET sorted == Sorted(DOMAIN inputs)
        OfInput(n) == [m \in DOMAIN inputs[sorted[n]] |-> <<Pointer("Spend", n - 1), inputs[sorted[n]][m]>>]
    IN  WithRedeemers([tx EXCEPT !.inputs = sorted], "Spend",
                      FlattenSeq([n \in DOMAIN sorted |-> OfInput(n)]))

WithCollaterals(tx, inputs) == WithField(tx, "collateral", Sorted(inputs))
WithReferenceInputs(tx, inputs) == WithField(tx, "reference_inputs", Sorted(inputs))
WithSpecifiedSignatories(tx, hashes) == WithField(tx, "required_signers", hashes)
WithOutputs(tx, outputs) ==
    [tx EXCEPT !.outputs = [n \in DOMAIN outputs |-> IntoOutput(outputs[n])]]

\* mint is a sequence, by policy and redeemer, of [policy, data, assets].
WithMint(tx, mint) ==
    LET value == WithAssets(NewValue(0), [n \in DOMAIN mint |-> <<mint[n].policy, mint[n].assets>>])
    IN  WithRedeemers(WithField(tx, "mint", MintInto(value)), "Mint",
                      [n \in DOMAIN mint |-> <<Pointer("Mint", n - 1), mint[n].data>>])

WithDatums(tx, datums) == WithField(tx, "datums", datums)

\* Each version in a field of its own; only V3 is more than tolerated.
WithPlutusScripts(tx, scripts) ==
    LET OfVersion(version) ==
            LET list == SelectSeq(scripts, LAMBDA script : script.version = version)
            IN  [n \in DOMAIN list |-> list[n].bytes]
    IN  WithField(WithField(WithField(tx, "V1", OfVersion("V1")), "V2", OfVersion("V2")),
                  "V3", OfVersion("V3"))

\* What a collateral leaves, to where it came from.
WithCollateralReturn(tx, total, out) ==
    WithField(WithField(tx, "total_collateral", <<total>>), "collateral_return", <<IntoOutput(out)>>)

-----------------------------------------------------------------------------
(* Accessors.                                                              *)

Body(tx) ==
    [field \in DOMAIN tx \ {"redeemers", "datums", "V1", "V2", "V3"} |-> tx[field]]
Id(tx) == [len |-> 32, of |-> <<"hash of", Body(tx)>>]

ReadOutputs(outputs) ==
    LET reads == [n \in DOMAIN outputs |-> TryFromOutput(outputs[n])]
    IN  IF \A n \in DOMAIN reads : reads[n].ok THEN ReadAs([n \in DOMAIN reads |-> reads[n].v])
        ELSE NotRead

\* The body.  outputs panics on one that is not read, the collateral's return is
\* then as if there were none.
Declared(tx) ==
    [fee                   |-> tx.fee,
     total_collateral      |-> FieldOf(tx, "total_collateral"),
     inputs                |-> tx.inputs,
     collaterals           |-> FieldOf(tx, "collateral"),
     reference_inputs      |-> FieldOf(tx, "reference_inputs"),
     mint                  |-> MintFrom(FieldOf(tx, "mint")),
     outputs               |-> ReadOutputs(tx.outputs),
     collateral_return     |-> LET read == ReadOutputs(FieldOf(tx, "collateral_return"))
                               IN  IF read.ok THEN read.v ELSE <<>>,
     specified_signatories |-> FieldOf(tx, "required_signers")]

\* The witnesses.  (redeemers panics on the older form, a list, that the sdk does
\* not write.)
Witnessed(tx) ==
    [redeemers |-> LET given == FieldOf(tx, "redeemers")
                   IN  [n \in DOMAIN given |-> <<given[n][1], given[n][2].data>>],
     datums    |-> FieldOf(tx, "datums")]

PlutusScripts(tx) ==
    LET OfVersion(version) ==
            [n \in DOMAIN FieldOf(tx, version) |-> Script(version, FieldOf(tx, version)[n])]
    IN  OfVersion("V1") \o OfVersion("V2") \o OfVersion("V3")

\* Its outputs as the UTxO that it makes.
AsResolvedInputs(tx) ==
    LET outputs == ReadOutputs(tx.outputs).v
    IN  MapOf([n \in DOMAIN outputs |->
                <<[transaction_id |-> Id(tx), index |-> n - 1], outputs[n]>>])

-----------------------------------------------------------------------------
(* A wallet in the browser.                                                *)

\* A number of JavaScript: a whole one or not.
NetworkIdFrom(number) ==
    IF number.whole /\ number.is \in {0, 1} THEN ReadAs(Adr!NetworkIdOfByte(number.is)) ELSE NotRead

ChangeAddress(text) ==
    LET address == Adr!AsAny(Adr!FromText(text))
    IN  IF address = Adr!Refused THEN NotRead ELSE ReadAs(address)

\* The answer to getUtxos is null, or a list of references and outputs; a wallet
\* that has none is as one that cannot cover what it was asked for.
NoUtxos == <<>>
NullAnswer == [null |-> TRUE]
ListAnswer(utxos) == [list |-> utxos]
Utxos(answer) ==
    LET pairs == IF answer = NullAnswer THEN <<>> ELSE answer.list
        reads == ReadOutputs([n \in DOMAIN pairs |-> pairs[n][2]])
    IN  IF ~reads.ok THEN NotRead
        ELSE IF pairs = <<>> THEN ReadAs(NoUtxos)
        ELSE ReadAs(<<MapOf([n \in DOMAIN pairs |-> <<pairs[n][1], reads.v[n]>>])>>)

\* Of a witness set, the first of the keys' witnesses.
SignTx(witnesses) ==
    IF witnesses # <<>> /\ witnesses[1].vkey.len = 32 /\ witnesses[1].signature.len = 64
    THEN ReadAs(witnesses[1])
    ELSE NotRead

Submit(hash) == HashFrom(32, hash)

\* All that a wallet says.
Cip30(answers) ==
    [network_id     |-> NetworkIdFrom(answers.network),
     change_address |-> ChangeAddress(answers.change),
     utxos          |-> Utxos(answers.utxos),
     sign_tx        |-> SignTx(answers.witnesses),
     submit         |-> Submit(answers.hash)]
=============================================================================
