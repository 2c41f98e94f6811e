--------------------------- MODULE SdkTransaction ---------------------------
(***************************************************************************)
(* Transactions of cardano/sdk: the setters that a caller of               *)
(* Transaction::build uses, the rounds in which it balances what they      *)
(* made, and the witnesses added to what comes out.  The fee depends on    *)
(* the size, the size on the fee, and both on what the scripts cost: the   *)
(* builder makes the transaction anew until the fee it was made with is    *)
(* enough, three times at most.                                            *)
(*                                                                         *)
(*   output  [to, value, datum, size, script, deferred]: the bytes of its  *)
(*           datum and of its script, and whether its lovelace is the      *)
(*           minimum it needs, whatever that comes to be                   *)
(*   tx      the fields of the body; inputs is a sequence, and redeemers   *)
(*           maps positions in it to [bytes, data, units]                  *)
(*   result  [tx, error], error = "none" where a step succeeded            *)
(*                                                                         *)
(* A reference is the position of an output in a sequence of outputs       *)
(* (resolved), and references are ordered as numbers.  Sizes are those of  *)
(* the CBOR, field by field; units are what they cost in lovelace.         *)
(* Nothing is minted, and nothing carries a script or a datum as witness.  *)
(***************************************************************************)
EXTENDS SdkValue

\* uplc's evaluation, and the sizes of what is not looked into.
UnitsOfScript(outputs) == 20000 + 5000 * outputs
ReferenceBytes == 36
SignatoryBytes == 30
BodyBytes == 100

\* Credentials of scripts among the addresses there are.
ScriptAddresses == {"konduit"}

-----------------------------------------------------------------------------
(* Sizes and what they cost.                                               *)

\* A CBOR integer.
IntSize(n) == IF n < 24 THEN 1 ELSE IF n < 256 THEN 2 ELSE IF n < 65536 THEN 3 ELSE 5

AssetsIn(value) == {u \in Unit \ {Lovelace} : value[u] > 0}
ValueBytes(value) ==
    IntSize(value[Lovelace]) + MapThenSumSet(LAMBDA u : 40 + IntSize(value[u]), AssetsIn(value))
OutputBytes(out) == 36 + ValueBytes(out.value) + out.size + out.script

\* An integer below 65535 is counted as if it took five bytes.
Inflation(lovelace) ==
    IF lovelace < 24 THEN 4 ELSE IF lovelace < 256 THEN 3 ELSE IF lovelace < 65535 THEN 2 ELSE 0

MinAcceptable(out) == 4310 * (OutputBytes(out) + 160 + Inflation(out.value[Lovelace]))
IsFunded(out) == out.value[Lovelace] >= MinAcceptable(out)

BaseFee(size) == size * 44 + 155381
ReferencedFee(scriptBytes) == scriptBytes * 15
MinCollateral(fee) == (3 * fee + 1) \div 2

-----------------------------------------------------------------------------
(* Outputs.                                                                *)

OutputOf(to, value) ==
    [to |-> to, value |-> value, datum |-> <<>>, size |-> 0, script |-> 0, deferred |-> FALSE]

\* Nothing is done to a value that was given.
SetMinimum(out) ==
    IF out.deferred THEN [out EXCEPT !.value[Lovelace] = MinAcceptable(out)] ELSE out

OutputTo(to) == SetMinimum([OutputOf(to, Nothing) EXCEPT !.deferred = TRUE])
WithPlutusScript(out, bytes) == SetMinimum([out EXCEPT !.script = bytes])
WithDatum(out, datum, bytes) == SetMinimum([out EXCEPT !.datum = datum, !.size = bytes])

-----------------------------------------------------------------------------
(* What a caller sets.                                                     *)

NoSlot == -1
NoRedeemer == [bytes |-> 0, data |-> <<>>]
NoChange == "none"

\* A bound is <<>>, <<"Inclusive", slot>> or <<"Exclusive", slot>>: the ledger's
\* lower bound is inclusive, its upper one exclusive.
FromInclusive(bound) ==
    IF bound = <<>> THEN NoSlot ELSE IF bound[1] = "Inclusive" THEN bound[2] ELSE bound[2] + 1
UntilExclusive(bound) ==
    IF bound = <<>> THEN NoSlot ELSE IF bound[1] = "Inclusive" THEN bound[2] + 1 ELSE bound[2]

InConstruction ==
    [inputs |-> <<>>, redeemers |-> <<>>, collaterals |-> {}, references |-> {}, outputs |-> <<>>,
     signatories |-> {}, lower |-> NoSlot, upper |-> NoSlot, fee |-> 0, change |-> NoChange,
     total |-> 0, return |-> Nothing, integrity |-> <<>>, witnesses |-> <<>>]

\* A redeemer comes with no units; those there were for spending are dropped.
WithRedeemers(tx, redeemers) ==
    [tx EXCEPT !.redeemers = [n \in DOMAIN redeemers |-> redeemers[n] @@ [units |-> 0]]]

\* Mutant: a pointer counts the inputs that have a redeemer, not all of them.
PointersAmongScripts(sorted, inputs) ==
    {n \in DOMAIN sorted : n <= Cardinality({ref \in DOMAIN inputs : inputs[ref] # NoRedeemer})}

Pointers(sorted, inputs) == {n \in DOMAIN sorted : inputs[sorted[n]] # NoRedeemer}

\* inputs maps references to their redeemers: [bytes, data].
WithInputs(tx, inputs) ==
    LET sorted == SetToSortSeq(DOMAIN inputs, <)
    IN  WithRedeemers([tx EXCEPT !.inputs = sorted],
                      [n \in Pointers(sorted, inputs) |-> inputs[sorted[n]]])

WithCollaterals(tx, refs) == [tx EXCEPT !.collaterals = refs]
WithReferenceInputs(tx, refs) == [tx EXCEPT !.references = refs]
WithSpecifiedSignatories(tx, keys) == [tx EXCEPT !.signatories = keys]
WithOutputs(tx, outputs) == [tx EXCEPT !.outputs = outputs]
WithChangeStrategy(tx, to) == [tx EXCEPT !.change = to]
WithValidityInterval(tx, from, until) ==
    [tx EXCEPT !.lower = FromInclusive(from), !.upper = UntilExclusive(until)]
WithFee(tx, fee) == [tx EXCEPT !.fee = fee]

-----------------------------------------------------------------------------
(* What a transaction says of itself.                                      *)

Spends(tx) == Range(tx.inputs)

RequiredScripts(resolved, tx) ==
    {n \in DOMAIN tx.inputs : resolved[tx.inputs[n]].to \in ScriptAddresses}

\* The keys that a transaction needs: specified, and of what it spends or pledges.
Signatories(resolved, tx) ==
    tx.signatories \cup ({resolved[ref].to : ref \in Spends(tx) \cup tx.collaterals} \ ScriptAddresses)

ValueAt(resolved, refs) ==
    [u \in Unit |-> MapThenSumSet(LAMBDA ref : resolved[ref].value[u], refs)]
Produced(outputs) == Sum([n \in DOMAIN outputs |-> outputs[n].value])

\* Its redeemers with their units: datums there are none, the cost model is fixed.
ScriptIntegrityHash(tx) == tx.redeemers

\* Units that are not known yet are declared as zero.
RedeemerBytes(redeemer) == 8 + redeemer.bytes + (IF redeemer.units = 0 THEN 2 ELSE 10)

TxBytes(tx) ==
    BodyBytes
    + ReferenceBytes * (Len(tx.inputs) + Cardinality(tx.collaterals) + Cardinality(tx.references))
    + MapThenSumSet(LAMBDA n : OutputBytes(tx.outputs[n]), DOMAIN tx.outputs)
    + IntSize(tx.fee) + SignatoryBytes * Cardinality(tx.signatories)
    + (IF tx.collaterals = {} THEN 0 ELSE IntSize(tx.total) + 36 + ValueBytes(tx.return))
    + (IF tx.integrity = <<>> THEN 0 ELSE 36)
    + MapThenSumSet(LAMBDA n : RedeemerBytes(tx.redeemers[n]), DOMAIN tx.redeemers)

WitnessBytes(count) == 14 + 101 * count

\* Scripts of inputs and of reference inputs, each as often as it occurs.
ScriptBytes(resolved, tx) ==
    MapThenSumSet(LAMBDA ref : resolved[ref].script, Spends(tx) \cup tx.references)

EvaluatedUnits(required, tx) == [n \in required |-> UnitsOfScript(Len(tx.outputs))]
ExecutionCost(units) == MapThenSumSet(LAMBDA n : units[n], DOMAIN units)

EstimatedFee(resolved, tx, units) ==
    BaseFee(TxBytes(tx) + WitnessBytes(Cardinality(Signatories(resolved, tx))))
    + ReferencedFee(ScriptBytes(resolved, tx)) + ExecutionCost(units)

-----------------------------------------------------------------------------
(* The steps of a round.                                                   *)

Done(tx) == [tx |-> tx, error |-> "none"]
Failed(tx, error) == [tx |-> tx, error |-> error]
Unless(condition, tx, error) == IF condition THEN Failed(tx, error) ELSE Done(tx)

\* The minimum is that of an output to the default address, the longest there is.
WithChangeOutput(tx, change) ==
    LET least == MinAcceptable([OutputOf("default", change) EXCEPT !.size = 28])
    IN  IF change[Lovelace] < least THEN Failed(tx, "change")
        ELSE IF tx.change = NoChange THEN Failed(tx, "no strategy")
        ELSE Done(WithOutputs(tx, Append(tx.outputs, OutputOf(tx.change, change))))

WithChange(resolved, tx) ==
    LET change == Minus(ValueAt(resolved, Spends(tx)), Plus(Produced(tx.outputs), Coin(tx.fee)))
    IN  IF ~Covers(change, Nothing) THEN Failed(tx, "balance")
        ELSE IF change = Nothing THEN Done(tx)
        ELSE WithChangeOutput(tx, change)

\* The return is not held to the minimum of an output.
WithCollateralReturn(resolved, tx) ==
    LET total == MinCollateral(tx.fee)
        left  == Minus(ValueAt(resolved, tx.collaterals), Coin(total))
    IN  IF tx.collaterals = {} THEN Done(tx)
        ELSE Unless(left[Lovelace] < 0, [tx EXCEPT !.total = total, !.return = left], "pledge")

\* units: what the last round's evaluation found.
WithExecutionUnits(tx, units) ==
    Unless(~(DOMAIN units \subseteq DOMAIN tx.redeemers),
           [tx EXCEPT !.redeemers = [n \in DOMAIN tx.redeemers |->
                IF n \in DOMAIN units THEN [tx.redeemers[n] EXCEPT !.units = units[n]]
                ELSE tx.redeemers[n]]],
           "extraneous")

WithScriptIntegrityHash(required, tx) ==
    Unless(ScriptIntegrityHash(tx) = <<>> /\ required # {},
           [tx EXCEPT !.integrity = ScriptIntegrityHash(tx)], "no redeemers")

FailOnMissingCollateral(required, tx) ==
    Unless(required # {} /\ tx.collaterals = {}, tx, "no pledge")

FailOnInsufficientlyFunded(tx) ==
    Unless(\E n \in DOMAIN tx.outputs : ~IsFunded(tx.outputs[n]), tx, "funds")

-----------------------------------------------------------------------------
(* The rounds: a fee of zero, then the estimates.                          *)

StepsOfRound == <<"change", "collateral", "units", "hash", "secured", "funded">>

RoundStep(step, resolved, required, units, tx) ==
    CASE step = "change"     -> WithChange(resolved, tx)
      [] step = "collateral" -> WithCollateralReturn(resolved, tx)
      [] step = "units"      -> WithExecutionUnits(tx, units)
      [] step = "hash"       -> WithScriptIntegrityHash(required, tx)
      [] step = "secured"    -> FailOnMissingCollateral(required, tx)
      [] step = "funded"     -> FailOnInsufficientlyFunded(tx)

Round(resolved, required, parts, fee, units) ==
    FoldLeft(LAMBDA acc, step : IF acc.error # "none" THEN acc
                                ELSE RoundStep(step, resolved, required, units, acc.tx),
             Done(WithFee(parts, fee)), StepsOfRound)

MaxRounds == 3

\* Mutant: the second round's is taken for the fixed point.
EnoughOrRepeated(fee, estimate) == fee >= estimate \/ fee > 0

IsEnough(fee, estimate) == fee >= estimate

\* fails: the evaluation of a script fails, and is seen to.
Judged(resolved, required, fails, acc, round) ==
    LET units    == EvaluatedUnits(required, round.tx)
        estimate == EstimatedFee(resolved, round.tx, units)
    IN  IF round.error # "none" THEN [acc EXCEPT !.ended = TRUE, !.error = round.error]
        ELSE IF fails THEN [acc EXCEPT !.ended = TRUE, !.error = "scripts"]
        ELSE IF IsEnough(acc.fee, estimate)
        THEN [acc EXCEPT !.ended = TRUE, !.error = "none", !.tx = round.tx]
        ELSE [acc EXCEPT !.fee = estimate, !.units = units]

Build(resolved, parts, fails) ==
    LET required == RequiredScripts(resolved, parts)
        Attempt(acc, n) == IF acc.ended THEN acc
                           ELSE Judged(resolved, required, fails, acc,
                                       Round(resolved, required, parts, acc.fee, acc.units))
    IN  FoldLeft(Attempt, [ended |-> FALSE, error |-> "rounds", fee |-> 0, units |-> <<>>, tx |-> parts],
                 [n \in 1..MaxRounds |-> n])

-----------------------------------------------------------------------------
(* Signing: a witness signs the id, which is the hash of the body.         *)

BodyId(tx) == [tx EXCEPT !.witnesses = <<>>, !.redeemers = <<>>]

\* Mutant: a key that signs again has two witnesses.
AddWitnessAgain(tx, witness) == [tx EXCEPT !.witnesses = Append(@, witness)]

AddWitness(tx, witness) ==
    [tx EXCEPT !.witnesses =
        Append(SelectSeq(@, LAMBDA existing : existing.key # witness.key), witness)]

Sign(tx, key) == AddWitness(tx, [key |-> key, signs |-> BodyId(tx)])

-----------------------------------------------------------------------------
(* What the ledger asks of a transaction beside its scripts.  The rules    *)
(* are Cardano's own, external to the repository.                          *)

MaxPledges == 3

InTime(now, tx) == (tx.lower = NoSlot \/ tx.lower <= now) /\ (tx.upper = NoSlot \/ now < tx.upper)

LedgerTakes(resolved, unspent, now, tx) ==
    /\ tx.inputs # <<>> /\ Spends(tx) \cup tx.collaterals \cup tx.references \subseteq unspent
    /\ InTime(now, tx)
    /\ \A n \in DOMAIN tx.witnesses : tx.witnesses[n].signs = BodyId(tx)
    /\ Signatories(resolved, tx) \subseteq {tx.witnesses[n].key : n \in DOMAIN tx.witnesses}
    /\ ValueAt(resolved, Spends(tx)) = Plus(Produced(tx.outputs), Coin(tx.fee))
    /\ tx.fee >= BaseFee(TxBytes(tx) + 5 + 101 * Len(tx.witnesses))
                 + ReferencedFee(ScriptBytes(resolved, tx))
                 + MapThenSumSet(LAMBDA n : tx.redeemers[n].units, DOMAIN tx.redeemers)
    /\ \A n \in DOMAIN tx.outputs : IsFunded(tx.outputs[n])
    /\ DOMAIN tx.redeemers = RequiredScripts(resolved, tx)
    /\ tx.integrity = ScriptIntegrityHash(tx)
    /\ tx.redeemers # <<>> =>
          /\ tx.collaterals # {} /\ Cardinality(tx.collaterals) <= MaxPledges
          /\ 2 * tx.total >= 3 * tx.fee
          /\ Plus(tx.return, Coin(tx.total)) = ValueAt(resolved, tx.collaterals)
          /\ IsFunded(OutputOf("return", tx.return))
          /\ \A n \in DOMAIN tx.redeemers : tx.redeemers[n].units >= UnitsOfScript(Len(tx.outputs))
=============================================================================
