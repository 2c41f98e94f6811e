---------------------------- MODULE KonduitStaged ----------------------------
(***************************************************************************)
(* The second transaction builder (packages/konduit/tx2) in the session    *)
(* that uses it (konduit/session and prompt, cardano/session and wallet):  *)
(* a run of the prompt takes the UTxOs it remembers, or fetches them,      *)
(* fixes an interval of time, is told what is wanted of which channels,    *)
(* builds one transaction for all of it, signs with the keys it has and    *)
(* submits.  Meanwhile the clock moves, and the other parties move the     *)
(* channels.                                                               *)
(*                                                                         *)
(* made holds every output there ever was, a reference is the position of  *)
(* one, and of two the earlier comes first in a transaction.  A channel's  *)
(* output has its stage as datum, with the channel's name.                 *)
(***************************************************************************)
EXTENDS KonduitWants, SdkTransaction

CONSTANTS
    Channel,     \* names of channels
    Terms,       \* of each its keys: [add, sub]
    Offers,      \* the cheques signed under each
    Receipts,    \* what their providers hold of each, sooner and later
    Filed,       \* the channels whose receipts the prompt is given
    WalletKey,   \* the wallet's key, and its address
    Keyring,     \* the keys that the prompt can sign with beside it
    Chains,      \* outputs there may be at first, as a sequence
    Window,      \* length of the interval of a transaction
    Targets,     \* values that the wallet is asked for
    AddAmount,   \* lovelace added to a channel, and put into a new one
    MaxTime,     \* bound on the clock
    MaxMade      \* bound on the outputs that are made

VARIABLES
    now,      \* the ledger's clock
    made,     \* the outputs made so far
    unspent,  \* the references of those not spent
    cache,    \* the references remembered between runs: [wallet, konduit]
    run,      \* the run of the prompt: its phase and what it has so far
    due       \* what the reviewed transactions leave to the wallet

vars == <<now, made, unspent, cache, run, due>>

-----------------------------------------------------------------------------
(* Outputs.                                                                *)

\* Bytes of a channel's datum: its constants, and the lists of its stage.
DatumBytes(state) ==
    150 + (IF state.stage = "Responded" THEN 49 * Len(state.pends) ELSE 8 * Len(state.useds))

ChannelOutput(name, channel) ==
    WithDatum(OutputOf("konduit", Coin(BufferedAmount(channel))),
              [name |-> name, state |-> Buffered(channel)], DatumBytes(channel))
WalletOutput(value) == OutputOf(WalletKey, value)
ScriptOutput == WithPlutusScript(OutputTo(WalletKey), 9000)

At(address, refs) == {ref \in refs : made[ref].to = address}
NameOf(ref) == made[ref].datum.name
StateOf(ref) == made[ref].datum.state
ChannelAt(ref) == FromOutput(made[ref], made[ref].value[Lovelace])

\* What does not parse as a channel is left aside.
Channels(refs) == {ref \in refs : IsChannel(made[ref])}

-----------------------------------------------------------------------------
(* What may come of a channel: of anything on its menu.                    *)

Wills(ref, interval, known) ==
    {Resolve(ChannelAt(ref), WantOf(kind, receipt, AddAmount), interval) :
        receipt \in Receipts[NameOf(ref)], kind \in Offered(ChannelAt(ref), NameOf(ref) \in known)}
    \ {NoStepping}

SignerOf(name, will) == Signer(Terms[name], will)

-----------------------------------------------------------------------------
(* The script on the transaction: Main, the redeemer of the first channel, *)
(* pairs the channels that go on with the outputs at its address in order. *)

SignedOf(name) ==
    Offers[name] \cup {SquashOf(S) : S \in SUBSET Offers[name]}

InOrder(refs) == SetToSortSeq(refs, <)

\* Mutant: a new channel comes before those that go on.
OpensFirst(conts, opens) == opens \o conts

ContsFirst(conts, opens) == conts \o opens

ScriptsHold(tx) ==
    LET places  == InOrder(RequiredScripts(made, tx))
        refs    == [n \in DOMAIN places |-> tx.inputs[places[n]]]
        Data(n) == tx.redeemers[places[n]].data
        steps   == Data(1)[2]
        outputs == SelectSeq(tx.outputs, LAMBDA out : out.to = "konduit")
        Goes(n) == Cardinality({m \in 1..n : ~Ends(steps[m])})
        Holds(n, out) == StepHolds(SignedOf(NameOf(refs[n])), tx.lower, tx.upper,
                                   StateOf(refs[n]), out, steps[n])
    IN  refs # <<>> =>
        /\ Range(places) \subseteq DOMAIN tx.redeemers
        /\ Data(1)[1] = "Main" /\ Len(steps) = Len(refs)
        /\ \A n \in 2..Len(refs) : Data(n)[1] = "Defer"
        /\ \A n \in DOMAIN refs :
              /\ SignerOf(NameOf(refs[n]), steps[n]) \in tx.signatories
              /\ IF Ends(steps[n]) THEN Holds(n, StateOf(refs[n]))
                 ELSE /\ Goes(n) <= Len(outputs) /\ outputs[Goes(n)].datum.name = NameOf(refs[n])
                      /\ Holds(n, outputs[Goes(n)].datum.state)

-----------------------------------------------------------------------------
(* StagedTx: wills maps references to steppings, opens is a set of names.  *)

\* Mutant: as if nothing but the fee were needed.
FeeBufferSmall == 400000

FeeBuffer == 4000000

Fuel(tip) == {ref \in tip.wallet : made[ref].script = 0}
Scripted(tip) == tip.wallet \ Fuel(tip)
\* The first that there is.
Reference(tip) == {ref \in Scripted(tip) : ref = Min(Scripted(tip))}

GoesOn(wills) == SelectSeq(InOrder(DOMAIN wills), LAMBDA ref : ~Ends(wills[ref]))
Outputs(wills, opens) ==
    LET conts == GoesOn(wills)
        names == SetToSeq(opens)
    IN  ContsFirst([n \in DOMAIN conts |-> ChannelOutput(NameOf(conts[n]), wills[conts[n]].out)],
                   [n \in DOMAIN names |-> ChannelOutput(names[n], NewOpen(AddAmount))])

\* Mutant: a channel that ends gives nothing.
GainOfConts(wills) ==
    MapThenSumSet(LAMBDA ref : IF Ends(wills[ref]) THEN 0 ELSE GainBy(ChannelAt(ref), wills[ref]),
                  DOMAIN wills)

Gain(wills) == MapThenSumSet(LAMBDA ref : GainBy(ChannelAt(ref), wills[ref]), DOMAIN wills)

Signers(wills) == {SignerOf(NameOf(ref), wills[ref]) : ref \in DOMAIN wills}

\* Bytes of the redeemers: the first has the steps and their evidence.
StepBytes(step) ==
    CASE step.step = "Sub"     -> 90 + 150 * Len(step.unlockeds)
      [] step.step = "Respond" -> 90 + 150 * Len(step.cheques)
      [] step.step \in {"Unlock", "Expire"} -> 4 + 34 * Len(step.unpends)
      [] OTHER -> 4
Redeemers(wills) ==
    LET refs == InOrder(DOMAIN wills)
    IN  [ref \in DOMAIN wills |->
            IF ref = refs[1]
            THEN [bytes |-> MapThenSumSet(LAMBDA r : StepBytes(wills[r]), DOMAIN wills),
                  data  |-> <<"Main", [n \in DOMAIN refs |-> wills[refs[n]]]>>]
            ELSE [bytes |-> 3, data |-> <<"Defer">>]]

\* What is produced beyond what is spent, and something for the fee.
Target(wills, outputs) ==
    Plus(Shortfall(Produced(outputs), ValueAt(made, DOMAIN wills)), Coin(FeeBuffer))

StagedParts(wills, opens, interval, tip, fuel) ==
    LET redeemers == Redeemers(wills)
        inputs    == redeemers @@ [ref \in fuel |-> NoRedeemer]
        given     == WithOutputs(WithReferenceInputs(WithCollaterals(
                        WithInputs(InConstruction, inputs), fuel), Reference(tip)),
                        Outputs(wills, opens))
        bounded   == WithValidityInterval(WithSpecifiedSignatories(given, Signers(wills)),
                        <<"Inclusive", interval.lower>>, <<"Exclusive", interval.upper>>)
    IN  WithChangeStrategy(bounded, WalletKey)

\* Whether a failing script is noticed is up to the evaluation (builder.rs:447).
Staged(wills, opens, interval, tip, noticed) ==
    LET fuels    == InOrder(Fuel(tip))
        selected == Select(Target(wills, Outputs(wills, opens)),
                           [n \in DOMAIN fuels |-> made[fuels[n]].value])
        parts    == StagedParts(wills, opens, interval, tip,
                                {fuels[n] : n \in Range(selected.chosen)})
        built    == Build(made, parts, noticed)
    IN  IF DOMAIN wills # {} /\ Reference(tip) = {} THEN [error |-> "reference", tx |-> <<>>]
        ELSE IF ~selected.ok THEN [error |-> "fuel", tx |-> <<>>]
        ELSE [error |-> built.error, tx |-> built.tx]

-----------------------------------------------------------------------------
(* The wallet's own transactions (cardano/wallet's txs.rs): all its fuel   *)
(* for the reference script, or all its reference scripts back.            *)

WalletParts(refs, outputs) ==
    WithChangeStrategy(WithOutputs(WithInputs(InConstruction, [ref \in refs |-> NoRedeemer]), outputs),
                       WalletKey)

Uploaded(tip) == Build(made, WalletParts(Fuel(tip), <<ScriptOutput>>), FALSE)
TornDown(tip) == Build(made, WalletParts(Scripted(tip), <<>>), FALSE)

-----------------------------------------------------------------------------
(* A run of the prompt.                                                    *)

Idle == [phase |-> "idle"]
Lower == Monus(now, 1)
IntervalNow == [lower |-> Lower, upper |-> Lower + Window]

\* The script's address is tracked from the first run on.
StagedWith(tip) ==
    [phase |-> "staged", tip |-> [tip EXCEPT !.tracked = TRUE], interval |-> IntervalNow]

Init ==
    /\ now = 1 /\ made \in Chains /\ unspent = DOMAIN made
    /\ cache = [wallet |-> {}, konduit |-> {}, tracked |-> FALSE]
    /\ run = Idle
    /\ due = ValueAt(made, At(WalletKey, unspent))

Tick ==
    /\ now < MaxTime /\ now' = now + 1
    /\ UNCHANGED <<made, unspent, cache, run, due>>

\* Another party moves a channel, by the same builder in a transaction of its own.
Foreign(ref, will) ==
    /\ SignerOf(NameOf(ref), will) \notin Keyring
    /\ StepHolds(SignedOf(NameOf(ref)), Lower, IntervalNow.upper, StateOf(ref),
                 IF Ends(will) THEN StateOf(ref) ELSE Buffered(will.out), will)
    /\ made' = IF Ends(will) THEN made ELSE Append(made, ChannelOutput(NameOf(ref), will.out))
    /\ unspent' = (unspent \ {ref}) \cup (Len(made) + 1)..Len(made')
    /\ UNCHANGED <<now, cache, run, due>>

Start ==
    /\ run = Idle
    /\ run' = StagedWith(cache)
    /\ UNCHANGED <<now, made, unspent, cache, due>>

\* With --refresh: the wallet's address is fetched first, then the others.
StartFetching ==
    /\ run = Idle
    /\ run' = [phase |-> "fetching", tip |-> [cache EXCEPT !.wallet = At(WalletKey, unspent)]]
    /\ UNCHANGED <<now, made, unspent, cache, due>>

FetchOthers ==
    /\ run.phase = "fetching"
    /\ run' = StagedWith([run.tip EXCEPT !.konduit = IF run.tip.tracked THEN At("konduit", unspent) ELSE @])
    /\ UNCHANGED <<now, made, unspent, cache, due>>

\* A run that only looks ends well: its tip is remembered.
Look ==
    /\ run.phase = "staged" /\ cache' = run.tip /\ run' = Idle
    /\ UNCHANGED <<now, made, unspent, due>>

Composed(built, wills, left) ==
    run' = IF built.error = "none"
           THEN [phase |-> "built", tip |-> run.tip, tx |-> built.tx, wills |-> wills, left |-> left]
           ELSE [phase |-> "failed", error |-> built.error, wills |-> wills]

\* What is left to the wallet by the review: the gain, and the buffers.
Left(wills, opens) ==
    Gain(wills) + MinAdaBuffer * (Cardinality({ref \in DOMAIN wills : Ends(wills[ref])})
                                  - Cardinality(opens))
                - AddAmount * Cardinality(opens)

Compose(wills, opens, noticed) ==
    /\ run.phase = "staged" /\ (DOMAIN wills \cup opens) # {}
    /\ noticed => ~ScriptsHold(StagedParts(wills, opens, run.interval, run.tip, {}))
    /\ LET staged == Staged(wills, opens, run.interval, run.tip, noticed)
       IN  Composed(staged, wills, Left(wills, opens))
    /\ UNCHANGED <<now, made, unspent, cache, due>>

ComposeUpload ==
    /\ run.phase = "staged" /\ Composed(Uploaded(run.tip), <<>>, 0)
    /\ UNCHANGED <<now, made, unspent, cache, due>>

ComposeTeardown ==
    /\ run.phase = "staged" /\ Scripted(run.tip) # {} /\ Composed(TornDown(run.tip), <<>>, 0)
    /\ UNCHANGED <<now, made, unspent, cache, due>>

\* Keyring::sign_tx for the steps, then the wallet.
HasKeys(tx) == tx.signatories \subseteq Keyring
Signed(tx) == Sign(FoldLeft(Sign, tx, SetToSeq(tx.signatories)), WalletKey)

\* The ledger takes what was built, and the tip is remembered as it was.
Submit ==
    /\ run.phase = "built" /\ HasKeys(run.tx)
    /\ LedgerTakes(made, unspent, now, Signed(run.tx)) /\ ScriptsHold(run.tx)
    /\ made' = made \o run.tx.outputs
    /\ unspent' = (unspent \ Spends(run.tx)) \cup (Len(made) + 1)..Len(made')
    /\ cache' = run.tip
    /\ due' = Plus(due, Coin(run.left - run.tx.fee))
    /\ run' = Idle
    /\ UNCHANGED now

\* Whatever else ends a run: a fetch or a build that failed, a prompt that
\* was left, a key the ring has not, a transaction refused.
Abort ==
    /\ run # Idle /\ run' = Idle
    /\ UNCHANGED <<now, made, unspent, cache, due>>

\* Of each channel that the run knows a will, or none.  A step whose key the
\* ring has not comes to nothing: sign_tx ends the run.
Intents(tip) ==
    FoldLeft(LAMBDA all, ref : all \cup {wills @@ (ref :> will) :
                 wills \in all,
                 will \in {x \in Wills(ref, run.interval, Filed) : SignerOf(NameOf(ref), x) \in Keyring}},
             {<<>>}, InOrder(Channels(tip.konduit)))

MayMake == Len(made) < MaxMade

Next ==
    \/ Tick
    \/ MayMake /\ \E ref \in Channels(At("konduit", unspent)) : \E will \in Wills(ref, IntervalNow, Channel) : Foreign(ref, will)
    \/ MayMake /\ (Start \/ StartFetching)
    \/ FetchOthers \/ Look
    \/ run.phase = "staged" /\ \E wills \in Intents(run.tip), noticed \in BOOLEAN :
          \E opens \in SUBSET (Channel \ {NameOf(ref) : ref \in Channels(At("konduit", DOMAIN made))}) :
             Compose(wills, opens, noticed)
    \/ ComposeUpload \/ ComposeTeardown \/ Submit \/ Abort

Spec == Init /\ [][Next]_vars

-----------------------------------------------------------------------------
(* The wallet has what the reviews of its transactions said, less the fees:
   the gain shown before a build is what the channels give and take. *)
WalletKeepsBooks == ValueAt(made, At(WalletKey, unspent)) = due

\* A step that the script is known to refuse: an Unlock that reveals, and a
\* Respond with a used that is squashed, or follows its cheques.
Refused(ref, will) ==
    CASE will.step = "Unlock"  -> \E unpend \in Range(will.unpends) : unpend # Keep
      [] will.step = "Respond" ->
            \E used \in Range(ChannelAt(ref).useds) :
               \/ IsIndexSquashed(will.squash, used.index)
               \/ \A cheque \in Range(will.cheques) : cheque.body.index < used.index
      [] OTHER -> FALSE
AllMayPass(wills) == \A ref \in DOMAIN wills : ~Refused(ref, wills[ref])

(* What is built is taken, while it is in time and nobody has spent an input,
   if the ring has the keys: it is balanced, signed by all and pays for its
   size and its scripts.  A wallet of many small UTxOs pledges too many. *)
BuiltIsTaken ==
    run.phase = "built"
        /\ Spends(run.tx) \cup run.tx.references \subseteq unspent
        /\ HasKeys(run.tx) /\ InTime(now, run.tx)
        /\ AllMayPass(run.wills)
        /\ (run.wills = <<>> \/ Cardinality(run.tx.collaterals) <= MaxPledges)
        => LedgerTakes(made, unspent, now, Signed(run.tx)) /\ ScriptsHold(run.tx)

(* A build fails for want of fuel or of the script, on a step that the script
   refuses, or where the buffer does not carry the datum of the pendings; never
   because change, collateral or fee do not come out. *)
FailsForCause ==
    run.phase = "failed" =>
        CASE run.error = "scripts" -> ~AllMayPass(run.wills)
          [] run.error = "funds"   -> \E ref \in DOMAIN run.wills :
                                         run.wills[ref].step = "Respond" /\ Len(run.wills[ref].out.pends) > 2
          [] OTHER -> run.error \in {"fuel", "reference"} \/ run.wills = <<>>

(* A selection is found where the wallet's UTxOs together suffice and only
   there; it takes none twice and none that helps with nothing. *)
CoversWhenItCan ==
    run.phase = "staged" =>
        LET fuels == InOrder(Fuel(run.tip))
        IN  \A target \in Targets :
               FindsSelection(target, [n \in DOMAIN fuels |-> made[fuels[n]].value])
=============================================================================
