----------------------------- MODULE KonduitBatch -----------------------------
(***************************************************************************)
(* Several channel UTxOs in one transaction.  Every script input is spent  *)
(* with its own redeemer, and each runs by itself on the whole             *)
(* transaction:                                                            *)
(*                                                                         *)
(*   Main    walks all channel inputs, a step for each, and pairs those    *)
(*           that continue with the outputs in order (spend/main.ak);      *)
(*   Defer   leaves it to the first channel input (spend/defer.ak);        *)
(*   Mutual  has both parties' signatures (spend/mutual.ak).               *)
(*                                                                         *)
(* A channel input is a channel, or a Stray: a UTxO that somebody paid to  *)
(* the script's address with a datum that names another script.  Inputs    *)
(* come in the order of their references, which nobody chooses.            *)
(***************************************************************************)
EXTENDS KonduitKernel

CONSTANTS
    Channel,    \* channel UTxOs, followed from input to continuing output
    Layouts,    \* what the channels' datums and addresses have in common:
                \* records of the constants (tag) and the delegation (home) of each
    Offers,     \* the cheques signed under each tag
    MaxAmount,  \* bound on the lovelace of a channel
    MaxTime,    \* bound on the clock
    MaxGift,    \* bound on what the provider pays into a channel, net
    MaxInputs,  \* bound on the inputs of a transaction that are at the script's address
    Stray, None

ASSUME ChannelAssumption == IsFiniteSet(Channel) /\ Stray \notin Channel
ASSUME BoundsAssumption ==
    MaxAmount \in Nat /\ MaxTime \in Nat /\ MaxGift \in Nat /\ MaxInputs \in Nat
ASSUME LayoutsAssumption == \A l \in Layouts : l.tag \in [Channel -> DOMAIN Offers]

\* The consumer gives each cheque of a tag an index of its own, and the lock
\* of a secret.
IsOffer(c) ==
    /\ c.index \in Nat /\ c.amount \in Nat /\ c.timeout \in Nat
    /\ c = [index |-> c.index, amount |-> c.amount, timeout |-> c.timeout, latch |-> Sha2(c.latch[2])]
ASSUME OffersAssumption ==
    \A tag \in DOMAIN Offers :
        /\ IsFiniteSet(Offers[tag]) /\ \A c \in Offers[tag] : IsOffer(c)
        /\ \A c, d \in Offers[tag] : c.index = d.index => c = d

\* No key is called None.
ASSUME NoneAssumption == None # <<"sub_vkey">> /\ \A tag \in DOMAIN Offers : None # <<"add_vkey", tag>>

VARIABLES
    now,      \* the ledger's clock
    layout,   \* one of Layouts
    absent,   \* the key that signs nothing: a consumer's, the provider's or None
    utxo,     \* each channel's state
    revealed, \* the secrets the provider knows
    taken,    \* what it took out of each channel
    closedAt, \* when the Close was included
    pot       \* lovelace that the ledger holds for the channels

vars == <<now, layout, absent, utxo, revealed, taken, closedAt, pot>>

-----------------------------------------------------------------------------
Consumer(channel) == <<"add_vkey", layout.tag[channel]>>
Provider == <<"sub_vkey">>
Keys == {Consumer(c) : c \in Channel} \cup {Provider}
Signs(key) == key # absent

\* The bodies signed under the tag of a channel: its cheques, and squashes of
\* those whose secrets are known.
Cheques(channel) == Offers[layout.tag[channel]]
Unlocked(channel) == {c \in Cheques(channel) : c.latch[2] \in revealed}
Squashes(channel) == {SquashOf(S) : S \in SUBSET Unlocked(channel)}
Signed(channel) == Cheques(channel) \cup Squashes(channel)

InputOf(ref) ==
    IF ref = Stray THEN [own |-> FALSE]
    ELSE [own |-> TRUE, id |-> ref, tag |-> layout.tag[ref], home |-> layout.home[ref]]
OutputOf(ref, state) == [home |-> layout.home[ref], tag |-> layout.tag[ref], state |-> state]

-----------------------------------------------------------------------------
(* Main.  The walk carries the inputs and outputs left, the keys that must *)
(* sign, and what became of each channel.                                  *)

\* Mutant: an output may continue several channels.
OutputsKept(outputs, n) == outputs

OutputsAfter(outputs, n) == SubSeq(outputs, n + 1, Len(outputs))

\* yield_out skips outputs of another address and fails on another datum.
Continues(in, out) == out.home = in.home /\ out.tag = in.tag

SignerOf(channel, step) == IF ByConsumerKey(step) THEN Consumer(channel) ELSE Provider

MainWith(acc, step) ==
    LET in      == Head(acc.inputs)
        n       == SelectInSeq(acc.outputs, LAMBDA o : o.home = in.home)
        out     == acc.outputs[n]
        becomes == IF Ends(step) THEN [stage |-> "Spent", by |-> step.step] ELSE out.state
        holds   == /\ acc.ok /\ acc.inputs # <<>> /\ in.own
                   /\ Ends(step) \/ (n # 0 /\ Continues(in, out))
                   /\ StepHolds(Signed(in.id), now, now, utxo[in.id], becomes, step)
    IN  IF ~holds THEN [acc EXCEPT !.ok = FALSE]
        ELSE [ok      |-> TRUE,
              inputs  |-> Tail(acc.inputs),
              outputs |-> IF Ends(step) THEN acc.outputs ELSE OutputsAfter(acc.outputs, n),
              vkeys   |-> acc.vkeys \cup {SignerOf(in.id, step)},
              became  |-> acc.became \cup {[id |-> in.id, step |-> step.step, state |-> becomes]},
              paid    |-> IF Ends(step) THEN acc.paid ELSE acc.paid \cup {[left |-> Len(acc.outputs) - n, amount |-> out.state.amount]}]

Walk(inputs, outputs, steps) ==
    FoldLeft(MainWith,
             [ok |-> TRUE, inputs |-> inputs, outputs |-> outputs,
              vkeys |-> {}, became |-> {}, paid |-> {}],
             steps)

\* Mutant: channel inputs without a step are not looked for.
AnyLeft(inputs) == TRUE

NoneLeft(inputs) == inputs = <<>>

AllSign(vkeys) == \A key \in vkeys : Signs(key)

MainHolds(walk) == walk.ok /\ AllSign(walk.vkeys) /\ NoneLeft(walk.inputs)

-----------------------------------------------------------------------------
(* Defer, Mutual, and the redeemers of a transaction together.             *)

DeferHolds(inputs, n) == inputs[1].own /\ n # 1

MutualHolds(inputs, n) ==
    Signs(Consumer(inputs[n].id)) /\ Signs(Provider) /\ Len(inputs) = 1

\* A stray's datum names a script that no input is locked by: its own Main
\* has nothing to walk, and its Defer finds no input to defer to.
SidesHold(inputs, redeemers) ==
    \A n \in DOMAIN inputs :
        IF inputs[n].own
        THEN /\ redeemers[n] = "Defer" => DeferHolds(inputs, n)
             /\ redeemers[n] = "Mutual" => MutualHolds(inputs, n)
        ELSE redeemers[n] = "Main"

-----------------------------------------------------------------------------
(* The transactions of an instance: of each channel a step that holds for  *)
(* some output of it; of the steps and of the outputs any selection, the   *)
(* outputs also in the other order.                                        *)

AtMostOne(S) == {<<>>} \cup {<<x>> : x \in S}
Amounts == 0..MaxAmount
WithSecret(c) == [c EXCEPT !.latch = c.latch[2]]

OpenSteps(c) ==
    [step : {"Add", "Close"}] \cup
    [step : {"Sub"}, squash : Squashes(c), unlockeds : AtMostOne({WithSecret(d) : d \in Unlocked(c)})]
ClosedSteps(c) ==
    [step : {"Elapse"}] \cup
    [step : {"Respond"}, squash : Squashes(c),
     cheques : AtMostOne([body : Cheques(c), unlocked : {FALSE}]
                  \cup {[body |-> WithSecret(d), unlocked |-> TRUE] : d \in Unlocked(c)})]
RespondedSteps(c) ==
    [step : {"End"}] \cup
    [step : {"Unlock"}, unpends : [DOMAIN utxo[c].pends -> {Keep} \cup revealed]] \cup
    [step : {"Expire"}, unpends : [DOMAIN utxo[c].pends -> {Keep, Expired}]]

OpenOuts(c) ==
    [stage : {"Opened"}, amount : Amounts, subbed : Amounts,
     useds : AtMostOne({UsedOf(d) : d \in Unlocked(c)})] \cup
    [stage : {"Closed"}, amount : Amounts, subbed : {utxo[c].subbed}, useds : {utxo[c].useds},
     elapseAt : {now + ClosePeriod}]
RespondedOuts(c) ==
    {[stage |-> "Responded", amount |-> a, pendsAmount |-> ListTotal(pends), pends |-> pends] :
        a \in Amounts, pends \in AtMostOne({PendOf(d) : d \in Cheques(c)})}

\* The moves of a channel: a step and what it leaves.
Moves(c) ==
    LET open  == utxo[c].stage = "Opened"
        steps == IF open THEN OpenSteps(c)
                 ELSE IF utxo[c].stage = "Closed" THEN ClosedSteps(c) ELSE RespondedSteps(c)
        outs  == IF open THEN OpenOuts(c) ELSE RespondedOuts(c)
        holds == {move \in steps \X outs :
                     StepHolds(Signed(c), now, now, utxo[c], move[2], move[1])}
    IN  {[id |-> c, step |-> move[1], out |-> move[2]] : move \in {m \in holds : ~Ends(m[1])}}
        \cup {[id |-> c, step |-> move[1]] : move \in {m \in holds : Ends(m[1])}}

Live == {c \in Channel : utxo[c].stage # "Spent"}
Orders ==
    {refs \in UNION {[1..n -> Live \cup {Stray}] : n \in 1..MaxInputs} :
        IsInjective(refs) /\ Range(refs) # {Stray}}
RedeemersOf(refs) ==
    {redeemers \in [DOMAIN refs -> {"Main", "Defer", "Mutual"}] :
        Cardinality({n \in DOMAIN refs : refs[n] # Stray /\ redeemers[n] = "Main"}) <= 1}

\* Set of one: what each live channel may do, bound once for all transactions.
MovesOfEach == {[c \in Live |-> Moves(c)]}

\* The moves of the channels among refs, in order, with their steps and the
\* outputs of those that continue.
MovesOf(refs, each) ==
    LET channels == Where(refs, LAMBDA ref : ref # Stray)
    IN  {moves \in [DOMAIN channels -> UNION {each[c] : c \in Live}] :
            \A n \in DOMAIN channels : moves[n].id = channels[n]}
StepsOf(moves) == [n \in DOMAIN moves |-> moves[n].step]
OutputsOf(moves) ==
    LET going == Where(moves, LAMBDA move : ~Ends(move.step))
    IN  [n \in DOMAIN going |-> OutputOf(going[n].id, going[n].out)]
Parts(list) == {list, IF list = <<>> THEN list ELSE Front(list), SubSeq(list, 2, Len(list))}
Arranged(outputs) == Parts(outputs) \cup {Reverse(outputs)}

-----------------------------------------------------------------------------
\* Lovelace of some of the channels.
FundsOf(channels) == MapThenSumSet(LAMBDA c : Funds(utxo[c]), channels)

Init ==
    /\ now = 0 /\ layout \in Layouts /\ absent \in Keys \cup {None}
    /\ utxo \in [Channel -> [stage : {"Opened"}, amount : {MaxAmount}, subbed : {0}, useds : {<<>>}]]
    /\ revealed = {} /\ taken = [c \in Channel |-> 0] /\ closedAt = [c \in Channel |-> 0]
    /\ pot = FundsOf(Channel)

Tick ==
    /\ now < MaxTime /\ now' = now + 1
    /\ UNCHANGED <<layout, absent, utxo, revealed, taken, closedAt, pot>>

Reveal(secret) ==
    /\ \E c \in Channel : \E cheque \in Cheques(c) : cheque.latch = Sha2(secret)
    /\ revealed' = revealed \cup {secret}
    /\ UNCHANGED <<now, layout, absent, utxo, taken, closedAt, pot>>

\* The channels of refs are spent; became says what of, paid for by outputs.
Spends(channels, became, paid) ==
    LET Fate(c) == IF \E b \in became : b.id = c THEN CHOOSE b \in became : b.id = c
                   ELSE [step |-> "None", state |-> [stage |-> "Spent", by |-> "None"]]
    IN  /\ utxo' = [c \in Channel |-> IF c \in channels THEN Fate(c).state ELSE utxo[c]]
        /\ taken' = [c \in Channel |->
                        IF c \in channels /\ Fate(c).step \in {"Sub", "Respond", "Unlock"}
                        THEN taken[c] + utxo[c].amount - Fate(c).state.amount ELSE taken[c]]
        /\ \A c \in Channel : taken'[c] >= -MaxGift
        /\ closedAt' = [c \in Channel |->
                        IF c \in channels /\ Fate(c).step = "Close" THEN now ELSE closedAt[c]]
        /\ pot' = pot - FundsOf(channels) + Total(paid)
        /\ UNCHANGED <<now, layout, absent, revealed>>

\* Spent with no Main: by Mutual, or by redeemers that check nothing.
SpendAside(refs, redeemers) ==
    LET channels == Range(refs) \ {Stray}
        How(c) == IF \E n \in DOMAIN refs : refs[n] = c /\ redeemers[n] = "Mutual"
                  THEN "Mutual" ELSE "Defer"
    IN  /\ "Main" \notin {redeemers[n] : n \in {m \in DOMAIN refs : refs[m] # Stray}}
        /\ SidesHold([n \in DOMAIN refs |-> InputOf(refs[n])], redeemers)
        /\ Spends(channels,
                  {[id |-> c, step |-> How(c), state |-> [stage |-> "Spent", by |-> How(c)]] :
                      c \in channels}, {})

SpendMain(refs, redeemers, each) ==
    LET inputs == [n \in DOMAIN refs |-> InputOf(refs[n])]
    IN  /\ \E n \in DOMAIN refs : refs[n] # Stray /\ redeemers[n] = "Main"
        /\ SidesHold(inputs, redeemers)
        /\ \E moves \in MovesOf(refs, each) :
              \E steps \in Parts(StepsOf(moves)), outputs \in Arranged(OutputsOf(moves)) :
                 LET walk == Walk(inputs, outputs, steps)
                 IN  MainHolds(walk) /\ Spends(Range(refs) \ {Stray}, walk.became, walk.paid)

Next ==
    \/ Tick
    \/ \E c \in Channel : \E cheque \in Cheques(c) : Reveal(cheque.latch[2])
    \/ \E each \in MovesOfEach : \E refs \in Orders : \E redeemers \in RedeemersOf(refs) :
          SpendAside(refs, redeemers) \/ SpendMain(refs, redeemers, each)

Spec == Init /\ [][Next]_vars

-----------------------------------------------------------------------------
(* The builder: SteppedUtxos sorts what is stepped by input; its first     *)
(* redeemer is Main and the outputs follow in order.                       *)

\* Mutant: the last input has the steps.
MainIsLast(n, size) == n = size

MainIsFirst(n, size) == n = 1

BuiltHolds(refs, moves) ==
    LET inputs == [n \in DOMAIN refs |-> InputOf(refs[n])]
        walk   == Walk(inputs, OutputsOf(moves), StepsOf(moves))
    IN  /\ SidesHold(inputs, [n \in DOMAIN refs |->
                                IF MainIsFirst(n, Len(refs)) THEN "Main" ELSE "Defer"])
        /\ MainHolds(walk)
        /\ \A move \in Range(moves) : [id |-> move.id, step |-> move.step.step] \in
                                        {[id |-> b.id, step |-> b.step] : b \in walk.became}

-----------------------------------------------------------------------------
(* The ledger holds what the channels are worth together: no output counts
   as the continuation of two channels, also when they have one tag. *)
ChannelsAreBacked == pot = FundsOf(Channel)

(* What the builder makes of steps that hold, the redeemers accept, in every
   order the inputs may come in and wherever the outputs are to go. *)
BuiltBatchHolds ==
    absent = None =>
        \A each \in MovesOfEach : \A refs \in {r \in Orders : Stray \notin Range(r)} :
            \A moves \in MovesOf(refs, each) : BuiltHolds(refs, moves)

PromiseOf(c) == INSTANCE KonduitPromise WITH
    phase <- Phase(utxo[c]), funds <- Funds(utxo[c]), taken <- taken[c],
    earned <- Unlocked(c), since <- closedAt[c],
    held <- Held(utxo[c]), waits <- Waits(utxo[c]), Worth <- Total

(* Each channel of a transaction keeps its promise, whatever is done with
   the others beside it. *)
EachKeepsPromise ==
    /\ \A c \in Channel : PromiseOf(c)!Init
    /\ [][\A c \in Channel : PromiseOf(c)!Next \/ UNCHANGED PromiseOf(c)!vars]_vars
=============================================================================
