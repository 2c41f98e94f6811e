------------------------ MODULE KonduitBatch_proofs ------------------------
(***************************************************************************)
(* Proofs about transactions over several channels: the walk of Main over  *)
(* all inputs, what is left for the channels together, and the promise of  *)
(* each of them.                                                           *)
(***************************************************************************)
EXTENDS KonduitBatch, KonduitKernel_proofs

-----------------------------------------------------------------------------
(* What is known of each channel, and of what moves it.                    *)

Pend == {PendOf(c) : c \in UNION {Offers[tag] : tag \in DOMAIN Offers}}
Used == [index : Nat, amount : Nat]
Opened == [stage : {"Opened"}, amount : Nat, subbed : Nat, useds : Seq(Used)]
Closed == [stage : {"Closed"}, amount : Nat, subbed : Nat, useds : Seq(Used), elapseAt : Nat]
Responded == [stage : {"Responded"}, amount : Nat, pendsAmount : Nat, pends : Seq(Pend)]
Spent == [stage : {"Spent"}, by : {"Elapse", "End", "Mutual", "Defer", "None"}]
Continuing == Opened \cup Closed \cup Responded
States == Continuing \cup Spent

\* The inductive invariant.  The useds of a datum were earned under the
\* channel's own tag, the datum records what was taken, and a closed channel
\* has its window.
ChannelHolds(c) ==
    /\ utxo[c].stage \in {"Opened", "Closed"} =>
          utxo[c].useds \in Seq(UsedsOf(Unlocked(c))) /\ utxo[c].subbed = taken[c]
    /\ utxo[c].stage = "Closed" => utxo[c].elapseAt >= closedAt[c] + ClosePeriod
Typed ==
    /\ now \in Nat /\ layout \in Layouts /\ pot \in Int
    /\ utxo \in [Channel -> States] /\ taken \in [Channel -> Int] /\ closedAt \in [Channel -> Nat]
ChannelsHold == Typed /\ \A c \in Channel : ChannelHolds(c)

StepNames == {"Add", "Sub", "Close", "Respond", "Unlock", "Expire", "Elapse", "End"}
Known == UNION {Unlocked(c) : c \in Channel}
Shown == {WithSecret(c) : c \in Known}
IsStep(step) ==
    /\ step.step \in StepNames
    /\ step.step = "Sub" =>
          /\ \E c \in Channel : step.squash \in Squashes(c)
          /\ step.unlockeds \in Seq(Shown)
    /\ step.step = "Unlock" => step.unpends \in Seq({Keep} \cup revealed)
    /\ step.step = "Expire" => step.unpends \in Seq({Keep, Expired})
IsMove(move) ==
    /\ move.id \in Channel /\ IsStep(move.step)
    /\ ~Ends(move.step) => move.out \in Continuing

LEMMA PendingsHaveAmounts == HaveAmounts(Pend)
<1>1. ASSUME NEW tag \in DOMAIN Offers, NEW c \in Offers[tag] PROVE PendOf(c).amount \in Nat
  BY OffersAssumption DEF IsOffer, PendOf
<1>. QED
  BY <1>1 DEF HaveAmounts, Pend

\* The cheques signed under the tag of a channel.
LEMMA ChequesAre ==
    ASSUME Typed, NEW c \in Channel
    PROVE  /\ layout.tag[c] \in DOMAIN Offers
           /\ \A d \in Cheques(c) : IsOffer(d) /\ PendOf(d) \in Pend /\ UsedOf(d) \in Used
           /\ Distinct(Cheques(c)) /\ Distinct(Unlocked(c))
<1>1. layout.tag[c] \in DOMAIN Offers
  BY LayoutsAssumption DEF Typed
<1>2. \A d \in Cheques(c) : IsOffer(d)
  BY <1>1, OffersAssumption DEF Cheques
<1>3. \A d \in Cheques(c) : PendOf(d) \in Pend
  BY <1>1 DEF Cheques, Pend
<1>4. \A d \in Cheques(c) : UsedOf(d) \in Used
  BY <1>2 DEF IsOffer, UsedOf, Used
<1>5. Distinct(Cheques(c))
  BY <1>1, <1>2, OffersAssumption DEF Cheques, Distinct, IsOffer
<1>6. Distinct(Unlocked(c))
  BY <1>5, FS_Subset DEF Distinct, Unlocked
<1>. QED
  BY <1>1, <1>2, <1>3, <1>4, <1>5, <1>6

-----------------------------------------------------------------------------
(* The moves that a transaction puts together.                             *)

LEMMA AtMostOneIsList == ASSUME NEW S, NEW list \in AtMostOne(S) PROVE list \in Seq(S)
<1>1. CASE list = <<>>
  BY <1>1
<1>2. CASE \E x \in S : list = <<x>>
  BY <1>2
<1>. QED
  BY <1>1, <1>2 DEF AtMostOne

LEMMA OpenStepsAre == ASSUME NEW c \in Channel, NEW step \in OpenSteps(c) PROVE IsStep(step)
<1>1. CASE step \in [step : {"Add", "Close"}]
  BY <1>1 DEF IsStep, StepNames
<1>2. CASE step \in [step : {"Sub"}, squash : Squashes(c),
                     unlockeds : AtMostOne({WithSecret(d) : d \in Unlocked(c)})]
  <2>1. {WithSecret(d) : d \in Unlocked(c)} \subseteq Shown
    BY DEF Shown, Known
  <2>2. step.step = "Sub" /\ step.squash \in Squashes(c)
        /\ step.unlockeds \in Seq({WithSecret(d) : d \in Unlocked(c)})
    BY <1>2, AtMostOneIsList
  <2>3. step.unlockeds \in Seq(Shown)
    BY <2>1, <2>2
  <2>. QED
    BY <2>2, <2>3 DEF IsStep, StepNames
<1>. QED
  BY <1>1, <1>2 DEF OpenSteps

LEMMA ClosedStepsAre == ASSUME NEW c \in Channel, NEW step \in ClosedSteps(c) PROVE IsStep(step)
<1>1. step.step \in {"Elapse", "Respond"}
  BY DEF ClosedSteps
<1>. QED
  BY <1>1 DEF IsStep, StepNames

LEMMA RespondedStepsAre ==
    ASSUME NEW c \in Channel, utxo[c].pends \in Seq(Pend), NEW step \in RespondedSteps(c)
    PROVE  IsStep(step)
<1>1. DOMAIN utxo[c].pends = 1..Len(utxo[c].pends) /\ Len(utxo[c].pends) \in Nat
  OBVIOUS
<1>2. CASE step \in [step : {"End"}]
  BY <1>2 DEF IsStep, StepNames
<1>3. CASE step \in [step : {"Unlock"}, unpends : [DOMAIN utxo[c].pends -> {Keep} \cup revealed]]
  <2>1. step.step = "Unlock" /\ step.unpends \in Seq({Keep} \cup revealed)
    BY <1>1, <1>3
  <2>. QED
    BY <2>1 DEF IsStep, StepNames
<1>4. CASE step \in [step : {"Expire"}, unpends : [DOMAIN utxo[c].pends -> {Keep, Expired}]]
  <2>1. step.step = "Expire" /\ step.unpends \in Seq({Keep, Expired})
    BY <1>1, <1>4
  <2>. QED
    BY <2>1 DEF IsStep, StepNames
<1>. QED
  BY <1>2, <1>3, <1>4 DEF RespondedSteps

LEMMA OutsAre ==
    ASSUME Typed, NEW c \in Channel
    PROVE  /\ utxo[c].stage = "Opened" => OpenOuts(c) \subseteq Continuing
           /\ RespondedOuts(c) \subseteq Continuing
<1>1. Amounts \subseteq Nat /\ now + ClosePeriod \in Nat
  BY BoundsAssumption, ClosePeriodAssumption DEF Amounts, Typed
<1>2. ASSUME utxo[c].stage = "Opened", NEW out \in OpenOuts(c) PROVE out \in Continuing
  <2>1. utxo[c].subbed \in Nat /\ utxo[c].useds \in Seq(Used)
    BY <1>2 DEF Typed, States, Continuing, Opened, Closed, Responded, Spent
  <2>2. AtMostOne({UsedOf(d) : d \in Unlocked(c)}) \subseteq Seq(Used)
    <3>1. {UsedOf(d) : d \in Unlocked(c)} \subseteq Used
      BY ChequesAre DEF Unlocked
    <3>. QED
      BY <3>1, AtMostOneIsList
  <2>. QED
    BY <1>1, <1>2, <2>1, <2>2 DEF OpenOuts, Continuing, Opened, Closed
<1>3. ASSUME NEW out \in RespondedOuts(c) PROVE out \in Continuing
  <2>1. PICK a \in Amounts, pends \in AtMostOne({PendOf(d) : d \in Cheques(c)}) :
            out = [stage |-> "Responded", amount |-> a, pendsAmount |-> ListTotal(pends), pends |-> pends]
    BY <1>3 DEF RespondedOuts
  <2>2. pends \in Seq(Pend)
    <3>1. {PendOf(d) : d \in Cheques(c)} \subseteq Pend
      BY ChequesAre
    <3>. QED
      BY <3>1, AtMostOneIsList
  <2>3. ListTotal(pends) \in Nat
    BY <2>2, PendingsHaveAmounts, ListTotalTail
  <2>. QED
    BY <1>1, <2>1, <2>2, <2>3 DEF Continuing, Responded
<1>. QED
  BY <1>2, <1>3

LEMMA MovesAre ==
    ASSUME Typed, NEW c \in Live, NEW move \in Moves(c)
    PROVE  IsMove(move)
<1>. DEFINE state == utxo[c]
            steps == IF state.stage = "Opened" THEN OpenSteps(c)
                     ELSE IF state.stage = "Closed" THEN ClosedSteps(c) ELSE RespondedSteps(c)
            outs  == IF state.stage = "Opened" THEN OpenOuts(c) ELSE RespondedOuts(c)
            holds == {m \in steps \X outs : StepHolds(Signed(c), now, now, state, m[2], m[1])}
<1>1. c \in Channel /\ state \in Continuing
  BY DEF Live, Typed, States, Continuing, Spent, Opened, Closed, Responded
<1>2. PICK m \in holds : \/ move = [id |-> c, step |-> m[1], out |-> m[2]]
                         \/ move = [id |-> c, step |-> m[1]] /\ Ends(m[1])
  BY DEF Moves
<1>3. m[1] \in steps /\ m[2] \in outs
  BY <1>2
<1>4. IsStep(m[1])
  <2>1. CASE state.stage = "Opened"
    BY <1>1, <1>3, <2>1, OpenStepsAre
  <2>2. CASE state.stage = "Closed"
    BY <1>1, <1>3, <2>2, ClosedStepsAre
  <2>3. CASE state.stage = "Responded"
    <3>1. state.pends \in Seq(Pend)
      BY <1>1, <2>3 DEF Continuing, Opened, Closed, Responded
    <3>. QED
      BY <1>1, <1>3, <2>3, <3>1, RespondedStepsAre
  <2>. QED
    BY <1>1, <2>1, <2>2, <2>3 DEF Continuing, Opened, Closed, Responded
<1>5. m[2] \in Continuing
  BY <1>1, <1>3, OutsAre
<1>. HIDE DEF holds
<1>. QED
  BY <1>1, <1>2, <1>4, <1>5 DEF IsMove

\* What MovesOf puts together are moves, whatever is dropped or turned around.
AllMoves == UNION {Moves(c) : c \in Live}
Steps == {move.step : move \in AllMoves}
Outs == {OutputOf(c, state) : c \in Channel, state \in Continuing}

LEMMA MovesOfAre ==
    ASSUME NEW refs \in Seq(Channel \cup {Stray}), NEW each \in MovesOfEach,
           NEW moves \in MovesOf(refs, each)
    PROVE  moves \in Seq(AllMoves)
<1>. DEFINE places == {n \in DOMAIN refs : refs[n] # Stray}
            channels == EntriesAt(refs, places)
<1>1. Where(refs, LAMBDA ref : ref # Stray) = channels
  BY DEF Where, The
<1>2. DOMAIN channels = 1..Len(channels) /\ Len(channels) \in Nat
  BY EntriesAtSelects
<1>3. UNION {each[c] : c \in Live} = AllMoves
  BY DEF MovesOfEach, AllMoves
<1>. HIDE DEF channels
<1>4. moves \in [DOMAIN channels -> AllMoves]
  BY <1>1, <1>3 DEF MovesOf
<1>. QED
  BY <1>2, <1>4

\* Of a list, all, all but the last or all but the first.
LEMMA PartsAre ==
    ASSUME NEW S, NEW list \in Seq(S), NEW part \in Parts(list)
    PROVE  part \in Seq(S)
<1>1. Len(list) \in Nat /\ (list # <<>> => Len(list) - 1 \in Nat)
  OBVIOUS
<1>2. CASE part = list
  BY <1>2
<1>3. CASE part = Front(list) /\ list # <<>>
  BY <1>1, <1>3 DEF Front
<1>4. CASE part = SubSeq(list, 2, Len(list))
  BY <1>1, <1>4
<1>. QED
  BY <1>2, <1>3, <1>4 DEF Parts

LEMMA StepsOfAre ==
    ASSUME NEW moves \in Seq(AllMoves), NEW steps \in Parts(StepsOf(moves))
    PROVE  steps \in Seq(Steps)
<1>1. StepsOf(moves) \in Seq(Steps)
  BY DEF StepsOf, Steps
<1>. QED
  BY <1>1, PartsAre

LEMMA OutputsOfAre ==
    ASSUME Typed, NEW moves \in Seq(AllMoves), NEW outputs \in Arranged(OutputsOf(moves))
    PROVE  outputs \in Seq(Outs)
<1>. DEFINE places == {n \in DOMAIN moves : ~Ends(moves[n].step)}
            going == EntriesAt(moves, places)
            all == [n \in DOMAIN going |-> OutputOf(going[n].id, going[n].out)]
<1>1. Where(moves, LAMBDA move : ~Ends(move.step)) = going
  BY DEF Where, The
<1>2. DOMAIN going = 1..Len(going) /\ Len(going) \in Nat
      /\ Entries(going) = {moves[n] : n \in places}
  BY EntriesAtSelects, EntriesAtAre
<1>3. ASSUME NEW n \in DOMAIN going PROVE OutputOf(going[n].id, going[n].out) \in Outs
  <2>1. going[n] \in Entries(going)
    BY DEF Entries
  <2>2. PICK k \in places : going[n] = moves[k]
    BY <1>2, <2>1
  <2>3. moves[k] \in AllMoves /\ ~Ends(moves[k].step)
    OBVIOUS
  <2>4. IsMove(moves[k])
    BY <2>3, MovesAre DEF AllMoves
  <2>. HIDE DEF going
  <2>. QED
    BY <2>2, <2>3, <2>4 DEF IsMove, Outs
<1>4. OutputsOf(moves) = all
  <2>. HIDE DEF going
  <2>. QED
    BY <1>1 DEF OutputsOf
<1>. HIDE DEF going
<1>5. all \in Seq(Outs)
  BY <1>2, <1>3
<1>. HIDE DEF all
<1>6. CASE outputs \in Parts(all)
  BY <1>5, <1>6, PartsAre
<1>7. CASE outputs = Reverse(all)
  BY <1>5, <1>7 DEF Reverse
<1>. QED
  BY <1>4, <1>6, <1>7 DEF Arranged

-----------------------------------------------------------------------------
(* The walk of Main.  As long as it holds, every input it has passed has   *)
(* one fate, decided by one of the steps, and what the fates need is paid  *)
(* by outputs of their own.                                                *)

Inputs == {InputOf(ref) : ref \in Channel \cup {Stray}}
Fates == [id : Channel, step : StepNames, state : States]
Payments == [left : Nat, amount : Nat]

\* One of the steps decides a fate.
Decides(step, fate) ==
    /\ fate.step = step.step
    /\ StepHolds(Signed(fate.id), now, now, utxo[fate.id], fate.state, step)
    /\ fate.state \in (IF Ends(step) THEN {[stage |-> "Spent", by |-> step.step]} ELSE Continuing)
Fated(became) ==
    /\ became \in SUBSET Fates /\ IsFiniteSet(became)
    /\ \A a, b \in became : a.id = b.id => a = b
    /\ \A b \in became : \E step \in Steps : Decides(step, b)

\* Every payment has a place of its own among the outputs.
PaidFor(became, paid, left) ==
    /\ paid \in SUBSET Payments /\ IsFiniteSet(paid)
    /\ \A q \in paid : left <= q.left
    /\ Total(paid) = SumOver(became, [b \in Fates |-> Funds(b.state)])

\* The fates are those of the inputs passed, the first p.
Passes(inputs, left, became) ==
    \E p \in 0..Len(inputs) :
        /\ Len(left) = Len(inputs) - p
        /\ \A n \in DOMAIN left : left[n] = inputs[p + n]
        /\ \A n \in 1..p : inputs[n].own /\ \E b \in became : b.id = inputs[n].id
        /\ \A b \in became : \E n \in 1..p : inputs[n].own /\ b.id = inputs[n].id

Walks(inputs) ==
    {acc \in [ok : BOOLEAN, inputs : Seq(Inputs), outputs : Seq(Outs), vkeys : SUBSET Keys,
              became : SUBSET Fates, paid : SUBSET Payments] :
        acc.ok => /\ Fated(acc.became)
                  /\ PaidFor(acc.became, acc.paid, Len(acc.outputs))
                  /\ Passes(inputs, acc.inputs, acc.became)}

\* No channel is spent by two inputs.
OnceEach(inputs) ==
    \A m, n \in DOMAIN inputs :
        inputs[m].own /\ inputs[n].own /\ inputs[m].id = inputs[n].id => m = n

LEMMA FundsOfStates ==
    ASSUME NEW state \in States
    PROVE  /\ Funds(state) \in Nat
           /\ state \in Continuing => Funds(state) = state.amount /\ state.amount \in Nat
           /\ state \in Spent => Funds(state) = 0
  BY DEF States, Continuing, Opened, Closed, Responded, Spent, Funds

\* One more fate, and what it needs.
LEMMA FateIsAdded ==
    ASSUME NEW became, Fated(became), NEW b \in Fates, NEW step \in Steps, Decides(step, b),
           \A a \in became : a.id # b.id
    PROVE  /\ Fated(became \cup {b})
           /\ SumOver(became \cup {b}, [f \in Fates |-> Funds(f.state)])
                 = Funds(b.state) + SumOver(became, [f \in Fates |-> Funds(f.state)])
           /\ SumOver(became, [f \in Fates |-> Funds(f.state)]) \in Nat
<1>. DEFINE w == [f \in Fates |-> Funds(f.state)]
            new == became \cup {b}
<1>1. new \in SUBSET Fates /\ IsFiniteSet(new) /\ b \notin became
  BY FS_AddElement DEF Fated
<1>2. \A f \in Fates : w[f] \in Nat /\ w[f] = Funds(f.state)
  BY FundsOfStates DEF Fates
<1>3. new \ {b} = became /\ b \in new
  BY <1>1
<1>4. Fated(new)
  BY <1>1 DEF Fated
<1>. HIDE DEF w, new
<1>5. SumOver(new, w) = w[b] + SumOver(new \ {b}, w)
  BY <1>1, <1>2, <1>3, SumRemoves
<1>6. SumOver(became, w) \in Nat
  BY <1>2, SumType DEF Fated
<1>. QED
  BY <1>2, <1>3, <1>4, <1>5, <1>6 DEF w, new

LEMMA PaymentIsAdded ==
    ASSUME NEW paid \in SUBSET Payments, IsFiniteSet(paid), NEW q \in Payments, q \notin paid
    PROVE  /\ IsFiniteSet(paid \cup {q}) /\ paid \cup {q} \in SUBSET Payments
           /\ Total(paid \cup {q}) = Total(paid) + q.amount /\ Total(paid) \in Nat
<1>. DEFINE w == [r \in Payments |-> r.amount]
            new == paid \cup {q}
<1>1. new \in SUBSET Payments /\ IsFiniteSet(new) /\ new \ {q} = paid /\ q \in new
  BY FS_AddElement
<1>2. \A r \in Payments : w[r] = r.amount /\ w[r] \in Nat
  BY DEF Payments
<1>. HIDE DEF w, new
<1>3. Total(new) = SumOver(new, w) /\ Total(paid) = SumOver(paid, w)
  BY <1>1, <1>2, TotalIsSum
<1>4. SumOver(new, w) = w[q] + SumOver(new \ {q}, w)
  BY <1>1, <1>2, SumRemoves
<1>5. SumOver(paid, w) \in Nat
  BY <1>2, SumType
<1>6. Total(new) = Total(paid) + q.amount /\ Total(paid) \in Nat
  <2>1. w[q] = q.amount /\ q.amount \in Nat
    BY <1>2
  <2>2. SumOver(new, w) = w[q] + SumOver(paid, w)
    BY <1>1, <1>4
  <2>. QED
    BY <1>3, <1>5, <2>1, <2>2
<1>. QED
  BY <1>1, <1>6 DEF new

\* The input at the head has no fate yet; with its own it is passed.
LEMMA InputIsPassed ==
    ASSUME NEW inputs \in Seq(Inputs), OnceEach(inputs), NEW left \in Seq(Inputs), left # <<>>,
           NEW became, Passes(inputs, left, became), Head(left).own,
           NEW b, b.id = Head(left).id
    PROVE  /\ \A a \in became : a.id # b.id
           /\ Passes(inputs, Tail(left), became \cup {b})
<1>1. PICK p \in 0..Len(inputs) :
        /\ Len(left) = Len(inputs) - p
        /\ \A n \in DOMAIN left : left[n] = inputs[p + n]
        /\ \A n \in 1..p : inputs[n].own /\ \E a \in became : a.id = inputs[n].id
        /\ \A a \in became : \E n \in 1..p : inputs[n].own /\ a.id = inputs[n].id
  BY DEF Passes
<1>2. /\ Len(left) \in Nat \ {0} /\ DOMAIN left = 1..Len(left) /\ Len(inputs) \in Nat
      /\ DOMAIN inputs = 1..Len(inputs) /\ Head(left) = left[1]
  OBVIOUS
<1>3. p + 1 \in DOMAIN inputs /\ Head(left) = inputs[p + 1]
  BY <1>1, <1>2
<1>4. \A a \in became : a.id # b.id
  <2>1. ASSUME NEW a \in became, a.id = b.id PROVE FALSE
    <3>1. PICK n \in 1..p : inputs[n].own /\ a.id = inputs[n].id
      BY <1>1
    <3>2. n \in DOMAIN inputs /\ n # p + 1
      BY <1>1, <1>2
    <3>. QED
      BY <1>3, <2>1, <3>1, <3>2 DEF OnceEach
  <2>. QED
    BY <2>1
<1>5. Passes(inputs, Tail(left), became \cup {b})
  <2>. DEFINE rest == Tail(left)
              more == became \cup {b}
  <2>1. /\ Len(rest) = Len(inputs) - (p + 1) /\ DOMAIN rest = 1..Len(rest)
        /\ \A n \in DOMAIN rest : rest[n] = left[n + 1] /\ n + 1 \in DOMAIN left
    BY <1>1, <1>2
  <2>. HIDE DEF rest
  <2>2. \A n \in DOMAIN rest : rest[n] = inputs[p + 1 + n]
    <3>. TAKE n \in DOMAIN rest
    <3>1. left[n + 1] = inputs[p + (n + 1)] /\ n \in Nat /\ p \in Nat
      BY <1>1, <2>1
    <3>2. p + (n + 1) = p + 1 + n
      BY <3>1
    <3>. QED
      BY <2>1, <3>1, <3>2
  <2>3. \A n \in 1..(p + 1) : inputs[n].own /\ \E a \in more : a.id = inputs[n].id
    <3>. TAKE n \in 1..(p + 1)
    <3>1. CASE n \in 1..p
      BY <1>1, <3>1
    <3>2. CASE n = p + 1
      BY <1>3, <3>2
    <3>. QED
      BY <3>1, <3>2
  <2>4. \A a \in more : \E n \in 1..(p + 1) : inputs[n].own /\ a.id = inputs[n].id
    <3>. TAKE a \in more
    <3>1. CASE a \in became
      BY <1>1, <3>1
    <3>2. CASE a = b
      BY <1>3, <3>2
    <3>. QED
      BY <3>1, <3>2
  <2>5. p + 1 \in 0..Len(inputs)
    BY <1>2, <1>3
  <2>. HIDE DEF more
  <2>. QED
    BY <2>1, <2>2, <2>3, <2>4, <2>5 DEF Passes, rest, more
<1>. QED
  BY <1>4, <1>5

\* The input that a step of the walk is for, the place of its output, what
\* becomes of it and what for.
Input(acc) == Head(acc.inputs)
Place(acc) == SelectInSeq(acc.outputs, LAMBDA o : o.home = Input(acc).home)
Becomes(acc, step) ==
    IF Ends(step) THEN [stage |-> "Spent", by |-> step.step] ELSE acc.outputs[Place(acc)].state
FateOf(acc, step) == [id |-> Input(acc).id, step |-> step.step, state |-> Becomes(acc, step)]
PaymentOf(acc) ==
    [left |-> Len(acc.outputs) - Place(acc), amount |-> acc.outputs[Place(acc)].state.amount]

\* A step of the walk: it goes on, or has failed for good.
LEMMA MainWithIs ==
    ASSUME NEW acc, NEW step, MainWith(acc, step) # [acc EXCEPT !.ok = FALSE]
    PROVE  /\ acc.ok /\ acc.inputs # <<>> /\ Input(acc).own
           /\ Ends(step) \/ Place(acc) # 0
           /\ StepHolds(Signed(Input(acc).id), now, now, utxo[Input(acc).id], Becomes(acc, step), step)
           /\ MainWith(acc, step) =
                [ok      |-> TRUE,
                 inputs  |-> Tail(acc.inputs),
                 outputs |-> IF Ends(step) THEN acc.outputs ELSE OutputsAfter(acc.outputs, Place(acc)),
                 vkeys   |-> acc.vkeys \cup {SignerOf(Input(acc).id, step)},
                 became  |-> acc.became \cup {FateOf(acc, step)},
                 paid    |-> IF Ends(step) THEN acc.paid ELSE acc.paid \cup {PaymentOf(acc)}]
  BY DEF MainWith, Input, Place, Becomes, FateOf, PaymentOf

LEMMA PlaceIsOne ==
    ASSUME NEW acc, acc.outputs \in Seq(Outs)
    PROVE  Place(acc) \in 0..Len(acc.outputs)
<1>. DEFINE outputs == acc.outputs
            I == {i \in 1..Len(outputs) : outputs[i].home = Input(acc).home}
            n == Place(acc)
<1>1. n = IF I # {} THEN Min(I) ELSE 0
  BY DEF SelectInSeq, Place
<1>2. I # {} => Min(I) \in 1..Len(outputs)
  <2>1. I \subseteq Nat /\ I \subseteq 1..Len(outputs)
    OBVIOUS
  <2>. HIDE DEF I
  <2>. QED
    BY <2>1, MinIsLeast
<1>a. Len(outputs) \in Nat
  OBVIOUS
<1>. HIDE DEF n, I, outputs
<1>3. n \in 0..Len(outputs)
  BY <1>1, <1>2, <1>a
<1>. QED
  BY <1>3 DEF n, outputs

LEMMA MainWithKeeps ==
    ASSUME Typed, NEW inputs \in Seq(Inputs), OnceEach(inputs),
           NEW acc \in Walks(inputs), NEW step \in Steps
    PROVE  MainWith(acc, step) \in Walks(inputs)
<1>. DEFINE in == Input(acc)
            n == Place(acc)
            out == acc.outputs[n]
            becomes == Becomes(acc, step)
            fate == FateOf(acc, step)
            pays == PaymentOf(acc)
            next == MainWith(acc, step)
<1>1. acc \in [ok : BOOLEAN, inputs : Seq(Inputs), outputs : Seq(Outs), vkeys : SUBSET Keys,
               became : SUBSET Fates, paid : SUBSET Payments]
  BY DEF Walks
<1>2. CASE next = [acc EXCEPT !.ok = FALSE]
  BY <1>1, <1>2 DEF Walks
<1>3. CASE next # [acc EXCEPT !.ok = FALSE]
  <2>1. /\ acc.ok /\ acc.inputs # <<>> /\ in.own
        /\ Ends(step) \/ n # 0
        /\ StepHolds(Signed(in.id), now, now, utxo[in.id], becomes, step)
        /\ next = [ok      |-> TRUE,
                   inputs  |-> Tail(acc.inputs),
                   outputs |-> IF Ends(step) THEN acc.outputs ELSE OutputsAfter(acc.outputs, n),
                   vkeys   |-> acc.vkeys \cup {SignerOf(in.id, step)},
                   became  |-> acc.became \cup {fate},
                   paid    |-> IF Ends(step) THEN acc.paid ELSE acc.paid \cup {pays}]
    BY <1>3, MainWithIs
  <2>2. Fated(acc.became) /\ PaidFor(acc.became, acc.paid, Len(acc.outputs))
        /\ Passes(inputs, acc.inputs, acc.became)
    BY <2>1 DEF Walks
  <2>3. in \in Inputs /\ in.id \in Channel /\ Tail(acc.inputs) \in Seq(Inputs)
    <3>1. in \in Inputs /\ Tail(acc.inputs) \in Seq(Inputs)
      BY <1>1, <2>1 DEF Input
    <3>. HIDE DEF in
    <3>. QED
      BY <2>1, <3>1 DEF Inputs, InputOf
  <2>4. n \in 0..Len(acc.outputs) /\ Len(acc.outputs) \in Nat
    BY <1>1, PlaceIsOne
  <2>5. IsStep(step) /\ step.step \in StepNames
    <3>1. PICK c \in Live : \E move \in Moves(c) : step = move.step
      BY DEF Steps, AllMoves
    <3>2. IsStep(step)
      BY <3>1, MovesAre DEF IsMove
    <3>3. step.step \in StepNames
      BY <3>2 DEF IsStep
    <3>. QED
      BY <3>2, <3>3
  <2>. HIDE DEF in, n, next
  <2>6. ~Ends(step) => n \in 1..Len(acc.outputs) /\ out \in Outs /\ out.state \in Continuing
    BY <1>1, <2>1, <2>4 DEF Outs, OutputOf
  <2>b. becomes = IF Ends(step) THEN [stage |-> "Spent", by |-> step.step] ELSE out.state
    BY DEF Becomes, n
  <2>c. fate = [id |-> in.id, step |-> step.step, state |-> becomes]
    BY DEF FateOf, in
  <2>d. pays = [left |-> Len(acc.outputs) - n, amount |-> out.state.amount]
    BY DEF PaymentOf, n
  <2>. HIDE DEF becomes, fate, pays
  <2>7. becomes \in States /\ becomes \in (IF Ends(step) THEN {[stage |-> "Spent", by |-> step.step]} ELSE Continuing)
    BY <2>6, <2>b DEF States, Spent, Ends
  <2>8. fate \in Fates /\ Decides(step, fate) /\ fate.id = in.id /\ fate.state = becomes
    BY <2>1, <2>3, <2>5, <2>7, <2>c DEF Fates, Decides
  <2>9. (\A a \in acc.became : a.id # fate.id) /\ Passes(inputs, Tail(acc.inputs), acc.became \cup {fate})
    <3>1. acc.inputs \in Seq(Inputs) /\ acc.inputs # <<>>
          /\ Head(acc.inputs).own /\ fate.id = Head(acc.inputs).id
      BY <1>1, <2>1, <2>8 DEF in, Input
    <3>. QED
      BY <2>2, <3>1, InputIsPassed
  <2>10. Fated(acc.became \cup {fate})
    BY <2>2, <2>8, <2>9, FateIsAdded
  <2>11. acc.vkeys \cup {SignerOf(in.id, step)} \in SUBSET Keys
    BY <1>1, <2>3 DEF SignerOf, Keys
  <2>12. PaidFor(acc.became \cup {fate}, next.paid, Len(next.outputs))
         /\ next.outputs \in Seq(Outs) /\ next.paid \in SUBSET Payments
    <3>. DEFINE w == [b \in Fates |-> Funds(b.state)]
    <3>1. /\ SumOver(acc.became \cup {fate}, w) = Funds(fate.state) + SumOver(acc.became, w)
          /\ SumOver(acc.became, w) \in Nat
      BY <2>2, <2>8, <2>9, FateIsAdded
    <3>2. /\ acc.paid \in SUBSET Payments /\ IsFiniteSet(acc.paid)
          /\ \A q \in acc.paid : Len(acc.outputs) <= q.left
          /\ Total(acc.paid) = SumOver(acc.became, w)
      BY <2>2 DEF PaidFor
    <3>. HIDE DEF w
    <3>3. CASE Ends(step)
      <4>1. next.paid = acc.paid /\ next.outputs = acc.outputs
        BY <2>1, <3>3
      <4>2. fate.state = [stage |-> "Spent", by |-> step.step]
        BY <2>7, <2>8, <3>3
      <4>3. Funds(fate.state) = 0
        BY <4>2 DEF Funds
      <4>4. Total(acc.paid) = SumOver(acc.became \cup {fate}, w)
        BY <3>1, <3>2, <4>3
      <4>. QED
        BY <1>1, <3>2, <4>1, <4>4 DEF PaidFor, w
    <3>4. CASE ~Ends(step)
      <4>1. next.paid = acc.paid \cup {pays} /\ next.outputs = OutputsAfter(acc.outputs, n)
        BY <2>1, <3>4
      <4>2. n \in 1..Len(acc.outputs) /\ out.state \in Continuing /\ fate.state = out.state
        BY <2>6, <2>8, <2>b, <3>4
      <4>3. Funds(fate.state) = out.state.amount /\ out.state.amount \in Nat
        BY <4>2, FundsOfStates DEF States
      <4>4. next.outputs \in Seq(Outs) /\ Len(next.outputs) = Len(acc.outputs) - n
        BY <1>1, <2>4, <4>1, <4>2 DEF OutputsAfter
      <4>5. pays \in Payments /\ pays.left = Len(acc.outputs) - n /\ pays.amount = out.state.amount
        BY <2>4, <2>d, <4>2, <4>3 DEF Payments
      <4>6. pays.left < Len(acc.outputs) /\ \A q \in acc.paid : q.left \in Nat
        BY <2>4, <3>2, <4>2, <4>5 DEF Payments
      <4>7. pays \notin acc.paid
        BY <2>4, <3>2, <4>5, <4>6
      <4>8. /\ IsFiniteSet(next.paid) /\ next.paid \in SUBSET Payments
            /\ Total(next.paid) = Total(acc.paid) + pays.amount /\ Total(acc.paid) \in Nat
        BY <3>2, <4>1, <4>5, <4>7, PaymentIsAdded
      <4>9. \A q \in next.paid : Len(next.outputs) <= q.left
        BY <2>4, <3>2, <4>1, <4>2, <4>4, <4>5, <4>6
      <4>10. Total(next.paid) = SumOver(acc.became \cup {fate}, w)
        BY <3>1, <3>2, <4>3, <4>5, <4>8
      <4>. QED
        BY <4>4, <4>8, <4>9, <4>10 DEF PaidFor, w
    <3>. QED
      BY <3>3, <3>4
  <2>13. next \in [ok : BOOLEAN, inputs : Seq(Inputs), outputs : Seq(Outs), vkeys : SUBSET Keys,
                   became : SUBSET Fates, paid : SUBSET Payments]
         /\ next.inputs = Tail(acc.inputs) /\ next.became = acc.became \cup {fate}
    BY <1>1, <2>1, <2>3, <2>8, <2>11, <2>12
  <2>. QED
    BY <2>9, <2>10, <2>12, <2>13 DEF Walks, next
<1>. QED
  BY <1>2, <1>3

\* The accumulators of a walk, one for each step.
WalkStart(inputs, outputs) ==
    [ok |-> TRUE, inputs |-> inputs, outputs |-> outputs, vkeys |-> {}, became |-> {}, paid |-> {}]
IsMainWalk(h, inputs, outputs, steps) ==
    /\ h \in [0..Len(steps) -> Walks(inputs)]
    /\ h[0] = WalkStart(inputs, outputs)
    /\ \A k \in 1..Len(steps) : h[k] = MainWith(h[k - 1], steps[k])
    /\ h[Len(steps)] = Walk(inputs, outputs, steps)

LEMMA WalkIsMade ==
    ASSUME Typed, NEW inputs \in Seq(Inputs), OnceEach(inputs),
           NEW outputs \in Seq(Outs), NEW steps \in Seq(Steps)
    PROVE  \E h : IsMainWalk(h, inputs, outputs, steps)
<1>. DEFINE State == Walks(inputs)
            n == Len(steps)
            base == [ok |-> TRUE, inputs |-> inputs, outputs |-> outputs,
                     vkeys |-> {}, became |-> {}, paid |-> {}]
            F(iter) == [s \in SUBSET (1..n) |->
                          IF s = {} THEN base
                          ELSE MainWith(iter[s \ {Max(s)}], steps[Max(s)])]
            step == [q \in State \X (1..n) |-> MainWith(q[1], steps[q[2]])]
            it == CHOOSE iter : iter = F(iter)
<1>1. DOMAIN steps = 1..n /\ n \in Nat /\ \A k \in 1..n : steps[k] \in Steps
  OBVIOUS
<1>2. Walk(inputs, outputs, steps) = it[1..n]
  BY <1>1 DEF Walk, FoldLeft, MapThenFoldSet
<1>3. base \in State
  <2>1. base \in [ok : BOOLEAN, inputs : Seq(Inputs), outputs : Seq(Outs), vkeys : SUBSET Keys,
                  became : SUBSET Fates, paid : SUBSET Payments]
        /\ base.became = {} /\ base.paid = {} /\ base.outputs = outputs /\ base.inputs = inputs
    OBVIOUS
  <2>. HIDE DEF base
  <2>2. IsFiniteSet({}) /\ Fated({})
    BY FS_EmptySet DEF Fated
  <2>3. PaidFor({}, {}, Len(outputs))
    <3>1. Total({}) = SumOver({}, [q \in {} |-> 0])
      BY TotalIsSum
    <3>2. \A w : SumOver({}, w) = 0
      BY FS_EmptySet, SumPicks
    <3>. QED
      BY <2>2, <3>1, <3>2 DEF PaidFor
  <2>4. Passes(inputs, inputs, {})
    <3>1. Len(inputs) \in Nat /\ DOMAIN inputs = 1..Len(inputs)
      OBVIOUS
    <3>2. 0 \in 0..Len(inputs) /\ Len(inputs) = Len(inputs) - 0
          /\ \A k \in DOMAIN inputs : inputs[k] = inputs[0 + k]
      BY <3>1
    <3>3. 1..0 = {}
      OBVIOUS
    <3>. QED
      BY <3>2, <3>3 DEF Passes
  <2>. QED
    BY <2>1, <2>2, <2>3, <2>4 DEF Walks
<1>. HIDE DEF base
<1>4. \A a \in State : \A k \in 1..n : MainWith(a, steps[k]) \in State
  <2>. HIDE DEF n
  <2>. QED
    BY <1>1, MainWithKeeps
<1>. HIDE DEF State, n
<1>5. step \in [State \X (1..n) -> State]
  BY <1>4
<1>6. it = F(it)
  <2>1. PICK walk : IsWalk(walk, n, State, base, step)
    <3>. HIDE DEF step
    <3>. QED
      BY <1>1, <1>3, <1>5, WalkExists
  <2>2. ASSUME NEW s \in SUBSET (1..n), s # {}
        PROVE  walk[s] = MainWith(walk[s \ {Max(s)}], steps[Max(s)])
    <3>1. Max(s) \in 1..n /\ s \ {Max(s)} \in SUBSET (1..n)
      BY <1>1, <2>2, MaxIsIn
    <3>2. walk[s] = step[<<walk[s \ {Max(s)}], Max(s)>>] /\ walk[s \ {Max(s)}] \in State
      <4>. HIDE DEF step
      <4>. QED
        BY <2>1, <2>2, <3>1 DEF IsWalk
    <3>. QED
      BY <3>1, <3>2
  <2>3. walk = F(walk)
    BY <2>1, <2>2 DEF IsWalk
  <2>. HIDE DEF F
  <2>. QED
    BY <2>3
<1>. HIDE DEF it
<1>7. it[{}] = base
  BY <1>6
<1>8. ASSUME NEW s \in SUBSET (1..n), s # {}, it[s \ {Max(s)}] \in State
      PROVE  it[s] = step[<<it[s \ {Max(s)}], Max(s)>>]
  <2>1. Max(s) \in 1..n
    BY <1>1, <1>8, MaxIsIn
  <2>. QED
    BY <1>6, <1>8, <2>1
<1>9. PICK h : IsHistoryOf(h, it, n, State, base, step)
  <2>1. IsFold(it, n, State, base, step)
    BY <1>7, <1>8 DEF IsFold
  <2>. HIDE DEF step
  <2>. QED
    BY <1>1, <1>3, <1>5, <2>1, FoldIsHistory
<1>10. h \in [0..n -> State] /\ h[0] = base /\ h[n] = Walk(inputs, outputs, steps)
  BY <1>2, <1>9 DEF IsHistoryOf, IsHistory
<1>11. ASSUME NEW k \in 1..n PROVE h[k] = MainWith(h[k - 1], steps[k])
  <2>1. h[k] = step[<<h[k - 1], k>>]
    <3>. HIDE DEF step
    <3>. QED
      BY <1>9 DEF IsHistoryOf, IsHistory
  <2>2. h[k - 1] \in State
    BY <1>1, <1>10
  <2>. QED
    BY <2>1, <2>2
<1>12. base = WalkStart(inputs, outputs)
  BY DEF base, WalkStart
<1>13. IsMainWalk(h, inputs, outputs, steps)
  BY <1>10, <1>11, <1>12 DEF IsMainWalk, State, n
<1>. QED
  BY <1>13

LEMMA WalkStays ==
    ASSUME Typed, NEW inputs \in Seq(Inputs), OnceEach(inputs),
           NEW outputs \in Seq(Outs), NEW steps \in Seq(Steps)
    PROVE  Walk(inputs, outputs, steps) \in Walks(inputs)
<1>1. PICK h : IsMainWalk(h, inputs, outputs, steps)
  BY WalkIsMade
<1>2. Len(steps) \in Nat
  OBVIOUS
<1>. QED
  BY <1>1, <1>2 DEF IsMainWalk

\* Main holds for the whole transaction: no stray is among the inputs, each
\* channel has one fate, and all of it is paid for.
LEMMA MainDecides ==
    ASSUME Typed, NEW inputs \in Seq(Inputs), OnceEach(inputs),
           NEW outputs \in Seq(Outs), NEW steps \in Seq(Steps), MainHolds(Walk(inputs, outputs, steps))
    PROVE  LET walk == Walk(inputs, outputs, steps)
           IN  /\ Fated(walk.became) /\ PaidFor(walk.became, walk.paid, Len(walk.outputs))
               /\ \A n \in DOMAIN inputs : inputs[n].own /\ \E b \in walk.became : b.id = inputs[n].id
               /\ \A b \in walk.became : \E n \in DOMAIN inputs : inputs[n].own /\ b.id = inputs[n].id
<1>. DEFINE walk == Walk(inputs, outputs, steps)
<1>1. walk \in Walks(inputs)
  BY WalkStays
<1>2. walk.ok /\ walk.inputs = <<>>
  BY DEF MainHolds, NoneLeft
<1>. HIDE DEF walk
<1>3. Fated(walk.became) /\ PaidFor(walk.became, walk.paid, Len(walk.outputs))
      /\ Passes(inputs, walk.inputs, walk.became)
  BY <1>1, <1>2 DEF Walks
<1>4. PICK p \in 0..Len(inputs) :
        /\ Len(walk.inputs) = Len(inputs) - p
        /\ \A n \in 1..p : inputs[n].own /\ \E b \in walk.became : b.id = inputs[n].id
        /\ \A b \in walk.became : \E n \in 1..p : inputs[n].own /\ b.id = inputs[n].id
  BY <1>3 DEF Passes
<1>5. 1..p = DOMAIN inputs
  BY <1>2, <1>4
<1>. QED
  BY <1>3, <1>4, <1>5 DEF walk

-----------------------------------------------------------------------------
(* What a transaction makes of its channels.                               *)

FateAmong(became, c) ==
    IF \E b \in became : b.id = c THEN CHOOSE b \in became : b.id = c
    ELSE [step |-> "None", state |-> [stage |-> "Spent", by |-> "None"]]

\* Each of the channels has one fate.
IsFates(channels, became) ==
    /\ \A a, b \in became : a.id = b.id => a = b
    /\ \A c \in channels : \E b \in became : b.id = c
    /\ \A b \in became :
          /\ b.id \in channels /\ b.state \in States
          /\ b.step \in {"Sub", "Respond", "Unlock"} => b.state \in Continuing

LEMMA FateIs ==
    ASSUME NEW channels, NEW became, IsFates(channels, became), NEW c \in channels
    PROVE  FateAmong(became, c) \in became /\ FateAmong(became, c).id = c
  BY DEF FateAmong, IsFates

LEMMA FundsAre ==
    ASSUME NEW S, NEW w, \A c \in S : w[c] = Funds(utxo[c])
    PROVE  FundsOf(S) = SumOver(S, w)
<1>. DEFINE G(f) == [s \in SUBSET S |->
                       IF s = {} THEN 0
                       ELSE LET x == CHOOSE x \in s : TRUE IN Funds(utxo[x]) + f[s \ {x}]]
<1>1. FundsOf(S) = (CHOOSE f : f = G(f))[S]
  BY DEF FundsOf, MapThenSumSet, MapThenFoldSet
<1>2. ASSUME NEW f PROVE G(f) = Weigh(f, S, w)
  BY DEF Weigh
<1>. HIDE DEF G
<1>3. (CHOOSE f : f = G(f)) = CHOOSE f : f = Weigh(f, S, w)
  BY <1>2
<1>. QED
  BY <1>1, <1>3 DEF SumOver, Sums

LEMMA FundsAreNext ==
    ASSUME NEW S, NEW w, \A c \in S : w[c] = Funds(utxo'[c])
    PROVE  FundsOf(S)' = SumOver(S, w)
<1>. DEFINE G(f) == [s \in SUBSET S |->
                       IF s = {} THEN 0
                       ELSE LET x == CHOOSE x \in s : TRUE IN Funds(utxo'[x]) + f[s \ {x}]]
<1>1. FundsOf(S)' = (CHOOSE f : f = G(f))[S]
  BY DEF FundsOf, MapThenSumSet, MapThenFoldSet
<1>2. ASSUME NEW f PROVE G(f) = Weigh(f, S, w)
  BY DEF Weigh
<1>. HIDE DEF G
<1>3. (CHOOSE f : f = G(f)) = CHOOSE f : f = Weigh(f, S, w)
  BY <1>2
<1>. QED
  BY <1>1, <1>3 DEF SumOver, Sums

\* A channel is what its fate says, or as before.
LEMMA SpendsAre ==
    ASSUME NEW channels, NEW became, NEW paid, Spends(channels, became, paid)
    PROVE  /\ utxo' = [c \in Channel |-> IF c \in channels THEN FateAmong(became, c).state ELSE utxo[c]]
           /\ taken' = [c \in Channel |->
                          IF c \in channels /\ FateAmong(became, c).step \in {"Sub", "Respond", "Unlock"}
                          THEN taken[c] + utxo[c].amount - FateAmong(became, c).state.amount ELSE taken[c]]
           /\ closedAt' = [c \in Channel |->
                             IF c \in channels /\ FateAmong(became, c).step = "Close" THEN now ELSE closedAt[c]]
           /\ pot' = pot - FundsOf(channels) + Total(paid)
           /\ UNCHANGED <<now, layout, absent, revealed>>
  BY DEF Spends, FateAmong

LEMMA SpendsKeepTypes ==
    ASSUME Typed, NEW channels \in SUBSET Live, NEW became, IsFates(channels, became),
           NEW paid, Total(paid) \in Nat, Spends(channels, became, paid)
    PROVE  Typed'
<1>. DEFINE Fate(c) == FateAmong(became, c)
<1>1. /\ utxo' = [c \in Channel |-> IF c \in channels THEN Fate(c).state ELSE utxo[c]]
      /\ taken' = [c \in Channel |->
                     IF c \in channels /\ Fate(c).step \in {"Sub", "Respond", "Unlock"}
                     THEN taken[c] + utxo[c].amount - Fate(c).state.amount ELSE taken[c]]
      /\ closedAt' = [c \in Channel |-> IF c \in channels /\ Fate(c).step = "Close" THEN now ELSE closedAt[c]]
      /\ pot' = pot - FundsOf(channels) + Total(paid)
      /\ UNCHANGED <<now, layout, absent, revealed>>
  BY SpendsAre
<1>2. \A c \in channels : Fate(c).state \in States
        /\ (Fate(c).step \in {"Sub", "Respond", "Unlock"} => Fate(c).state \in Continuing)
  BY FateIs DEF IsFates
<1>. HIDE DEF Fate
<1>3. utxo' \in [Channel -> States]
  BY <1>1, <1>2 DEF Typed
<1>4. \A c \in channels : utxo[c] \in Continuing
  BY DEF Typed, Live, States, Spent
<1>5. \A state \in Continuing : state.amount \in Int
  BY DEF Continuing, Opened, Closed, Responded
<1>6. taken' \in [Channel -> Int]
  <2>1. ASSUME NEW c \in Channel, c \in channels, Fate(c).step \in {"Sub", "Respond", "Unlock"}
        PROVE  taken[c] + utxo[c].amount - Fate(c).state.amount \in Int
    <3>1. taken[c] \in Int /\ utxo[c].amount \in Int /\ Fate(c).state.amount \in Int
      BY <1>2, <1>4, <1>5, <2>1 DEF Typed
    <3>. QED
      BY <3>1
  <2>2. \A c \in Channel : taken[c] \in Int
    BY DEF Typed
  <2>. QED
    BY <1>1, <2>1, <2>2
<1>7. closedAt' \in [Channel -> Nat]
  BY <1>1 DEF Typed
<1>8. FundsOf(channels) \in Nat
  <2>. DEFINE w == [c \in Channel |-> Funds(utxo[c])]
  <2>1. \A c \in Channel : w[c] = Funds(utxo[c]) /\ w[c] \in Nat
    BY FundsOfStates DEF Typed
  <2>2. channels \in SUBSET Channel
    BY DEF Live
  <2>. HIDE DEF w
  <2>3. SumOver(channels, w) \in Nat
    BY <2>1, <2>2, ChannelAssumption, SumType
  <2>. QED
    BY <2>1, <2>2, <2>3, FundsAre
<1>9. pot' \in Int
  BY <1>1, <1>8 DEF Typed
<1>. QED
  BY <1>1, <1>3, <1>6, <1>7, <1>9 DEF Typed

\* What leaves the channels spent is paid to those that continue.
LEMMA SpendsBack ==
    ASSUME Typed, ChannelsAreBacked, NEW channels \in SUBSET Live,
           NEW became, IsFates(channels, became), NEW paid, Total(paid) \in Nat,
           NEW w, \A b \in became : w[b] = Funds(b.state), Total(paid) = SumOver(became, w),
           Spends(channels, became, paid)
    PROVE  ChannelsAreBacked'
<1>. DEFINE Fate(c) == FateAmong(became, c)
            u == [c \in Channel |-> Funds(utxo[c])]
            v == [c \in Channel |-> Funds(utxo'[c])]
            f == [c \in channels |-> Fate(c)]
            same == [c \in Channel |-> c]
            rest == Channel \ channels
<1>1. /\ utxo' = [c \in Channel |-> IF c \in channels THEN Fate(c).state ELSE utxo[c]]
      /\ pot' = pot - FundsOf(channels) + Total(paid)
  BY SpendsAre
<1>2. \A c \in channels : Fate(c) \in became /\ Fate(c).id = c /\ Fate(c).state \in States
  BY FateIs DEF IsFates
<1>3. Image(f, channels) = became
  <2>1. Image(f, channels) \subseteq became
    BY <1>2 DEF Image
  <2>2. ASSUME NEW b \in became PROVE b \in Image(f, channels)
    <3>1. b.id \in channels
      BY DEF IsFates
    <3>2. Fate(b.id) = b
      BY <1>2, <3>1 DEF IsFates
    <3>. QED
      BY <3>1, <3>2 DEF Image
  <2>. QED
    BY <2>1, <2>2
<1>4. \A c \in channels : f[c] = Fate(c)
  OBVIOUS
<1>. HIDE DEF Fate, f
<1>5. channels \in SUBSET Channel /\ IsFiniteSet(channels) /\ IsFiniteSet(rest)
  BY ChannelAssumption, FS_Subset DEF Live
<1>6. \A c \in Channel : u[c] = Funds(utxo[c]) /\ u[c] \in Nat
  BY FundsOfStates DEF Typed
<1>7. \A c \in Channel : v[c] = Funds(utxo'[c])
  OBVIOUS
<1>8. \A c \in channels : v[c] = w[f[c]] /\ v[c] \in Nat
  BY <1>1, <1>2, <1>4, <1>5, FundsOfStates
<1>9. \A c \in rest : v[c] = u[c]
  BY <1>1
<1>10. \A c \in Channel : v[c] \in Nat
  BY <1>6, <1>8, <1>9
<1>. HIDE DEF u, v
<1>11. SumOver(channels, v) = SumOver(became, w)
  <2>1. \A c, d \in channels : f[c] = f[d] => c = d
    BY <1>2, <1>4
  <2>2. SumOver(channels, v) = SumOver(Image(f, channels), w)
    BY <1>5, <1>8, <2>1, SumMoved
  <2>. QED
    BY <1>3, <2>2
<1>12. SumOver(rest, v) = SumOver(rest, u)
  <2>1. Image(same, rest) = rest
    BY DEF Image
  <2>2. \A c \in rest : same[c] = c
    OBVIOUS
  <2>. HIDE DEF same
  <2>3. SumOver(rest, v) = SumOver(Image(same, rest), u)
    BY <1>5, <1>9, <1>10, <2>2, SumMoved
  <2>. QED
    BY <2>1, <2>3
<1>13. SumOver(Channel, v) = SumOver(channels, v) + SumOver(rest, v)
  BY <1>5, <1>10, ChannelAssumption, SumSplits
<1>14. SumOver(Channel, u) = SumOver(channels, u) + SumOver(rest, u)
  BY <1>5, <1>6, ChannelAssumption, SumSplits
<1>15. SumOver(channels, u) \in Nat /\ SumOver(rest, u) \in Nat
  BY <1>5, <1>6, ChannelAssumption, SumType
<1>16. /\ FundsOf(Channel) = SumOver(Channel, u) /\ FundsOf(channels) = SumOver(channels, u)
  BY <1>5, <1>6, FundsAre
<1>17. FundsOf(Channel)' = SumOver(Channel, v)
  BY <1>7, FundsAreNext
<1>18. pot = SumOver(Channel, u)
  BY <1>16 DEF ChannelsAreBacked
<1>19. pot' = SumOver(Channel, v)
  <2>. HIDE DEF rest
  <2>. QED
    BY <1>1, <1>11, <1>12, <1>13, <1>14, <1>15, <1>16, <1>18
<1>. QED
  BY <1>17, <1>19 DEF ChannelsAreBacked

\* What is spent together: live channels, each once, and perhaps a stray.
LEMMA OrdersAre ==
    ASSUME NEW refs \in Orders
    PROVE  /\ refs \in Seq(Channel \cup {Stray}) /\ Range(refs) \ {Stray} \in SUBSET Live
           /\ \A m, n \in DOMAIN refs : refs[m] = refs[n] => m = n
<1>1. PICK n \in 1..MaxInputs : refs \in [1..n -> Live \cup {Stray}]
  BY DEF Orders
<1>2. IsInjective(refs)
  BY DEF Orders
<1>3. n \in Nat /\ Live \subseteq Channel
  BY <1>1, BoundsAssumption DEF Live
<1>4. refs \in Seq(Channel \cup {Stray})
  BY <1>1, <1>3
<1>5. Range(refs) \ {Stray} \in SUBSET Live
  BY <1>1 DEF Range
<1>6. \A k, m \in DOMAIN refs : refs[k] = refs[m] => k = m
  BY <1>2 DEF IsInjective
<1>. QED
  BY <1>4, <1>5, <1>6

LEMMA InputsAre ==
    ASSUME NEW refs \in Orders
    PROVE  LET inputs == [n \in DOMAIN refs |-> InputOf(refs[n])]
           IN  /\ inputs \in Seq(Inputs) /\ OnceEach(inputs) /\ DOMAIN inputs = DOMAIN refs
               /\ \A n \in DOMAIN refs :
                     /\ inputs[n].own <=> refs[n] # Stray
                     /\ inputs[n].own => inputs[n].id = refs[n]
<1>. DEFINE inputs == [n \in DOMAIN refs |-> InputOf(refs[n])]
<1>1. refs \in Seq(Channel \cup {Stray}) /\ \A m, n \in DOMAIN refs : refs[m] = refs[n] => m = n
  BY OrdersAre
<1>2. DOMAIN refs = 1..Len(refs) /\ Len(refs) \in Nat
      /\ \A n \in DOMAIN refs : refs[n] \in Channel \cup {Stray}
  BY <1>1
<1>3. \A n \in DOMAIN refs : inputs[n] \in Inputs
  BY <1>2 DEF Inputs
<1>4. \A n \in DOMAIN refs : (inputs[n].own <=> refs[n] # Stray) /\ (inputs[n].own => inputs[n].id = refs[n])
  BY DEF InputOf
<1>5. DOMAIN inputs = DOMAIN refs
  OBVIOUS
<1>. HIDE DEF inputs
<1>6. OnceEach(inputs)
  BY <1>1, <1>4, <1>5 DEF OnceEach
<1>7. inputs \in Seq(Inputs)
  <2>1. inputs = [n \in 1..Len(refs) |-> inputs[n]]
    BY <1>2 DEF inputs
  <2>. QED
    BY <1>2, <1>3, <2>1
<1>. QED
  BY <1>4, <1>5, <1>6, <1>7 DEF inputs

\* What a Main makes of the channels it walks.
MainMakes(channels, became, paid) ==
    /\ Fated(became) /\ IsFates(channels, became)
    /\ Total(paid) \in Nat /\ Total(paid) = SumOver(became, [b \in Fates |-> Funds(b.state)])
    /\ Spends(channels, became, paid)

LEMMA MainSpends ==
    ASSUME Typed, NEW each \in MovesOfEach, NEW refs \in Orders, NEW redeemers,
           SpendMain(refs, redeemers, each)
    PROVE  \E became, paid : MainMakes(Range(refs) \ {Stray}, became, paid)
<1>. DEFINE inputs == [n \in DOMAIN refs |-> InputOf(refs[n])]
            channels == Range(refs) \ {Stray}
<1>1. PICK moves \in MovesOf(refs, each) :
          \E steps \in Parts(StepsOf(moves)), outputs \in Arranged(OutputsOf(moves)) :
              MainHolds(Walk(inputs, outputs, steps))
              /\ Spends(channels, Walk(inputs, outputs, steps).became, Walk(inputs, outputs, steps).paid)
  BY DEF SpendMain
<1>2. PICK steps \in Parts(StepsOf(moves)), outputs \in Arranged(OutputsOf(moves)) :
          MainHolds(Walk(inputs, outputs, steps))
          /\ Spends(channels, Walk(inputs, outputs, steps).became, Walk(inputs, outputs, steps).paid)
  BY <1>1
<1>3. moves \in Seq(AllMoves)
  BY OrdersAre, MovesOfAre
<1>4. steps \in Seq(Steps) /\ outputs \in Seq(Outs)
  BY <1>3, StepsOfAre, OutputsOfAre
<1>5. /\ inputs \in Seq(Inputs) /\ OnceEach(inputs) /\ DOMAIN inputs = DOMAIN refs
      /\ \A n \in DOMAIN refs : (inputs[n].own <=> refs[n] # Stray) /\ (inputs[n].own => inputs[n].id = refs[n])
  BY InputsAre
<1>. HIDE DEF inputs
<1>. DEFINE walk == Walk(inputs, outputs, steps)
            w == [b \in Fates |-> Funds(b.state)]
<1>6. /\ Fated(walk.became) /\ PaidFor(walk.became, walk.paid, Len(walk.outputs))
      /\ \A n \in DOMAIN inputs : inputs[n].own /\ \E b \in walk.became : b.id = inputs[n].id
      /\ \A b \in walk.became : \E n \in DOMAIN inputs : inputs[n].own /\ b.id = inputs[n].id
  BY <1>2, <1>4, <1>5, MainDecides
<1>7. Spends(channels, walk.became, walk.paid)
  BY <1>2
<1>. HIDE DEF walk
<1>8. IsFates(channels, walk.became)
  <2>1. \A a, b \in walk.became : a.id = b.id => a = b
    BY <1>6 DEF Fated
  <2>2. \A c \in channels : \E b \in walk.became : b.id = c
    BY <1>5, <1>6 DEF Range
  <2>3. ASSUME NEW b \in walk.became
        PROVE  b.id \in channels /\ b.state \in States
               /\ (b.step \in {"Sub", "Respond", "Unlock"} => b.state \in Continuing)
    <3>1. b.id \in channels
      BY <1>5, <1>6 DEF Range
    <3>2. PICK step \in Steps : Decides(step, b)
      BY <1>6 DEF Fated
    <3>3. b.step \in {"Sub", "Respond", "Unlock"} => b.state \in Continuing
      BY <3>2 DEF Decides, Ends
    <3>4. b.state \in States
      BY <1>6 DEF Fated, Fates
    <3>. QED
      BY <3>1, <3>3, <3>4
  <2>. QED
    BY <2>1, <2>2, <2>3 DEF IsFates
<1>9. Total(walk.paid) \in Nat /\ Total(walk.paid) = SumOver(walk.became, w)
  <2>. DEFINE v == [q \in Payments |-> q.amount]
  <2>1. IsFiniteSet(walk.paid) /\ walk.paid \in SUBSET Payments /\ Total(walk.paid) = SumOver(walk.became, w)
    BY <1>6 DEF PaidFor
  <2>2. \A q \in walk.paid : v[q] = q.amount /\ v[q] \in Nat
    BY <2>1 DEF Payments
  <2>. HIDE DEF v, w
  <2>3. Total(walk.paid) = SumOver(walk.paid, v) /\ SumOver(walk.paid, v) \in Nat
    BY <2>1, <2>2, TotalIsSum, SumType
  <2>. QED
    BY <2>1, <2>3
<1>. QED
  BY <1>6, <1>7, <1>8, <1>9 DEF MainMakes

\* Without a Main the channels are spent for good, by what the redeemer said.
HowSpent(refs, redeemers, c) ==
    IF \E n \in DOMAIN refs : refs[n] = c /\ redeemers[n] = "Mutual" THEN "Mutual" ELSE "Defer"
Aside(refs, redeemers) ==
    {[id |-> c, step |-> HowSpent(refs, redeemers, c),
      state |-> [stage |-> "Spent", by |-> HowSpent(refs, redeemers, c)]] : c \in Range(refs) \ {Stray}}

LEMMA AsideSpends ==
    ASSUME NEW refs, NEW redeemers, SpendAside(refs, redeemers)
    PROVE  LET channels == Range(refs) \ {Stray}
               became == Aside(refs, redeemers)
           IN  /\ Spends(channels, became, {}) /\ IsFates(channels, became)
               /\ \A c \in channels : FateAmong(became, c).state = [stage |-> "Spent", by |-> HowSpent(refs, redeemers, c)]
                                      /\ FateAmong(became, c).step = HowSpent(refs, redeemers, c)
<1>. DEFINE channels == Range(refs) \ {Stray}
            became == Aside(refs, redeemers)
<1>1. Spends(channels, became, {})
  BY DEF SpendAside, Aside, HowSpent
<1>a. \A c \in channels : HowSpent(refs, redeemers, c) \in {"Mutual", "Defer"}
  BY DEF HowSpent
<1>b. \A b \in became : /\ b.id \in channels /\ b.step = HowSpent(refs, redeemers, b.id)
                          /\ b.state = [stage |-> "Spent", by |-> HowSpent(refs, redeemers, b.id)]
  BY DEF Aside
<1>c. \A c \in channels : \E b \in became : b.id = c
  <2>. TAKE c \in channels
  <2>. DEFINE b == [id |-> c, step |-> HowSpent(refs, redeemers, c),
                    state |-> [stage |-> "Spent", by |-> HowSpent(refs, redeemers, c)]]
  <2>1. b \in became /\ b.id = c
    BY DEF Aside
  <2>. QED
    BY <2>1
<1>d. \A a, b \in became : a.id = b.id => a = b
  BY DEF Aside
<1>. HIDE DEF channels, became
<1>2. IsFates(channels, became)
  <2>1. ASSUME NEW b \in became
        PROVE  b.id \in channels /\ b.state \in States /\ b.step \notin {"Sub", "Respond", "Unlock"}
    <3>1. b.step \in {"Mutual", "Defer"} /\ b.state = [stage |-> "Spent", by |-> b.step] /\ b.id \in channels
      BY <1>a, <1>b
    <3>. QED
      BY <3>1 DEF States, Spent
  <2>. QED
    BY <1>c, <1>d, <2>1 DEF IsFates
<1>3. ASSUME NEW c \in channels
      PROVE  FateAmong(became, c).state = [stage |-> "Spent", by |-> HowSpent(refs, redeemers, c)]
             /\ FateAmong(became, c).step = HowSpent(refs, redeemers, c)
  <2>1. FateAmong(became, c) \in became /\ FateAmong(became, c).id = c
    BY <1>2, FateIs
  <2>. QED
    BY <1>b, <2>1
<1>. QED
  BY <1>1, <1>2, <1>3 DEF channels, became

-----------------------------------------------------------------------------
(* The channels are backed.                                                *)

LEMMA BackedInitially == Init => Typed /\ ChannelsAreBacked
<1>. SUFFICES ASSUME Init PROVE Typed /\ ChannelsAreBacked
  OBVIOUS
<1>1. utxo \in [Channel -> States]
  <2>1. utxo \in [Channel -> [stage : {"Opened"}, amount : {MaxAmount}, subbed : {0}, useds : {<<>>}]]
    BY DEF Init
  <2>2. [stage : {"Opened"}, amount : {MaxAmount}, subbed : {0}, useds : {<<>>}] \subseteq Opened
    <3>1. <<>> \in Seq(Used) /\ MaxAmount \in Nat
      BY BoundsAssumption
    <3>2. ASSUME NEW state \in [stage : {"Opened"}, amount : {MaxAmount}, subbed : {0}, useds : {<<>>}]
          PROVE  state \in Opened
      <4>1. state = [stage |-> "Opened", amount |-> MaxAmount, subbed |-> 0, useds |-> <<>>]
        OBVIOUS
      <4>. QED
        BY <3>1, <4>1 DEF Opened
    <3>. QED
      BY <3>2
  <2>. QED
    BY <2>1, <2>2 DEF States, Continuing
<1>2. FundsOf(Channel) \in Nat
  <2>. DEFINE w == [c \in Channel |-> Funds(utxo[c])]
  <2>1. \A c \in Channel : w[c] = Funds(utxo[c]) /\ w[c] \in Nat
    BY <1>1, FundsOfStates
  <2>. HIDE DEF w
  <2>2. SumOver(Channel, w) \in Nat
    BY <2>1, ChannelAssumption, SumType
  <2>. QED
    BY <2>1, <2>2, FundsAre
<1>3. now \in Nat /\ layout \in Layouts /\ pot \in Int /\ ChannelsAreBacked
  BY <1>2 DEF Init, ChannelsAreBacked
<1>4. taken \in [Channel -> Int] /\ closedAt \in [Channel -> Nat]
  BY DEF Init
<1>. QED
  BY <1>1, <1>3, <1>4 DEF Typed

\* The steps of the ledger, with what a Main makes.
Transacts ==
    \/ \E refs \in Orders : \E redeemers \in RedeemersOf(refs) : SpendAside(refs, redeemers)
    \/ \E refs \in Orders : \E became, paid : MainMakes(Range(refs) \ {Stray}, became, paid)

LEMMA NextIs ==
    ASSUME Typed, Next
    PROVE  Tick \/ (\E secret : Reveal(secret)) \/ Transacts
<1>1. CASE \E c \in Channel : \E cheque \in Cheques(c) : Reveal(cheque.latch[2])
  BY <1>1
<1>2. ASSUME NEW each \in MovesOfEach, NEW refs \in Orders, NEW redeemers, SpendMain(refs, redeemers, each)
      PROVE  Transacts
  BY <1>2, MainSpends DEF Transacts
<1>3. ASSUME NEW refs \in Orders, NEW redeemers \in RedeemersOf(refs), SpendAside(refs, redeemers)
      PROVE  Transacts
  BY <1>3 DEF Transacts
<1>. QED
  BY <1>1, <1>2, <1>3 DEF Next

LEMMA BackedByStep == Typed /\ [Next]_vars => Typed' /\ (ChannelsAreBacked => ChannelsAreBacked')
<1>. SUFFICES ASSUME Typed, [Next]_vars PROVE Typed' /\ (ChannelsAreBacked => ChannelsAreBacked')
  OBVIOUS
<1>1. ASSUME utxo' = utxo, pot' = pot PROVE ChannelsAreBacked => ChannelsAreBacked'
  <2>. DEFINE w == [c \in Channel |-> Funds(utxo[c])]
  <2>1. \A c \in Channel : w[c] = Funds(utxo[c]) /\ w[c] = Funds(utxo'[c])
    BY <1>1
  <2>. HIDE DEF w
  <2>2. FundsOf(Channel) = SumOver(Channel, w) /\ FundsOf(Channel)' = SumOver(Channel, w)
    BY <2>1, FundsAre, FundsAreNext
  <2>. QED
    BY <1>1, <2>2 DEF ChannelsAreBacked
<1>2. CASE UNCHANGED vars
  BY <1>1, <1>2 DEF vars, Typed
<1>3. CASE Tick
  BY <1>1, <1>3 DEF Tick, Typed
<1>4. CASE \E secret : Reveal(secret)
  BY <1>1, <1>4 DEF Reveal, Typed
<1>5. ASSUME NEW refs \in Orders, NEW redeemers \in RedeemersOf(refs), SpendAside(refs, redeemers)
      PROVE  Typed' /\ (ChannelsAreBacked => ChannelsAreBacked')
  <2>. DEFINE channels == Range(refs) \ {Stray}
              became == Aside(refs, redeemers)
              w == [b \in became |-> 0]
  <2>1. Spends(channels, became, {}) /\ IsFates(channels, became)
    BY <1>5, AsideSpends
  <2>2. \A b \in became : w[b] = Funds(b.state) /\ w[b] = 0
    BY DEF Aside, Funds
  <2>3. channels \in SUBSET Live
    BY OrdersAre
  <2>4. Total({}) = 0
    BY FS_EmptySet, SumPicks, TotalIsSum
  <2>. HIDE DEF w
  <2>5. SumOver(became, w) = 0
    <3>1. IsFiniteSet(channels)
      BY <2>3, ChannelAssumption, FS_Subset DEF Live
    <3>2. IsFiniteSet(became)
      <4>. DEFINE Fate(c) == [id |-> c, step |-> HowSpent(refs, redeemers, c),
                              state |-> [stage |-> "Spent", by |-> HowSpent(refs, redeemers, c)]]
                  fate == [c \in channels |-> Fate(c)]
      <4>1. became = {Fate(c) : c \in channels}
        BY DEF Aside
      <4>. HIDE DEF Fate, channels, became
      <4>2. fate \in Surjection(channels, became)
        BY <4>1 DEF Surjection
      <4>. HIDE DEF fate
      <4>. QED
        BY <3>1, <4>2, FS_Surjection
    <3>. HIDE DEF became
    <3>. QED
      BY <2>2, <3>2, SumOfNone
  <2>. HIDE DEF became, channels
  <2>. QED
    BY <2>1, <2>2, <2>3, <2>4, <2>5, SpendsKeepTypes, SpendsBack
<1>6. ASSUME NEW refs \in Orders, NEW became, NEW paid, MainMakes(Range(refs) \ {Stray}, became, paid)
      PROVE  Typed' /\ (ChannelsAreBacked => ChannelsAreBacked')
  <2>. DEFINE channels == Range(refs) \ {Stray}
              w == [b \in Fates |-> Funds(b.state)]
  <2>1. /\ IsFates(channels, became) /\ Spends(channels, became, paid)
        /\ Total(paid) \in Nat /\ Total(paid) = SumOver(became, w)
        /\ \A b \in became : w[b] = Funds(b.state)
    BY <1>6 DEF MainMakes, Fated
  <2>2. channels \in SUBSET Live
    BY OrdersAre
  <2>. HIDE DEF channels, w
  <2>. QED
    BY <2>1, <2>2, SpendsKeepTypes, SpendsBack
<1>. QED
  BY <1>2, <1>3, <1>4, <1>5, <1>6, NextIs DEF Transacts

\* The ledger holds what the channels are worth together: no output of a
\* transaction continues two channels, also when their tags are the same
\* (the walk of spend/main.ak over all inputs).
THEOREM StaysBacked == Spec => []ChannelsAreBacked
<1>1. Init => Typed /\ ChannelsAreBacked
  BY BackedInitially
<1>2. Typed /\ [Next]_vars => Typed' /\ (ChannelsAreBacked => ChannelsAreBacked')
  BY BackedByStep
<1>. QED
  BY <1>1, <1>2, PTL DEF Spec

-----------------------------------------------------------------------------
(* What is known of a channel stays true, whatever is done with the others *)
(* beside it.                                                              *)

LEMMA StagesAre ==
    ASSUME NEW state \in States
    PROVE  /\ state.stage = "Opened" => state \in Opened
           /\ state.stage = "Closed" => state \in Closed
           /\ state.stage = "Responded" => state \in Responded
           /\ state.stage = "Spent" => state \in Spent
           /\ state.stage \in {"Opened", "Closed", "Responded", "Spent"}
  BY DEF States, Continuing, Opened, Closed, Responded, Spent

\* Nothing signed as a squash is a cheque.
LEMMA SquashIsNoCheque ==
    ASSUME NEW d, IsOffer(d), NEW S
    PROVE  d # SquashOf(S)
<1>1. "timeout" \in DOMAIN d
  BY DEF IsOffer
<1>2. "timeout" \notin DOMAIN SquashOf(S)
  BY DEF SquashOf
<1>. QED
  BY <1>1, <1>2

\* A squash that the script takes covers earned cheques.
LEMMA SquashIsEarned ==
    ASSUME Typed, NEW c \in Channel, NEW other \in Channel,
           NEW squash \in Squashes(other), squash \in Signed(c)
    PROVE  \E S \in SUBSET Unlocked(c) : squash = SquashOf(S)
<1>1. PICK T : squash = SquashOf(T)
  BY DEF Squashes
<1>2. squash \notin Cheques(c)
  BY <1>1, ChequesAre, SquashIsNoCheque
<1>. QED
  BY <1>2 DEF Signed, Squashes

\* A secret that is shown with a cheque unlocks it, under whatever tag it was.
LEMMA ShownIsEarned ==
    ASSUME Typed, NEW c \in Channel
    PROVE  VouchedFor(Signed(c), now, Unlocked(c), Shown)
<1>. SUFFICES ASSUME NEW u \in Shown, NEW used, Vouches(Signed(c), now, u, used)
              PROVE  used \in UsedsOf(Unlocked(c))
  BY DEF VouchedFor
<1>0. PICK k \in Known : u = WithSecret(k)
  BY DEF Shown
<1>1. PICK other \in Channel : k \in Unlocked(other)
  BY DEF Known
<1>2. IsOffer(k) /\ k.latch[2] \in revealed
  BY <1>1, ChequesAre DEF Unlocked
<1>3. LockedForm(u) = k
  <2>1. k = [index |-> k.index, amount |-> k.amount, timeout |-> k.timeout, latch |-> Sha2(k.latch[2])]
    BY <1>2 DEF IsOffer
  <2>2. u = [index |-> k.index, amount |-> k.amount, timeout |-> k.timeout, latch |-> k.latch[2]]
    BY <1>0, <2>1 DEF WithSecret
  <2>3. LockedForm(u) = [index |-> k.index, amount |-> k.amount, timeout |-> k.timeout, latch |-> Sha2(k.latch[2])]
    BY <2>2 DEF LockedForm
  <2>. QED
    BY <2>1, <2>3
<1>4. UsedOf(u) = UsedOf(k)
  BY <1>0, <1>2 DEF UsedOf, WithSecret, IsOffer
<1>5. k \in Signed(c) /\ used = UsedOf(k)
  BY <1>3, <1>4 DEF Vouches
<1>6. k \in Cheques(c)
  BY <1>2, <1>5, SquashIsNoCheque DEF Signed, Squashes
<1>7. k \in Unlocked(c)
  BY <1>2, <1>6 DEF Unlocked
<1>. QED
  BY <1>5, <1>7 DEF UsedsOf

\* A channel whose fate was decided.
Moved(c, fate) ==
    /\ utxo'[c] = fate.state
    /\ taken'[c] = IF fate.step \in {"Sub", "Respond", "Unlock"}
                   THEN taken[c] + utxo[c].amount - fate.state.amount ELSE taken[c]
    /\ closedAt'[c] = IF fate.step = "Close" THEN now ELSE closedAt[c]
    /\ now' = now /\ Unlocked(c)' = Unlocked(c)

\* The promise to a channel is kept by the step, and so is what is known of it.
Keeps(c) == ChannelHolds(c)' /\ PromiseOf(c)!Next

LEMMA AddKeeps ==
    ASSUME Typed, NEW c \in Channel, ChannelHolds(c), NEW fate, fate.id = c, Moved(c, fate),
           NEW step \in Steps, Decides(step, fate), fate.step = "Add"
    PROVE  Keeps(c)
<1>. DEFINE in == utxo[c]
            out == utxo'[c]
<1>1. AddStep(in, out)
  BY DEF Moved, Decides, StepHolds
<1>2. in.stage = "Opened" /\ in \in Opened
  BY <1>1, StagesAre DEF AddStep, Typed
<1>3. out = [in EXCEPT !.amount = out.amount] /\ in.amount < out.amount
  BY <1>1 DEF AddStep
<1>4. out.stage = "Opened" /\ out.subbed = in.subbed /\ out.useds = in.useds
  <2>. HIDE DEF in, out
  <2>. QED
    BY <1>2, <1>3 DEF Opened
<1>5. taken'[c] = taken[c] /\ closedAt'[c] = closedAt[c] /\ now' = now /\ Unlocked(c)' = Unlocked(c)
  BY DEF Moved
<1>6. out \in Continuing
  BY DEF Moved, Decides, Ends
<1>7. out.amount > in.amount
  <2>1. in.amount \in Nat /\ out.amount \in Nat
    BY <1>2, <1>6 DEF Continuing, Opened, Closed, Responded
  <2>. QED
    BY <1>3, <2>1
<1>8. ChannelHolds(c)'
  BY <1>2, <1>4, <1>5 DEF ChannelHolds
<1>. QED
  BY <1>2, <1>4, <1>5, <1>7, <1>8, OpenedMaps
     DEF Keeps, PromiseOf!Next, PromiseOf!Deposit, PromiseOf!Gives

LEMMA SubKeeps ==
    ASSUME Typed, NEW c \in Channel, ChannelHolds(c), NEW fate, fate.id = c, Moved(c, fate),
           NEW step \in Steps, IsStep(step), Decides(step, fate), fate.step = "Sub"
    PROVE  Keeps(c)
<1>. DEFINE in == utxo[c]
            out == utxo'[c]
            E == Unlocked(c)
            account == SubAccount(Signed(c), now, in.useds, out.useds, step.squash, step.unlockeds)
<1>1. step.step = "Sub" /\ SubStep(Signed(c), now, in, out, step.squash, step.unlockeds)
  BY DEF Moved, Decides, StepHolds
<1>2. /\ in.stage = "Opened" /\ out.stage = "Opened"
      /\ out.subbed - in.subbed = in.amount - out.amount
      /\ account.ok /\ out.subbed <= account.owed
  BY <1>1 DEF SubStep, RecordsWithdrawal
<1>3. in \in Opened /\ out \in Opened
  <2>1. out \in Continuing
    BY <1>1 DEF Moved, Decides, Ends
  <2>. QED
    BY <1>2, <2>1, StagesAre DEF Typed, States
<1>4. /\ taken'[c] = taken[c] + in.amount - out.amount
      /\ closedAt'[c] = closedAt[c] /\ now' = now /\ E' = E
  BY DEF Moved
<1>5. in.useds \in Seq(UsedsOf(E)) /\ in.subbed = taken[c]
  BY <1>2 DEF ChannelHolds
<1>6. PICK S \in SUBSET E : step.squash = SquashOf(S)
  <2>1. step.squash \in Signed(c)
    <3>1. out.useds \in Seq(Used)
      BY <1>3 DEF Opened
    <3>. HIDE DEF in, out
    <3>. QED
      BY <1>2, <3>1, SubNeedsSquash
  <2>. QED
    BY <1>1, <2>1, SquashIsEarned DEF IsStep
<1>7. account.owed \in 0..Total(E) /\ out.useds \in Seq(UsedsOf(E))
  <2>1. out.useds \in Seq([index : Nat, amount : Nat]) /\ Distinct(E)
    BY <1>3, ChequesAre DEF Opened, Used
  <2>2. step.unlockeds \in Seq(Shown)
    BY <1>1 DEF IsStep
  <2>3. VouchedFor(Signed(c), now, E, Shown)
    BY ShownIsEarned
  <2>. HIDE DEF in, out, E
  <2>. QED
    BY <1>2, <1>5, <1>6, <2>1, <2>2, <2>3, SubOwesEarned
<1>8. out.subbed = taken'[c]
  <2>1. in.amount \in Nat /\ out.amount \in Nat /\ in.subbed \in Nat /\ out.subbed \in Nat
    BY <1>3 DEF Opened
  <2>. HIDE DEF in, out
  <2>. QED
    BY <1>2, <1>4, <1>5, <2>1
<1>9. taken'[c] <= Total(E)
  <2>1. out.subbed \in Nat /\ Total(E) \in Nat
    BY <1>3, ChequesAre, TotalAdds DEF Opened
  <2>. HIDE DEF in, out, account, E
  <2>. QED
    BY <1>2, <1>7, <1>8, <2>1
<1>10. ChannelHolds(c)'
  BY <1>2, <1>4, <1>7, <1>8 DEF ChannelHolds
<1>. QED
  BY <1>2, <1>4, <1>9, <1>10, OpenedMaps
     DEF Keeps, PromiseOf!Next, PromiseOf!Withdraw, PromiseOf!Takes

LEMMA CloseKeeps ==
    ASSUME Typed, NEW c \in Channel, ChannelHolds(c), NEW fate, fate.id = c, Moved(c, fate),
           NEW step \in Steps, Decides(step, fate), fate.step = "Close"
    PROVE  Keeps(c)
<1>. DEFINE in == utxo[c]
            out == utxo'[c]
<1>1. CloseStep(now, in, out)
  BY DEF Moved, Decides, StepHolds
<1>2. /\ in.stage = "Opened" /\ out.stage = "Closed"
      /\ out.subbed = in.subbed /\ out.useds = in.useds
      /\ in.amount <= out.amount /\ now <= out.elapseAt - ClosePeriod
  BY <1>1 DEF CloseStep, LeavesPeriod
<1>3. in \in Opened /\ out \in Closed
  <2>1. out \in Continuing
    BY DEF Moved, Decides, Ends
  <2>. QED
    BY <1>2, <2>1, StagesAre DEF Typed, States
<1>4. taken'[c] = taken[c] /\ closedAt'[c] = now /\ now' = now /\ Unlocked(c)' = Unlocked(c)
  BY DEF Moved
<1>5. out.amount >= in.amount /\ out.elapseAt >= now + ClosePeriod
  <2>1. in.amount \in Nat /\ out.amount \in Nat /\ out.elapseAt \in Nat /\ now \in Nat
    BY <1>3 DEF Opened, Closed, Typed
  <2>. HIDE DEF in, out
  <2>. QED
    BY <1>2, <2>1, ClosePeriodAssumption
<1>6. ChannelHolds(c)'
  BY <1>2, <1>4, <1>5 DEF ChannelHolds
<1>. QED
  BY <1>2, <1>4, <1>5, <1>6, OpenedMaps, ClosedMaps
     DEF Keeps, PromiseOf!Next, PromiseOf!Close, PromiseOf!Gives

LEMMA RespondKeeps ==
    ASSUME Typed, NEW c \in Channel, ChannelHolds(c), NEW fate, fate.id = c, Moved(c, fate),
           NEW step \in Steps, Decides(step, fate), fate.step = "Respond"
    PROVE  Keeps(c)
<1>. DEFINE in == utxo[c]
            out == utxo'[c]
<1>1. RespondStep(Signed(c), now, in, out, step.squash, step.cheques)
  BY DEF Moved, Decides, StepHolds
<1>2. in.stage = "Closed" /\ out.stage = "Responded"
  BY <1>1 DEF RespondStep
<1>3. /\ taken'[c] = taken[c] + in.amount - out.amount
      /\ closedAt'[c] = closedAt[c] /\ now' = now /\ Unlocked(c)' = Unlocked(c)
  BY DEF Moved
<1>4. ChannelHolds(c)'
  BY <1>2 DEF ChannelHolds
<1>. QED
  BY <1>2, <1>3, <1>4, ClosedMaps, RespondedMaps
     DEF Keeps, PromiseOf!Next, PromiseOf!Answer, PromiseOf!Takes

LEMMA UnlockKeeps ==
    ASSUME Typed, NEW c \in Channel, ChannelHolds(c), NEW fate, fate.id = c, Moved(c, fate),
           NEW step \in Steps, IsStep(step), Decides(step, fate), fate.step = "Unlock"
    PROVE  Keeps(c)
<1>. DEFINE in == utxo[c]
            out == utxo'[c]
            account == UnlockAccount(now, step.unpends, in.pends, out.pends)
<1>1. step.step = "Unlock" /\ UnlockStep(now, in, out, step.unpends)
  BY DEF Moved, Decides, StepHolds
<1>2. /\ in.stage = "Responded" /\ out.stage = "Responded"
      /\ account.ok /\ account.total = in.pendsAmount - out.pendsAmount
      /\ account.total >= in.amount - out.amount
  BY <1>1 DEF UnlockStep
<1>3. in \in Responded /\ out \in Responded
  <2>1. out \in Continuing
    BY <1>1 DEF Moved, Decides, Ends
  <2>. QED
    BY <1>2, <2>1, StagesAre DEF Typed, States
<1>4. /\ taken'[c] = taken[c] + in.amount - out.amount
      /\ closedAt'[c] = closedAt[c] /\ now' = now /\ Unlocked(c)' = Unlocked(c)
  BY DEF Moved
<1>5. Waits(out) \subseteq Waits(in)
  <2>1. in.pends \in Seq(Pend) /\ out.pends \in Seq(Pend)
    BY <1>3 DEF Responded
  <2>2. step.unpends \in Seq({Keep} \cup revealed)
    BY <1>1 DEF IsStep
  <2>. HIDE DEF in, out
  <2>3. \A p : Count(out.pends, p) <= Count(in.pends, p)
    BY <1>2, <2>1, <2>2, PendingsHaveAmounts, UnlockSettlesOneByOne
  <2>. QED
    BY <1>2, <2>1, <2>3, FewerWait
<1>6. in.amount - out.amount <= in.pendsAmount - out.pendsAmount
  <2>1. in.amount \in Nat /\ out.amount \in Nat /\ in.pendsAmount \in Nat /\ out.pendsAmount \in Nat
    BY <1>3 DEF Responded
  <2>. HIDE DEF in, out, account
  <2>. QED
    BY <1>2, <2>1
<1>7. ChannelHolds(c)'
  BY <1>2 DEF ChannelHolds
<1>. QED
  BY <1>2, <1>4, <1>5, <1>6, <1>7, RespondedMaps
     DEF Keeps, PromiseOf!Next, PromiseOf!Settle, PromiseOf!Takes

LEMMA ExpireKeeps ==
    ASSUME Typed, NEW c \in Channel, ChannelHolds(c), NEW fate, fate.id = c, Moved(c, fate),
           NEW step \in Steps, IsStep(step), Decides(step, fate), fate.step = "Expire"
    PROVE  Keeps(c)
<1>. DEFINE in == utxo[c]
            out == utxo'[c]
<1>1. step.step = "Expire" /\ ExpireStep(now, in, out, step.unpends)
  BY DEF Moved, Decides, StepHolds
<1>2. /\ in.stage = "Responded" /\ out.stage = "Responded"
      /\ ExpireAccount(now, step.unpends, in.pends, out.pends).ok
      /\ out.amount >= out.pendsAmount + MinAdaBuffer
  BY <1>1 DEF ExpireStep, CoversPendings
<1>3. in \in Responded /\ out \in Responded
  <2>1. out \in Continuing
    BY <1>1 DEF Moved, Decides, Ends
  <2>. QED
    BY <1>2, <2>1, StagesAre DEF Typed, States
<1>4. taken'[c] = taken[c] /\ closedAt'[c] = closedAt[c] /\ now' = now /\ Unlocked(c)' = Unlocked(c)
  BY DEF Moved
<1>5. Waits(out) \subseteq Waits(in)
  <2>1. in.pends \in Seq(Pend) /\ out.pends \in Seq(Pend)
    BY <1>3 DEF Responded
  <2>2. step.unpends \in Seq({Keep, Expired})
    BY <1>1 DEF IsStep
  <2>. HIDE DEF in, out
  <2>3. \A p : Count(out.pends, p) <= Count(in.pends, p)
    BY <1>2, <2>1, <2>2, PendingsHaveAmounts, ExpireSettlesOneByOne
  <2>. QED
    BY <1>2, <2>1, <2>3, FewerWait
<1>6. ChannelHolds(c)'
  BY <1>2 DEF ChannelHolds
<1>. QED
  BY <1>2, <1>4, <1>5, <1>6, RespondedMaps
     DEF Keeps, PromiseOf!Next, PromiseOf!Drop, PromiseOf!Gives

\* A channel that is spent for good keeps nothing but its promise.
LEMMA SpentHolds ==
    ASSUME NEW c \in Channel, utxo'[c].stage = "Spent"
    PROVE  ChannelHolds(c)'
  BY DEF ChannelHolds

LEMMA ElapseKeeps ==
    ASSUME Typed, NEW c \in Channel, ChannelHolds(c), NEW fate, fate.id = c, Moved(c, fate),
           NEW step \in Steps, Decides(step, fate), fate.step = "Elapse"
    PROVE  Keeps(c)
<1>. DEFINE in == utxo[c]
            out == utxo'[c]
<1>1. ElapseStep(now, in) /\ out = [stage |-> "Spent", by |-> "Elapse"]
  BY DEF Moved, Decides, StepHolds, Ends
<1>2. in.stage = "Closed" /\ in.elapseAt <= now /\ in \in Closed
  BY <1>1, StagesAre DEF ElapseStep, Typed
<1>3. taken'[c] = taken[c] /\ closedAt'[c] = closedAt[c] /\ now' = now /\ Unlocked(c)' = Unlocked(c)
  BY DEF Moved
<1>4. now >= closedAt[c] + ClosePeriod
  <2>1. in.elapseAt \in Nat /\ now \in Nat /\ closedAt[c] \in Nat
    BY <1>2 DEF Closed, Typed
  <2>2. in.elapseAt >= closedAt[c] + ClosePeriod
    BY <1>2 DEF ChannelHolds
  <2>. HIDE DEF in
  <2>. QED
    BY <1>2, <2>1, <2>2, ClosePeriodAssumption
<1>5. Phase(out) = "reclaimed"
  BY <1>1, SpentMaps
<1>6. ChannelHolds(c)'
  BY <1>1, SpentHolds
<1>. QED
  BY <1>2, <1>3, <1>4, <1>5, <1>6, ClosedMaps
     DEF Keeps, PromiseOf!Next, PromiseOf!Reclaim, PromiseOf!Ends, PromiseOf!Gives

LEMMA EndKeeps ==
    ASSUME Typed, NEW c \in Channel, ChannelHolds(c), NEW fate, fate.id = c, Moved(c, fate),
           NEW step \in Steps, Decides(step, fate), fate.step = "End"
    PROVE  Keeps(c)
<1>. DEFINE in == utxo[c]
            out == utxo'[c]
<1>1. EndStep(now, in) /\ out = [stage |-> "Spent", by |-> "End"]
  BY DEF Moved, Decides, StepHolds, Ends
<1>2. in.stage = "Responded" /\ \A n \in DOMAIN in.pends : in.pends[n].timeout <= now
  BY <1>1 DEF EndStep
<1>3. taken'[c] = taken[c] /\ closedAt'[c] = closedAt[c] /\ now' = now /\ Unlocked(c)' = Unlocked(c)
  BY DEF Moved
<1>4. \A t \in Waits(in) : t <= now
  BY <1>2, RespondedMaps DEF Entries
<1>5. Phase(out) = "finished"
  BY <1>1, SpentMaps
<1>6. ChannelHolds(c)'
  BY <1>1, SpentHolds
<1>. QED
  BY <1>2, <1>3, <1>4, <1>5, <1>6, RespondedMaps
     DEF Keeps, PromiseOf!Next, PromiseOf!Finish, PromiseOf!Ends, PromiseOf!Gives

LEMMA MutualKeeps ==
    ASSUME Typed, NEW c \in Live, NEW fate, Moved(c, fate), fate.step = "Mutual",
           fate.state = [stage |-> "Spent", by |-> "Mutual"]
    PROVE  Keeps(c)
<1>1. c \in Channel /\ utxo[c].stage \in {"Opened", "Closed", "Responded"}
  BY StagesAre DEF Live, Typed
<1>2. Phase(utxo[c]) \in {"open", "closing", "answered"}
  BY <1>1, OpenedMaps, ClosedMaps, RespondedMaps
<1>3. utxo'[c] = [stage |-> "Spent", by |-> "Mutual"] /\ taken'[c] = taken[c]
      /\ closedAt'[c] = closedAt[c] /\ now' = now /\ Unlocked(c)' = Unlocked(c)
  BY DEF Moved
<1>4. Phase(utxo'[c]) = "agreed"
  BY <1>3, SpentMaps
<1>5. ChannelHolds(c)'
  BY <1>1, <1>3, SpentHolds
<1>. QED
  BY <1>2, <1>3, <1>4, <1>5
     DEF Keeps, PromiseOf!Next, PromiseOf!Agree, PromiseOf!Ends, PromiseOf!Gives

\* Whatever a Main decides.
LEMMA FateKeeps ==
    ASSUME Typed, NEW c \in Channel, ChannelHolds(c), NEW fate, fate.id = c, Moved(c, fate),
           NEW step \in Steps, Decides(step, fate)
    PROVE  Keeps(c)
<1>1. PICK other \in Live : \E move \in Moves(other) : step = move.step
  BY DEF Steps, AllMoves
<1>2. IsStep(step)
  BY <1>1, MovesAre DEF IsMove
<1>3. fate.step \in StepNames
  BY <1>2 DEF IsStep, Decides
<1>4. \/ fate.step \in {"Add", "Sub", "Close"} \/ fate.step \in {"Respond", "Unlock", "Expire"}
      \/ fate.step \in {"Elapse", "End"}
  BY <1>3 DEF StepNames
<1>5. CASE fate.step \in {"Add", "Sub", "Close"}
  BY <1>2, <1>5, AddKeeps, SubKeeps, CloseKeeps
<1>6. CASE fate.step \in {"Respond", "Unlock", "Expire"}
  BY <1>2, <1>6, RespondKeeps, UnlockKeeps, ExpireKeeps
<1>7. CASE fate.step \in {"Elapse", "End"}
  BY <1>7, ElapseKeeps, EndKeeps
<1>. QED
  BY <1>4, <1>5, <1>6, <1>7

\* With no Main, the one channel spent has both signatures: a Defer has a
\* channel before it to defer to.
LEMMA AsideIsMutual ==
    ASSUME NEW refs \in Orders, NEW redeemers \in RedeemersOf(refs), SpendAside(refs, redeemers),
           NEW c \in Range(refs) \ {Stray}
    PROVE  HowSpent(refs, redeemers, c) = "Mutual"
<1>. DEFINE inputs == [n \in DOMAIN refs |-> InputOf(refs[n])]
<1>1. /\ refs \in Seq(Channel \cup {Stray}) /\ DOMAIN inputs = DOMAIN refs
      /\ \A n \in DOMAIN refs : inputs[n].own <=> refs[n] # Stray
  BY OrdersAre, InputsAre
<1>2. DOMAIN refs = 1..Len(refs) /\ Len(refs) \in Nat /\ Len(inputs) = Len(refs)
  <2>1. inputs \in Seq(Inputs)
    BY InputsAre
  <2>. HIDE DEF inputs
  <2>. QED
    BY <1>1, <2>1
<1>3. SidesHold(inputs, redeemers)
      /\ \A n \in DOMAIN refs : refs[n] # Stray => redeemers[n] # "Main"
  BY DEF SpendAside
<1>4. \A n \in DOMAIN refs : redeemers[n] \in {"Main", "Defer", "Mutual"}
  BY DEF RedeemersOf
<1>5. PICK n \in DOMAIN refs : refs[n] = c /\ refs[n] # Stray
  BY DEF Range
<1>. HIDE DEF inputs
<1>6. \A m \in DOMAIN refs : refs[m] # Stray =>
         /\ redeemers[m] = "Defer" => inputs[1].own /\ m # 1
         /\ redeemers[m] = "Mutual" => Len(refs) = 1
         /\ redeemers[m] \in {"Defer", "Mutual"}
  BY <1>1, <1>2, <1>3, <1>4 DEF SidesHold, DeferHolds, MutualHolds
<1>7. ASSUME redeemers[n] = "Defer" PROVE FALSE
  <2>1. inputs[1].own /\ n # 1 /\ 1 \in DOMAIN refs
    BY <1>2, <1>5, <1>6, <1>7
  <2>2. refs[1] # Stray
    BY <1>1, <2>1
  <2>3. redeemers[1] = "Mutual" => n = 1
    BY <1>2, <1>6, <2>1, <2>2
  <2>. QED
    BY <1>6, <2>1, <2>2, <2>3
<1>8. redeemers[n] = "Mutual"
  BY <1>5, <1>6, <1>7
<1>. QED
  BY <1>5, <1>8 DEF HowSpent

\* What a transaction does to one of the channels.
Stays(c) ==
    /\ utxo'[c] = utxo[c] /\ taken'[c] = taken[c] /\ closedAt'[c] = closedAt[c]
    /\ now' = now /\ Unlocked(c)' = Unlocked(c)

LEMMA SpendsMove ==
    ASSUME NEW channels, NEW became, NEW paid, Spends(channels, became, paid), NEW c \in Channel
    PROVE  /\ c \in channels => Moved(c, FateAmong(became, c))
           /\ c \notin channels => Stays(c)
<1>1. /\ utxo'[c] = IF c \in channels THEN FateAmong(became, c).state ELSE utxo[c]
      /\ taken'[c] = IF c \in channels /\ FateAmong(became, c).step \in {"Sub", "Respond", "Unlock"}
                     THEN taken[c] + utxo[c].amount - FateAmong(became, c).state.amount ELSE taken[c]
      /\ closedAt'[c] = IF c \in channels /\ FateAmong(became, c).step = "Close" THEN now ELSE closedAt[c]
      /\ UNCHANGED <<now, layout, revealed>>
  BY SpendsAre
<1>2. Unlocked(c)' = Unlocked(c)
  BY <1>1 DEF Unlocked, Cheques
<1>. QED
  BY <1>1, <1>2 DEF Moved, Stays

\* A step of the ledger for one channel.
Promises(c) == ChannelHolds(c)' /\ (PromiseOf(c)!Next \/ UNCHANGED PromiseOf(c)!vars)

LEMMA StaysPromises ==
    ASSUME NEW c \in Channel, ChannelHolds(c), Stays(c)
    PROVE  Promises(c)
<1>1. ChannelHolds(c)'
  BY DEF ChannelHolds, Stays
<1>2. UNCHANGED PromiseOf(c)!vars
  BY DEF PromiseOf!vars, Stays
<1>. QED
  BY <1>1, <1>2 DEF Promises

LEMMA KeepsPromises == ASSUME NEW c, Keeps(c) PROVE Promises(c)
  BY DEF Keeps, Promises

LEMMA TickPromises ==
    ASSUME Typed, NEW c \in Channel, ChannelHolds(c), Tick
    PROVE  Promises(c)
<1>1. now' > now /\ UNCHANGED <<utxo, taken, closedAt, revealed, layout>>
  BY DEF Tick, Typed
<1>2. Unlocked(c)' = Unlocked(c)
  BY <1>1 DEF Unlocked, Cheques
<1>3. ChannelHolds(c)'
  BY <1>1, <1>2 DEF ChannelHolds
<1>4. PromiseOf(c)!Time
  BY <1>1, <1>2 DEF PromiseOf!Time
<1>. QED
  BY <1>3, <1>4 DEF Promises, PromiseOf!Next

LEMMA RevealPromises ==
    ASSUME Typed, NEW c \in Channel, ChannelHolds(c), NEW secret, Reveal(secret)
    PROVE  Promises(c)
<1>1. UNCHANGED <<now, utxo, taken, closedAt, layout>> /\ revealed \subseteq revealed'
  BY DEF Reveal
<1>2. Unlocked(c) \subseteq Unlocked(c)'
  BY <1>1 DEF Unlocked, Cheques
<1>3. ChannelHolds(c)'
  <2>1. UsedsOf(Unlocked(c)) \subseteq UsedsOf(Unlocked(c)')
    BY <1>2 DEF UsedsOf
  <2>2. \A useds : useds \in Seq(UsedsOf(Unlocked(c))) => useds \in Seq(UsedsOf(Unlocked(c)'))
    BY <2>1
  <2>. QED
    BY <1>1, <2>2 DEF ChannelHolds
<1>4. PromiseOf(c)!Earn
  BY <1>1, <1>2 DEF PromiseOf!Earn
<1>. QED
  BY <1>3, <1>4 DEF Promises, PromiseOf!Next

LEMMA NextPromises ==
    ASSUME ChannelsHold, [Next]_vars, NEW c \in Channel
    PROVE  Promises(c)
<1>1. Typed /\ ChannelHolds(c)
  BY DEF ChannelsHold
<1>2. CASE UNCHANGED vars
  <2>1. Stays(c)
    BY <1>2 DEF vars, Stays, Unlocked, Cheques
  <2>. QED
    BY <1>1, <2>1, StaysPromises
<1>3. CASE Tick
  BY <1>1, <1>3, TickPromises
<1>4. CASE \E secret : Reveal(secret)
  BY <1>1, <1>4, RevealPromises
<1>5. ASSUME NEW refs \in Orders, NEW redeemers \in RedeemersOf(refs), SpendAside(refs, redeemers)
      PROVE  Promises(c)
  <2>. DEFINE channels == Range(refs) \ {Stray}
              became == Aside(refs, redeemers)
              fate == FateAmong(became, c)
  <2>1. Spends(channels, became, {})
        /\ \A d \in channels : FateAmong(became, d).state = [stage |-> "Spent", by |-> HowSpent(refs, redeemers, d)]
                               /\ FateAmong(became, d).step = HowSpent(refs, redeemers, d)
    BY <1>5, AsideSpends
  <2>2. channels \in SUBSET Live
    BY OrdersAre
  <2>3. c \in channels => HowSpent(refs, redeemers, c) = "Mutual"
    BY <1>5, AsideIsMutual
  <2>. HIDE DEF channels, became
  <2>4. CASE c \in channels
    <3>1. Moved(c, fate) /\ fate.step = "Mutual" /\ fate.state = [stage |-> "Spent", by |-> "Mutual"]
      BY <2>1, <2>3, <2>4, SpendsMove
    <3>. HIDE DEF fate
    <3>. QED
      BY <1>1, <2>2, <2>4, <3>1, MutualKeeps, KeepsPromises
  <2>5. CASE c \notin channels
    BY <1>1, <2>1, <2>5, SpendsMove, StaysPromises
  <2>. QED
    BY <2>4, <2>5
<1>6. ASSUME NEW refs \in Orders, NEW became, NEW paid, MainMakes(Range(refs) \ {Stray}, became, paid)
      PROVE  Promises(c)
  <2>. DEFINE channels == Range(refs) \ {Stray}
              fate == FateAmong(became, c)
  <2>1. Spends(channels, became, paid) /\ IsFates(channels, became) /\ Fated(became)
    BY <1>6 DEF MainMakes
  <2>. HIDE DEF channels
  <2>2. CASE c \in channels
    <3>1. Moved(c, fate) /\ fate \in became /\ fate.id = c
      BY <2>1, <2>2, SpendsMove, FateIs
    <3>2. PICK step \in Steps : Decides(step, fate)
      BY <2>1, <3>1 DEF Fated
    <3>. HIDE DEF fate
    <3>. QED
      BY <1>1, <3>1, <3>2, FateKeeps, KeepsPromises
  <2>3. CASE c \notin channels
    BY <1>1, <2>1, <2>3, SpendsMove, StaysPromises
  <2>. QED
    BY <2>2, <2>3
<1>. QED
  BY <1>1, <1>2, <1>3, <1>4, <1>5, <1>6, NextIs DEF Transacts

LEMMA HoldsInitially == Init => ChannelsHold /\ \A c \in Channel : PromiseOf(c)!Init
<1>. SUFFICES ASSUME Init PROVE ChannelsHold /\ \A c \in Channel : PromiseOf(c)!Init
  OBVIOUS
<1>1. Typed
  BY BackedInitially
<1>2. \A c \in Channel :
        /\ utxo[c] \in [stage : {"Opened"}, amount : {MaxAmount}, subbed : {0}, useds : {<<>>}]
        /\ taken[c] = 0 /\ Unlocked(c) = {}
  BY DEF Init, Unlocked
<1>3. ASSUME NEW c \in Channel PROVE ChannelHolds(c) /\ PromiseOf(c)!Init
  <2>1. utxo[c].stage = "Opened" /\ utxo[c].amount = MaxAmount /\ utxo[c].subbed = 0 /\ utxo[c].useds = <<>>
    BY <1>2
  <2>2. ChannelHolds(c)
    <3>1. <<>> \in Seq(UsedsOf(Unlocked(c)))
      OBVIOUS
    <3>. QED
      BY <1>2, <2>1, <3>1 DEF ChannelHolds
  <2>3. utxo[c].amount >= 0
    BY <2>1, BoundsAssumption
  <2>. QED
    BY <1>2, <2>1, <2>2, <2>3, OpenedMaps DEF PromiseOf!Init
<1>. QED
  BY <1>1, <1>3 DEF ChannelsHold

LEMMA HoldsByStep ==
    ChannelsHold /\ [Next]_vars =>
        /\ ChannelsHold'
        /\ \A c \in Channel : PromiseOf(c)!Next \/ UNCHANGED PromiseOf(c)!vars
<1>. SUFFICES ASSUME ChannelsHold, [Next]_vars
              PROVE  /\ ChannelsHold'
                     /\ \A c \in Channel : PromiseOf(c)!Next \/ UNCHANGED PromiseOf(c)!vars
  OBVIOUS
<1>1. \A c \in Channel : Promises(c)
  BY NextPromises
<1>2. Typed'
  BY BackedByStep DEF ChannelsHold
<1>. QED
  BY <1>1, <1>2 DEF ChannelsHold, Promises

\* Each channel of a transaction keeps its promise, whatever is done with the
\* others beside it: in one walk, by other redeemers, with other outputs.
THEOREM EachKeeps == Spec => EachKeepsPromise
<1>1. Init => ChannelsHold /\ \A c \in Channel : PromiseOf(c)!Init
  BY HoldsInitially
<1>2. ChannelsHold /\ [Next]_vars =>
        /\ ChannelsHold'
        /\ \A c \in Channel : PromiseOf(c)!Next \/ UNCHANGED PromiseOf(c)!vars
  BY HoldsByStep
<1>. QED
  BY <1>1, <1>2, PTL DEF Spec, EachKeepsPromise

-----------------------------------------------------------------------------
(* What the builder lays out: the steps of all inputs, in their order, and *)
(* the outputs of those that continue.                                     *)

\* To select every place of a list changes nothing.
LEMMA EntriesAtAll ==
    ASSUME NEW T, NEW list \in Seq(T)
    PROVE  EntriesAt(list, DOMAIN list) = list
<1>. DEFINE out == EntriesAt(list, DOMAIN list)
            n == Len(list)
<1>1. out \in Seq(T) /\ Selects(out, list, DOMAIN list, n)
  BY EntriesAtSelects
<1>2. n \in Nat /\ DOMAIN list = 1..n /\ Len(out) \in Nat /\ DOMAIN out = 1..Len(out)
  BY <1>1
<1>. HIDE DEF out, n
<1>3. PICK places : IsSelection(out, list, 1..n, n, places)
  BY <1>1, <1>2 DEF Selects
<1>4. /\ \A k \in 1..Len(out) : places[k] \in 1..n /\ out[k] = list[places[k]]
      /\ \A j, k \in 1..Len(out) : j < k => places[j] < places[k]
      /\ \A m \in 1..n : \E k \in 1..Len(out) : places[k] = m
  BY <1>3 DEF IsSelection
<1>. DEFINE D == {k \in 0..Len(out) : \A j \in 1..k : places[j] = j}
<1>5. 0 \in D
  BY <1>2
<1>6. ASSUME NEW k \in 1..Len(out), k - 1 \in D PROVE k \in D
  <2>1. \A j \in 1..(k - 1) : places[j] = j
    BY <1>6
  <2>2. places[k] >= k
    <3>1. CASE k = 1
      BY <1>2, <1>4, <3>1
    <3>2. CASE k # 1
      <4>1. k - 1 \in 1..(k - 1) /\ k - 1 \in 1..Len(out) /\ k - 1 < k
        BY <1>2, <3>2
      <4>2. places[k - 1] = k - 1 /\ places[k - 1] < places[k] /\ places[k] \in 1..n
        BY <1>4, <2>1, <4>1
      <4>. QED
        BY <1>2, <4>2
    <3>. QED
      BY <3>1, <3>2
  <2>3. k \in 1..n
    BY <1>2, <1>4, <2>2
  <2>4. PICK i \in 1..Len(out) : places[i] = k
    BY <1>4, <2>3
  <2>5. ~(i < k)
    BY <1>2, <2>1, <2>4
  <2>6. ~(k < i)
    BY <1>2, <1>4, <2>2, <2>4
  <2>7. places[k] = k
    BY <1>2, <2>4, <2>5, <2>6
  <2>8. \A j \in 1..k : j \in 1..(k - 1) \/ j = k
    BY <1>2
  <2>. QED
    BY <1>2, <2>1, <2>7, <2>8
<1>7. \A k \in 0..Len(out) : k \in D
  <2>. HIDE DEF D
  <2>. QED
    BY <1>2, <1>5, <1>6, Climb
<1>8. \A j \in 1..Len(out) : places[j] = j
  BY <1>2, <1>7
<1>9. Len(out) = n
  <2>1. Len(out) <= n
    BY <1>2, <1>4, <1>8
  <2>2. n <= Len(out)
    BY <1>2, <1>4, <1>8
  <2>3. Len(out) \in Nat /\ n \in Nat
    BY <1>2
  <2>. QED
    BY <2>1, <2>2, <2>3
<1>10. \A j \in 1..n : out[j] = list[j]
  BY <1>4, <1>8, <1>9
<1>11. out = list
  BY <1>1, <1>2, <1>9, <1>10
<1>. QED
  BY <1>2, <1>11 DEF out

\* What a move does holds for its channel; a step that ends it looks at no
\* output.
LEMMA MoveHolds ==
    ASSUME NEW c \in Live, NEW move \in Moves(c), NEW becomes,
           ~Ends(move.step) => becomes = move.out
    PROVE  /\ move.id = c
           /\ StepHolds(Signed(c), now, now, utxo[c], becomes, move.step)
<1>. DEFINE state == utxo[c]
            steps == IF state.stage = "Opened" THEN OpenSteps(c)
                     ELSE IF state.stage = "Closed" THEN ClosedSteps(c) ELSE RespondedSteps(c)
            outs  == IF state.stage = "Opened" THEN OpenOuts(c) ELSE RespondedOuts(c)
            holds == {m \in steps \X outs : StepHolds(Signed(c), now, now, state, m[2], m[1])}
<1>1. PICK m \in holds : \/ move = [id |-> c, step |-> m[1], out |-> m[2]] /\ ~Ends(m[1])
                         \/ move = [id |-> c, step |-> m[1]] /\ Ends(m[1])
  BY DEF Moves
<1>2. StepHolds(Signed(c), now, now, state, m[2], m[1])
  BY <1>1
<1>. HIDE DEF holds
<1>3. move.id = c /\ move.step = m[1]
  BY <1>1
<1>4. CASE ~Ends(m[1])
  BY <1>1, <1>2, <1>4
<1>5. CASE Ends(m[1])
  BY <1>2, <1>3, <1>5 DEF StepHolds, Ends
<1>. QED
  BY <1>3, <1>4, <1>5

\* Each input has a move of its own.
IsBuilt(refs, moves) ==
    /\ moves \in Seq(AllMoves) /\ DOMAIN moves = DOMAIN refs
    /\ \A n \in DOMAIN refs : refs[n] \in Live /\ moves[n] \in Moves(refs[n])

LEMMA MovesAreBuilt ==
    ASSUME NEW refs \in Orders, Stray \notin Range(refs), NEW each \in MovesOfEach,
           NEW moves \in MovesOf(refs, each)
    PROVE  IsBuilt(refs, moves)
<1>1. refs \in Seq(Channel \cup {Stray}) /\ Range(refs) \ {Stray} \in SUBSET Live
  BY OrdersAre
<1>2. \A n \in DOMAIN refs : refs[n] # Stray /\ refs[n] \in Live
  BY <1>1 DEF Range
<1>3. Where(refs, LAMBDA ref : ref # Stray) = EntriesAt(refs, {n \in DOMAIN refs : refs[n] # Stray})
  BY DEF Where, The
<1>4. {n \in DOMAIN refs : refs[n] # Stray} = DOMAIN refs
  BY <1>2
<1>5. Where(refs, LAMBDA ref : ref # Stray) = refs
  BY <1>1, <1>3, <1>4, EntriesAtAll
<1>6. /\ moves \in [DOMAIN refs -> UNION {each[c] : c \in Live}]
      /\ \A n \in DOMAIN refs : moves[n].id = refs[n]
  BY <1>5 DEF MovesOf
<1>7. \A c \in Live : each[c] = Moves(c)
  BY DEF MovesOfEach
<1>8. ASSUME NEW n \in DOMAIN refs PROVE moves[n] \in Moves(refs[n])
  <2>1. PICK c \in Live : moves[n] \in Moves(c)
    BY <1>6, <1>7
  <2>2. moves[n].id = c
    BY <2>1 DEF Moves
  <2>. QED
    BY <1>6, <2>1, <2>2
<1>9. DOMAIN moves = DOMAIN refs /\ moves \in Seq(AllMoves)
  BY <1>1, <1>6, MovesOfAre
<1>. QED
  BY <1>2, <1>8, <1>9 DEF IsBuilt

Going(moves) == {n \in DOMAIN moves : ~Ends(moves[n].step)}

\* The outputs are those of the moves past the k-th that continue.
IsRest(outputs, moves, k, places) ==
    /\ \A j \in 1..Len(outputs) :
          /\ places[j] \in Going(moves) /\ places[j] > k
          /\ outputs[j] = OutputOf(moves[places[j]].id, moves[places[j]].out)
    /\ \A i, j \in 1..Len(outputs) : i < j => places[i] < places[j]
    /\ \A n \in Going(moves) : n > k => \E j \in 1..Len(outputs) : places[j] = n
Awaits(outputs, moves, k) == \E places : IsRest(outputs, moves, k, places)

LEMMA OutputsAwait ==
    ASSUME Typed, NEW moves \in Seq(AllMoves)
    PROVE  OutputsOf(moves) \in Seq(Outs) /\ Awaits(OutputsOf(moves), moves, 0)
<1>. DEFINE going == EntriesAt(moves, Going(moves))
            all == [n \in DOMAIN going |-> OutputOf(going[n].id, going[n].out)]
<1>1. Where(moves, LAMBDA move : ~Ends(move.step)) = going
  BY DEF Where, The, Going
<1>2. OutputsOf(moves) = all
  BY <1>1 DEF OutputsOf
<1>3. OutputsOf(moves) \in Seq(Outs)
  BY OutputsOfAre DEF Arranged, Parts
<1>4. PICK places : IsSelection(going, moves, Going(moves), Len(moves), places)
  BY EntriesAtSelects DEF Selects
<1>5. /\ DOMAIN going = 1..Len(going) /\ Len(going) \in Nat
      /\ DOMAIN moves = 1..Len(moves) /\ Len(moves) \in Nat
  BY EntriesAtSelects
<1>. HIDE DEF going
<1>6. Len(all) = Len(going) /\ DOMAIN all = 1..Len(going)
  <2>1. all \in Seq(Outs)
    BY <1>2, <1>3
  <2>2. DOMAIN all = 1..Len(going)
    BY <1>5
  <2>. HIDE DEF all
  <2>3. DOMAIN all = 1..Len(all) /\ Len(all) \in Nat
    BY <2>1
  <2>. QED
    BY <1>5, <2>2, <2>3
<1>7. \A j \in 1..Len(going) : all[j] = OutputOf(going[j].id, going[j].out)
  BY <1>5
<1>. HIDE DEF all
<1>8. \A j \in 1..Len(all) :
         /\ places[j] \in Going(moves) /\ places[j] > 0
         /\ all[j] = OutputOf(moves[places[j]].id, moves[places[j]].out)
  <2>. TAKE j \in 1..Len(all)
  <2>1. places[j] \in 1..Len(moves) /\ places[j] \in Going(moves) /\ going[j] = moves[places[j]]
    BY <1>4, <1>6 DEF IsSelection
  <2>. QED
    BY <1>5, <1>6, <1>7, <2>1
<1>9. \A i, j \in 1..Len(all) : i < j => places[i] < places[j]
  BY <1>4, <1>6 DEF IsSelection
<1>10. \A n \in Going(moves) : \E j \in 1..Len(all) : places[j] = n
  BY <1>4, <1>5, <1>6 DEF IsSelection, Going
<1>11. IsRest(all, moves, 0, places)
  BY <1>8, <1>9, <1>10 DEF IsRest
<1>. QED
  BY <1>2, <1>3, <1>11 DEF Awaits

LEMMA RestShrinks ==
    ASSUME NEW outputs \in Seq(Outs), NEW moves \in Seq(AllMoves), NEW k \in DOMAIN moves,
           Awaits(outputs, moves, k - 1)
    PROVE  /\ k \notin Going(moves) => Awaits(outputs, moves, k)
           /\ k \in Going(moves) =>
                 /\ Len(outputs) > 0 /\ outputs[1] = OutputOf(moves[k].id, moves[k].out)
                 /\ Awaits(OutputsAfter(outputs, 1), moves, k)
<1>1. PICK places : IsRest(outputs, moves, k - 1, places)
  BY DEF Awaits
<1>2. k \in Nat /\ Len(outputs) \in Nat /\ \A n \in Going(moves) : n \in Nat
  BY DEF Going
<1>3. /\ \A j \in 1..Len(outputs) :
            /\ places[j] \in Going(moves) /\ places[j] > k - 1 /\ places[j] \in Nat
            /\ outputs[j] = OutputOf(moves[places[j]].id, moves[places[j]].out)
      /\ \A i, j \in 1..Len(outputs) : i < j => places[i] < places[j]
      /\ \A n \in Going(moves) : n > k - 1 => \E j \in 1..Len(outputs) : places[j] = n
  BY <1>1, <1>2 DEF IsRest
<1>4. ASSUME k \notin Going(moves) PROVE Awaits(outputs, moves, k)
  <2>1. \A j \in 1..Len(outputs) : places[j] > k
    BY <1>2, <1>3, <1>4
  <2>2. \A n \in Going(moves) : n > k => n > k - 1
    BY <1>2
  <2>3. IsRest(outputs, moves, k, places)
    BY <1>3, <2>1, <2>2 DEF IsRest
  <2>. QED
    BY <2>3 DEF Awaits
<1>5. ASSUME k \in Going(moves)
      PROVE  /\ Len(outputs) > 0 /\ outputs[1] = OutputOf(moves[k].id, moves[k].out)
             /\ Awaits(OutputsAfter(outputs, 1), moves, k)
  <2>. DEFINE rest == OutputsAfter(outputs, 1)
              later == [j \in 1..Len(rest) |-> places[j + 1]]
  <2>1. PICK j \in 1..Len(outputs) : places[j] = k
    BY <1>2, <1>3, <1>5
  <2>2. 1 \in 1..Len(outputs) /\ Len(outputs) > 0
    BY <1>2, <2>1
  <2>3. j = 1
    <3>1. ASSUME 1 < j PROVE FALSE
      <4>1. places[1] < k /\ places[1] > k - 1 /\ places[1] \in Nat
        BY <1>3, <2>1, <2>2, <3>1
      <4>. QED
        BY <1>2, <4>1
    <3>. QED
      BY <1>2, <2>1, <3>1
  <2>4. places[1] = k /\ outputs[1] = OutputOf(moves[k].id, moves[k].out)
    BY <1>3, <2>1, <2>2, <2>3
  <2>5. Len(rest) = Len(outputs) - 1 /\ \A i \in 1..Len(rest) : rest[i] = outputs[i + 1]
    <3>1. rest = SubSeq(outputs, 2, Len(outputs))
      BY DEF OutputsAfter
    <3>. HIDE DEF rest
    <3>2. Len(rest) = Len(outputs) - 1
      <4>1. Len(SubSeq(outputs, 2, Len(outputs))) = IF 2 <= Len(outputs) THEN Len(outputs) - 2 + 1 ELSE 0
        BY <1>2
      <4>2. \A m \in Nat : m > 0 => (IF 2 <= m THEN m - 2 + 1 ELSE 0) = m - 1
        OBVIOUS
      <4>3. (IF 2 <= Len(outputs) THEN Len(outputs) - 2 + 1 ELSE 0) = Len(outputs) - 1
        BY <1>2, <2>2, <4>2, Zenon
      <4>. QED
        BY <3>1, <4>1, <4>3, Zenon
    <3>3. ASSUME NEW i \in 1..Len(rest) PROVE rest[i] = outputs[i + 1]
      <4>1. i \in 1..(Len(outputs) - 2 + 1) /\ 2 + i - 1 = i + 1
        BY <1>2, <3>2
      <4>. QED
        BY <1>2, <2>2, <3>1, <4>1
    <3>. QED
      BY <3>2, <3>3
  <2>6. \A i \in 1..Len(rest) : i + 1 \in 1..Len(outputs) /\ 1 < i + 1 /\ later[i] = places[i + 1]
    BY <1>2, <2>5
  <2>. HIDE DEF rest, later
  <2>7. \A i \in 1..Len(rest) :
           /\ later[i] \in Going(moves) /\ later[i] > k
           /\ rest[i] = OutputOf(moves[later[i]].id, moves[later[i]].out)
    <3>. TAKE i \in 1..Len(rest)
    <3>1. places[1] < places[i + 1]
      BY <1>3, <2>2, <2>6
    <3>. QED
      BY <1>2, <1>3, <2>4, <2>5, <2>6, <3>1
  <2>8. ASSUME NEW h \in 1..Len(rest), NEW i \in 1..Len(rest), h < i PROVE later[h] < later[i]
    <3>1. h + 1 \in 1..Len(outputs) /\ i + 1 \in 1..Len(outputs) /\ h + 1 < i + 1
      BY <2>6, <2>8
    <3>2. places[h + 1] < places[i + 1]
      BY <1>3, <3>1
    <3>. QED
      BY <2>6, <3>2
  <2>9. ASSUME NEW n \in Going(moves), n > k PROVE \E i \in 1..Len(rest) : later[i] = n
    <3>1. n > k - 1
      BY <1>2, <2>9
    <3>2. PICK i \in 1..Len(outputs) : places[i] = n
      BY <1>3, <3>1
    <3>3. i # 1
      BY <1>2, <2>4, <2>9, <3>2
    <3>4. i - 1 \in 1..Len(rest) /\ (i - 1) + 1 = i
      BY <1>2, <2>5, <3>3
    <3>5. later[i - 1] = places[i]
      BY <2>6, <3>4
    <3>. QED
      BY <3>2, <3>4, <3>5
  <2>10. IsRest(rest, moves, k, later)
    BY <2>7, <2>8, <2>9 DEF IsRest
  <2>. QED
    BY <2>2, <2>4, <2>10 DEF Awaits, rest
<1>. QED
  BY <1>4, <1>5

\* After k steps on what the builder laid out.
IsLaid(acc, refs, moves, k) ==
    /\ acc.ok /\ Len(acc.inputs) = Len(refs) - k
    /\ \A j \in DOMAIN acc.inputs : acc.inputs[j] = InputOf(refs[k + j])
    /\ Awaits(acc.outputs, moves, k)
    /\ \A n \in 1..k : \E b \in acc.became : b.id = refs[n] /\ b.step = moves[n].step.step

LEMMA MainWithGoes ==
    ASSUME NEW acc, NEW step, acc.ok, acc.inputs # <<>>, Input(acc).own,
           Ends(step) \/ (Place(acc) # 0 /\ Continues(Input(acc), acc.outputs[Place(acc)])),
           StepHolds(Signed(Input(acc).id), now, now, utxo[Input(acc).id], Becomes(acc, step), step)
    PROVE  MainWith(acc, step) =
                [ok      |-> TRUE,
                 inputs  |-> Tail(acc.inputs),
                 outputs |-> IF Ends(step) THEN acc.outputs ELSE OutputsAfter(acc.outputs, Place(acc)),
                 vkeys   |-> acc.vkeys \cup {SignerOf(Input(acc).id, step)},
                 became  |-> acc.became \cup {FateOf(acc, step)},
                 paid    |-> IF Ends(step) THEN acc.paid ELSE acc.paid \cup {PaymentOf(acc)}]
  BY DEF MainWith, Input, Place, Becomes, FateOf, PaymentOf

\* The first output is taken when it goes where the input was.
LEMMA PlaceIsFirst ==
    ASSUME NEW acc, acc.outputs \in Seq(Outs), Len(acc.outputs) > 0,
           acc.outputs[1].home = Input(acc).home
    PROVE  Place(acc) = 1
<1>. DEFINE outputs == acc.outputs
            I == {i \in 1..Len(outputs) : outputs[i].home = Input(acc).home}
            n == Place(acc)
<1>1. n = IF I # {} THEN Min(I) ELSE 0
  BY DEF SelectInSeq, Place
<1>2. Len(outputs) \in Nat
  OBVIOUS
<1>3. 1 \in I /\ I \subseteq Nat /\ \A i \in I : 1 <= i
  BY <1>2
<1>. HIDE DEF n, I, outputs
<1>4. Min(I) = 1
  <2>1. Min(I) \in I /\ Min(I) <= 1
    BY <1>3, MinIsLeast
  <2>2. Min(I) \in Nat /\ 1 <= Min(I)
    BY <1>3, <2>1
  <2>. QED
    BY <2>1, <2>2
<1>. QED
  BY <1>1, <1>3, <1>4 DEF n

LEMMA LaidGoesOn ==
    ASSUME Typed, NEW refs \in Seq(Channel), NEW moves, IsBuilt(refs, moves),
           NEW inputs, NEW acc \in Walks(inputs), NEW k \in DOMAIN refs,
           IsLaid(acc, refs, moves, k - 1)
    PROVE  IsLaid(MainWith(acc, moves[k].step), refs, moves, k)
<1>. DEFINE c == refs[k]
            move == moves[k]
            step == move.step
            next == MainWith(acc, step)
<1>1. /\ c \in Live /\ c \in Channel /\ move \in Moves(c) /\ move \in AllMoves
      /\ moves \in Seq(AllMoves) /\ k \in DOMAIN moves
  BY DEF IsBuilt, AllMoves, Live
<1>2. IsMove(move) /\ move.id = c
  BY <1>1, MovesAre, MoveHolds
<1>3. /\ acc.ok /\ Len(acc.inputs) = Len(refs) - (k - 1)
      /\ \A j \in DOMAIN acc.inputs : acc.inputs[j] = InputOf(refs[(k - 1) + j])
      /\ Awaits(acc.outputs, moves, k - 1)
      /\ \A n \in 1..(k - 1) : \E b \in acc.became : b.id = refs[n] /\ b.step = moves[n].step.step
  BY DEF IsLaid
<1>4. acc \in [ok : BOOLEAN, inputs : Seq(Inputs), outputs : Seq(Outs), vkeys : SUBSET Keys,
               became : SUBSET Fates, paid : SUBSET Payments]
  BY DEF Walks
<1>5. /\ k \in Nat /\ k >= 1 /\ k <= Len(refs) /\ Len(refs) \in Nat
      /\ DOMAIN acc.inputs = 1..Len(acc.inputs) /\ Len(acc.inputs) \in Nat
  <2>1. acc.inputs \in Seq(Inputs)
    BY <1>4
  <2>. QED
    BY <2>1
<1>. HIDE DEF next, step, move, c
<1>6. acc.inputs # <<>> /\ Input(acc) = InputOf(c)
  <2>1. 1 \in DOMAIN acc.inputs /\ (k - 1) + 1 = k
    BY <1>3, <1>5
  <2>2. acc.inputs[1] = InputOf(c)
    BY <1>3, <2>1 DEF c
  <2>. QED
    BY <1>5, <2>1, <2>2 DEF Input
<1>7. /\ Input(acc).own /\ Input(acc).id = c
      /\ Input(acc).home = layout.home[c] /\ Input(acc).tag = layout.tag[c]
  BY <1>1, <1>6, ChannelAssumption DEF InputOf
<1>8. /\ k \notin Going(moves) => Awaits(acc.outputs, moves, k)
      /\ k \in Going(moves) =>
            /\ Len(acc.outputs) > 0 /\ acc.outputs[1] = OutputOf(moves[k].id, moves[k].out)
            /\ Awaits(OutputsAfter(acc.outputs, 1), moves, k)
  BY <1>1, <1>3, <1>4, RestShrinks
<1>9. k \in Going(moves) <=> ~Ends(step)
  BY <1>1 DEF Going, step, move
<1>10. ~Ends(step) =>
          /\ Place(acc) = 1 /\ Continues(Input(acc), acc.outputs[Place(acc)])
          /\ acc.outputs[Place(acc)].state = move.out
          /\ Awaits(OutputsAfter(acc.outputs, Place(acc)), moves, k)
  <2>. SUFFICES ASSUME ~Ends(step) PROVE
          /\ Place(acc) = 1 /\ Continues(Input(acc), acc.outputs[Place(acc)])
          /\ acc.outputs[Place(acc)].state = move.out
          /\ Awaits(OutputsAfter(acc.outputs, Place(acc)), moves, k)
    OBVIOUS
  <2>1. /\ Len(acc.outputs) > 0 /\ acc.outputs[1] = OutputOf(c, move.out)
        /\ Awaits(OutputsAfter(acc.outputs, 1), moves, k)
    BY <1>2, <1>8, <1>9 DEF move
  <2>2. /\ acc.outputs[1].home = layout.home[c] /\ acc.outputs[1].tag = layout.tag[c]
        /\ acc.outputs[1].state = move.out
    BY <2>1 DEF OutputOf
  <2>3. Place(acc) = 1
    BY <1>4, <1>7, <2>1, <2>2, PlaceIsFirst
  <2>. QED
    BY <1>7, <2>1, <2>2, <2>3 DEF Continues
<1>11. StepHolds(Signed(c), now, now, utxo[c], Becomes(acc, step), step)
  <2>1. ~Ends(step) => Becomes(acc, step) = move.out
    BY <1>10 DEF Becomes
  <2>. QED
    BY <1>1, <2>1, MoveHolds DEF step
<1>12. next = [ok      |-> TRUE,
               inputs  |-> Tail(acc.inputs),
               outputs |-> IF Ends(step) THEN acc.outputs ELSE OutputsAfter(acc.outputs, Place(acc)),
               vkeys   |-> acc.vkeys \cup {SignerOf(Input(acc).id, step)},
               became  |-> acc.became \cup {FateOf(acc, step)},
               paid    |-> IF Ends(step) THEN acc.paid ELSE acc.paid \cup {PaymentOf(acc)}]
  BY <1>3, <1>6, <1>7, <1>10, <1>11, MainWithGoes DEF next
<1>13. /\ next.ok /\ next.inputs = Tail(acc.inputs) /\ next.became = acc.became \cup {FateOf(acc, step)}
       /\ next.outputs = IF Ends(step) THEN acc.outputs ELSE OutputsAfter(acc.outputs, Place(acc))
  BY <1>12
<1>. HIDE DEF next
<1>14. Len(next.inputs) = Len(refs) - k /\ DOMAIN next.inputs = 1..(Len(refs) - k)
       /\ \A j \in DOMAIN next.inputs : next.inputs[j] = InputOf(refs[k + j])
  <2>1. acc.inputs \in Seq(Inputs) /\ acc.inputs # <<>>
    BY <1>4, <1>6
  <2>2. /\ Len(next.inputs) = Len(acc.inputs) - 1 /\ DOMAIN next.inputs = 1..Len(next.inputs)
        /\ \A j \in DOMAIN next.inputs : next.inputs[j] = acc.inputs[j + 1]
    BY <1>13, <2>1
  <2>3. Len(next.inputs) = Len(refs) - k
    BY <1>3, <1>5, <2>2
  <2>4. ASSUME NEW j \in DOMAIN next.inputs PROVE next.inputs[j] = InputOf(refs[k + j])
    <3>1. j \in Nat /\ j + 1 \in DOMAIN acc.inputs /\ (k - 1) + (j + 1) = k + j
      BY <1>5, <2>2
    <3>. QED
      BY <1>3, <2>2, <3>1
  <2>. QED
    BY <2>2, <2>3, <2>4
<1>15. Awaits(next.outputs, moves, k)
  BY <1>8, <1>9, <1>10, <1>13
<1>16. ASSUME NEW n \in 1..k
       PROVE  \E b \in next.became : b.id = refs[n] /\ b.step = moves[n].step.step
  <2>1. CASE n \in 1..(k - 1)
    BY <1>3, <1>13, <2>1
  <2>2. CASE n = k
    <3>1. FateOf(acc, step).id = c /\ FateOf(acc, step).step = step.step
      BY <1>7 DEF FateOf
    <3>. QED
      BY <1>13, <2>2, <3>1 DEF c, step, move
  <2>. QED
    BY <1>5, <2>1, <2>2
<1>17. IsLaid(next, refs, moves, k)
  BY <1>13, <1>14, <1>15, <1>16 DEF IsLaid
<1>. QED
  BY <1>17 DEF next, step, move

LEMMA BuiltIsAccepted ==
    ASSUME Typed, absent = None, NEW refs \in Orders, Stray \notin Range(refs),
           NEW each \in MovesOfEach, NEW moves \in MovesOf(refs, each)
    PROVE  BuiltHolds(refs, moves)
<1>. DEFINE inputs == [n \in DOMAIN refs |-> InputOf(refs[n])]
            outputs == OutputsOf(moves)
            steps == StepsOf(moves)
            walk == Walk(inputs, outputs, steps)
            last == Len(refs)
<1>1. IsBuilt(refs, moves)
  BY MovesAreBuilt
<1>2. /\ inputs \in Seq(Inputs) /\ OnceEach(inputs) /\ DOMAIN inputs = DOMAIN refs
      /\ \A n \in DOMAIN refs : inputs[n].own <=> refs[n] # Stray
  BY InputsAre
<1>3. refs \in Seq(Channel) /\ last \in Nat /\ DOMAIN refs = 1..last
      /\ \A n \in DOMAIN refs : refs[n] # Stray
  <2>1. refs \in Seq(Channel \cup {Stray}) /\ \A n \in DOMAIN refs : refs[n] # Stray
    BY OrdersAre DEF Range
  <2>. QED
    BY <2>1
<1>4. moves \in Seq(AllMoves) /\ DOMAIN moves = 1..last
  BY <1>1, <1>3 DEF IsBuilt
<1>5. /\ steps \in Seq(Steps) /\ Len(steps) = last
      /\ \A n \in 1..last : steps[n] = moves[n].step
  <2>1. steps \in Seq(Steps)
    BY <1>4, StepsOfAre DEF Parts
  <2>2. DOMAIN steps = 1..last /\ \A n \in 1..last : steps[n] = moves[n].step
    BY <1>4 DEF StepsOf
  <2>. HIDE DEF steps
  <2>3. Len(steps) \in Nat /\ DOMAIN steps = 1..Len(steps)
    BY <2>1
  <2>. QED
    BY <1>3, <2>1, <2>2, <2>3
<1>6. outputs \in Seq(Outs) /\ Awaits(outputs, moves, 0)
  BY <1>4, OutputsAwait
<1>7. Len(inputs) = last /\ \A j \in DOMAIN inputs : inputs[j] = InputOf(refs[j])
  <2>1. DOMAIN inputs = 1..Len(inputs) /\ Len(inputs) \in Nat
    <3>. HIDE DEF inputs
    <3>. QED
      BY <1>2
  <2>2. \A j \in DOMAIN inputs : inputs[j] = InputOf(refs[j])
    OBVIOUS
  <2>. HIDE DEF inputs
  <2>. QED
    BY <1>2, <1>3, <2>1, <2>2
<1>. HIDE DEF inputs, outputs, steps, last
<1>8. PICK h : IsMainWalk(h, inputs, outputs, steps)
  BY <1>2, <1>5, <1>6, WalkIsMade
<1>9. /\ h \in [0..last -> Walks(inputs)] /\ h[0] = WalkStart(inputs, outputs)
      /\ \A k \in 1..last : h[k] = MainWith(h[k - 1], moves[k].step)
      /\ h[last] = walk
  BY <1>5, <1>8 DEF IsMainWalk
<1>. DEFINE D == {k \in 0..last : IsLaid(h[k], refs, moves, k)}
<1>10. 0 \in D
  <2>1. /\ h[0].ok /\ h[0].inputs = inputs /\ h[0].outputs = outputs
    BY <1>9 DEF WalkStart
  <2>2. Len(inputs) = Len(refs) - 0 /\ \A j \in DOMAIN inputs : j = 0 + j
    BY <1>2, <1>3, <1>7 DEF last
  <2>3. \A j \in DOMAIN inputs : inputs[j] = InputOf(refs[0 + j])
    BY <1>7, <2>2
  <2>4. 1..0 = {}
    OBVIOUS
  <2>5. IsLaid(h[0], refs, moves, 0)
    BY <1>6, <2>1, <2>2, <2>3, <2>4 DEF IsLaid
  <2>. QED
    BY <1>3, <2>5
<1>11. ASSUME NEW k \in 1..last, k - 1 \in D PROVE k \in D
  <2>1. h[k - 1] \in Walks(inputs) /\ IsLaid(h[k - 1], refs, moves, k - 1)
    BY <1>9, <1>11
  <2>2. IsLaid(MainWith(h[k - 1], moves[k].step), refs, moves, k)
    BY <1>1, <1>3, <2>1, LaidGoesOn
  <2>. QED
    BY <1>3, <1>9, <2>2
<1>12. \A k \in 0..last : k \in D
  <2>. HIDE DEF D
  <2>. QED
    BY <1>3, <1>10, <1>11, Climb
<1>13. IsLaid(walk, refs, moves, last) /\ walk \in Walks(inputs)
  BY <1>3, <1>9, <1>12
<1>. HIDE DEF walk
<1>14. MainHolds(walk)
  <2>1. walk.ok /\ Len(walk.inputs) = 0 /\ walk.inputs \in Seq(Inputs) /\ walk.vkeys \in SUBSET Keys
    BY <1>3, <1>13 DEF IsLaid, last, Walks
  <2>2. walk.inputs = <<>>
    BY <2>1
  <2>3. \A key \in Keys : Signs(key)
    <3>1. \A c \in Channel : layout.tag[c] \in DOMAIN Offers
      BY ChequesAre
    <3>. QED
      BY <3>1, NoneAssumption DEF Keys, Consumer, Provider, Signs
  <2>. QED
    BY <2>1, <2>2, <2>3 DEF MainHolds, NoneLeft, AllSign
<1>15. \A move \in Range(moves) : [id |-> move.id, step |-> move.step.step] \in
                                     {[id |-> b.id, step |-> b.step] : b \in walk.became}
  <2>. TAKE move \in Range(moves)
  <2>1. PICK n \in 1..last : move = moves[n]
    BY <1>4 DEF Range
  <2>2. PICK b \in walk.became : b.id = refs[n] /\ b.step = moves[n].step.step
    BY <1>13, <2>1 DEF IsLaid
  <2>3. move.id = refs[n]
    <3>1. refs[n] \in Live /\ moves[n] \in Moves(refs[n])
      BY <1>1, <1>3 DEF IsBuilt
    <3>. QED
      BY <2>1, <3>1 DEF Moves
  <2>. QED
    BY <2>1, <2>2, <2>3
<1>16. SidesHold(inputs, [n \in DOMAIN refs |-> IF MainIsFirst(n, Len(refs)) THEN "Main" ELSE "Defer"])
  <2>1. \A n \in DOMAIN refs : n # 1 => inputs[1].own
    BY <1>2, <1>3
  <2>. QED
    BY <1>2, <1>3, <2>1 DEF SidesHold, DeferHolds, MainIsFirst
<1>. QED
  BY <1>14, <1>15, <1>16 DEF BuiltHolds, inputs, walk, outputs, steps

\* What SteppedUtxos lays out of steps that hold each by itself, the redeemers
\* accept together: Main at the first input, Defer at the others, the outputs
\* in the order of the inputs, wherever they are to go.
THEOREM BuiltBatchHoldsAlways == Spec => []BuiltBatchHolds
<1>1. Typed => BuiltBatchHolds
  BY BuiltIsAccepted DEF BuiltBatchHolds
<1>2. Init => Typed
  BY BackedInitially
<1>3. Typed /\ [Next]_vars => Typed'
  BY BackedByStep
<1>. QED
  BY <1>1, <1>2, <1>3, PTL DEF Spec
=============================================================================
