--------------------------- MODULE KonduitKernel ---------------------------
(***************************************************************************)
(* The on-chain validator of a Konduit channel (packages/kernel): one      *)
(* operator per step of the script, each a predicate on the channel UTxO   *)
(* spent (in), the continuing UTxO produced (out) and the redeemer's       *)
(* evidence.  A channel UTxO is its lovelace and its datum's stage:        *)
(*                                                                         *)
(*   [stage |-> "Opened",    amount, subbed, useds]                        *)
(*   [stage |-> "Closed",    amount, subbed, useds, elapseAt]              *)
(*   [stage |-> "Responded", amount, pendsAmount, pends]                   *)
(*                                                                         *)
(* A signature is membership in a set: "signed" holds every cheque body    *)
(* and squash body the holder of add_vkey has signed for this tag.  A fold *)
(* over a list carries an accumulator whose field ok becomes FALSE where   *)
(* the script would fail.                                                  *)
(***************************************************************************)
EXTENDS Integers, Sequences, SequencesExt, FiniteSetsExt

CONSTANTS
    ClosePeriod,    \* the consumer's promise: time the provider has to respond
    MinAdaBuffer    \* lovelace an Expire must leave on top of the pendings

ASSUME ClosePeriodAssumption == ClosePeriod \in Nat
ASSUME MinAdaBufferAssumption == MinAdaBuffer \in Nat

\* sha2_256 has no collisions and no fixed point the protocol can meet.
Sha2(secret) == <<"sha2_256", secret>>

\* Lovelace of a set, or of a list, of records.
Total(records) == MapThenSumSet(LAMBDA r : r.amount, records)
ListTotal(list) == MapThenSumSet(LAMBDA n : list[n].amount, DOMAIN list)

Entries(list) == {list[n] : n \in DOMAIN list}

\* The entries of a list at the given places, in their order.
EntriesAt(list, places) ==
    LET upTo[n \in 0..Len(list)] ==
            IF n = 0 THEN <<>>
            ELSE IF n \in places THEN Append(upTo[n - 1], list[n]) ELSE upTo[n - 1]
    IN  upTo[Len(list)]

\* The member of a set of one.  Values bound on the way, as in
\* The({e : x \in {v}}), are evaluated once.
The(S) == CHOOSE x \in S : TRUE

\* SelectSeq, by the places it selects: KonduitKernel_proofs reasons on them.
Where(list, Test(_)) ==
    The(UNION {{EntriesAt(l, p) : p \in {{n \in DOMAIN l : Test(l[n])}}} : l \in {list}})

\* The indices up to top that are not among the given, ascending.
Missing(indices, top) ==
    LET upTo[i \in 0..top] ==
            IF i = 0 THEN <<>>
            ELSE IF i \in indices THEN upTo[i - 1] ELSE Append(upTo[i - 1], i)
    IN  upTo[top]

\* The squash body that covers exactly the cheques of S.
SquashOf(S) ==
    LET indices == {c.index : c \in S}
        top     == IF S = {} THEN 0 ELSE CHOOSE i \in indices : \A j \in indices : j <= i
    IN  [amount  |-> Total(S),
         index   |-> top,
         exclude |-> Missing(indices, top)]

\* The empty bytestring among the unpends of an Unlock or an Expire.
Keep == <<>>
\* Any other bytestring settles a pending that is out of time.
Expired == <<"expired">>

UsedOf(cheque) == [index |-> cheque.index, amount |-> cheque.amount]
PendOf(cheque) ==
    [amount |-> cheque.amount, timeout |-> cheque.timeout, lock |-> cheque.latch]

\* The signed (locked) form of an unlocked cheque, whose latch is the secret.
LockedForm(unlocked) == [unlocked EXCEPT !.latch = Sha2(unlocked.latch)]

-----------------------------------------------------------------------------
(* Indexes: a squash accounts for every index up to its own, except those  *)
(* of its exclude list.  at is the index reached and the excludes left.    *)

DropHard(list, i) ==
    LET first == CHOOSE n \in DOMAIN list :
                    list[n] = i /\ \A m \in 1..(n - 1) : list[m] # i
    IN  SubSeq(list, first + 1, Len(list))

\* Mutant: an index equal to the one reached counts again.
IsNotBehind(at, index) == at.index <= index

IsAhead(at, index) == at.index < index

IsUnaccounted(at, index) == IsAhead(at, index) \/ Contains(at.exclude, index)

NextIndex(at, index) ==
    IF IsAhead(at, index)
    THEN [index |-> index, exclude |-> <<>>]
    ELSE [index |-> at.index, exclude |-> DropHard(at.exclude, index)]

\* The useds from the first whose index is no longer below.
DropUntil(useds, index) ==
    LET n == SelectInSeq(useds, LAMBDA used : used.index >= index)
    IN  IF n = 0 THEN <<>> ELSE SubSeq(useds, n, Len(useds))

-----------------------------------------------------------------------------
(* Sub: the provider withdraws against the squash, the useds and fresh     *)
(* unlocked cheques.                                                       *)

Vouches(signed, upper, unlocked, used) ==
    /\ LockedForm(unlocked) \in signed
    /\ upper <= unlocked.timeout
    /\ UsedOf(unlocked) = used

SubWith(signed, upper, acc, used) ==
    LET useds == DropUntil(acc.useds, used.index)
        kept  == useds # <<>> /\ Head(useds).index = used.index
        holds == /\ acc.ok
                 /\ IF kept THEN Head(useds) = used
                    ELSE /\ acc.unlockeds # <<>>
                         /\ Vouches(signed, upper, Head(acc.unlockeds), used)
                 /\ IsUnaccounted(acc.at, used.index)
    IN  IF ~holds THEN [acc EXCEPT !.ok = FALSE]
        ELSE [ok        |-> TRUE,
              owed      |-> acc.owed + used.amount,
              useds     |-> IF kept THEN Tail(useds) ELSE useds,
              unlockeds |-> IF kept THEN acc.unlockeds ELSE Tail(acc.unlockeds),
              at        |-> NextIndex(acc.at, used.index)]

SubAccount(signed, upper, usedsIn, usedsOut, squash, unlockeds) ==
    FoldLeft(LAMBDA acc, used : SubWith(signed, upper, acc, used),
             [ok        |-> squash \in signed,
              owed      |-> squash.amount,
              useds     |-> usedsIn,
              unlockeds |-> unlockeds,
              at        |-> [index |-> squash.index, exclude |-> squash.exclude]],
             usedsOut)

\* Mutant: the datum may record less than what was withdrawn.
RecordsAtMost(in, out) == out.subbed - in.subbed <= in.amount - out.amount

RecordsWithdrawal(in, out) == out.subbed - in.subbed = in.amount - out.amount

SubStep(signed, upper, in, out, squash, unlockeds) ==
    LET account == SubAccount(signed, upper, in.useds, out.useds, squash, unlockeds)
    IN  /\ in.stage = "Opened" /\ out.stage = "Opened"
        /\ RecordsWithdrawal(in, out)
        /\ account.ok
        /\ out.subbed <= account.owed

-----------------------------------------------------------------------------
(* Respond: the provider answers a Close with the squash and a list of     *)
(* cheques [body, unlocked]; the locked ones become the pendings.          *)

\* Mutant: the used of the cheque's own index stays in the list.
PassedBefore(useds, index) ==
    LET n == SelectInSeq(useds, LAMBDA used : used.index >= index)
    IN  IF n = 0 THEN Len(useds) ELSE n - 1

Passed(useds, index) ==
    LET n == SelectInSeq(useds, LAMBDA used : used.index > index)
    IN  IF n = 0 THEN Len(useds) ELSE n - 1

UsedsUpTo(acc, index) ==
    LET n == Passed(acc.useds, index)
    IN  FoldLeft(LAMBDA a, used :
                    IF a.ok /\ IsUnaccounted(a.at, used.index)
                    THEN [a EXCEPT !.owed = @ + used.amount,
                                   !.at = NextIndex(@, used.index)]
                    ELSE [a EXCEPT !.ok = FALSE],
                 [acc EXCEPT !.useds = SubSeq(@, n + 1, Len(@))],
                 SubSeq(acc.useds, 1, n))

RespondWith(signed, upper, acc, cheque) ==
    LET reduced  == UsedsUpTo(acc, cheque.body.index)
        unlocked == cheque.unlocked
        body     == cheque.body
        holds    == /\ reduced.ok
                    /\ IsUnaccounted(reduced.at, body.index)
                    /\ IF unlocked
                       THEN LockedForm(body) \in signed /\ upper <= body.timeout
                       ELSE /\ body \in signed
                            /\ acc.pends # <<>> /\ Head(acc.pends) = PendOf(body)
    IN  IF ~holds THEN [acc EXCEPT !.ok = FALSE]
        ELSE [reduced EXCEPT
                 !.at     = NextIndex(@, body.index),
                 !.owed   = IF unlocked THEN @ + body.amount ELSE @,
                 !.pTotal = IF unlocked THEN @ ELSE @ - body.amount,
                 !.pends  = IF unlocked THEN @ ELSE Tail(@)]

\* Mutant: pends_amount is not checked against the pendings.
PendingsMatched(acc) == acc.pends = <<>>

PendingsAccounted(acc) == acc.pTotal = 0 /\ acc.pends = <<>>

RespondAccount(signed, upper, useds, squash, cheques, pendsAmount, pends) ==
    LET end == FoldLeft(LAMBDA acc, cheque : RespondWith(signed, upper, acc, cheque),
                        [ok     |-> squash \in signed,
                         owed   |-> squash.amount,
                         useds  |-> useds,
                         at     |-> [index |-> squash.index, exclude |-> squash.exclude],
                         pTotal |-> pendsAmount,
                         pends  |-> pends],
                        cheques)
    IN  [end EXCEPT !.ok = @ /\ PendingsAccounted(end)]

\* The sign of the funds' change is the script's own (respond.ak:24).
RespondSubbed(in, out) == in.subbed - in.amount + out.amount

RespondStep(signed, upper, in, out, squash, cheques) ==
    LET account == RespondAccount(signed, upper, in.useds, squash, cheques,
                                  out.pendsAmount, out.pends)
    IN  /\ in.stage = "Closed" /\ out.stage = "Responded"
        /\ account.ok
        /\ account.owed >= RespondSubbed(in, out)

-----------------------------------------------------------------------------
(* Unlock and Expire: one unpend per pending, Keep or the evidence that    *)
(* settles it.                                                             *)

\* Mutant: a pending that is kept may be missing from the new datum.
PendKeptLoosely(acc) == TRUE

PendKept(acc) == acc.pendsOut # <<>> /\ Head(acc.pendsIn) = Head(acc.pendsOut)

PendsWith(acc, unpend, settles) ==
    IF ~acc.ok \/ acc.pendsIn = <<>> THEN [acc EXCEPT !.ok = FALSE]
    ELSE IF unpend = Keep
    THEN IF PendKept(acc)
         THEN [acc EXCEPT !.pendsIn = Tail(@), !.pendsOut = SubSeq(@, 2, Len(@))]
         ELSE [acc EXCEPT !.ok = FALSE]
    ELSE IF settles
    THEN [acc EXCEPT !.total = @ + Head(acc.pendsIn).amount, !.pendsIn = Tail(@)]
    ELSE [acc EXCEPT !.ok = FALSE]

PendsBefore(pendsIn, pendsOut) ==
    [ok |-> TRUE, total |-> 0, pendsIn |-> pendsIn, pendsOut |-> pendsOut]
\* What the walk leaves of the old pendings must be what it leaves of the new.
PendsAfter(acc) == [ok |-> acc.ok /\ acc.pendsIn = acc.pendsOut, total |-> acc.total]

UnlockSettles(upper, pend, secret) == Sha2(secret) = pend.lock /\ upper <= pend.timeout

\* Mutant: the comparison of the builder, turned around.
ExpireSettlesEarly(lower, pend) == pend.timeout >= lower

ExpireSettles(lower, pend) == pend.timeout <= lower

UnlockAccount(upper, unpends, pendsIn, pendsOut) ==
    PendsAfter(FoldLeft(LAMBDA acc, secret :
                            PendsWith(acc, secret, UnlockSettles(upper, Head(acc.pendsIn), secret)),
                        PendsBefore(pendsIn, pendsOut), unpends))

ExpireAccount(lower, unpends, pendsIn, pendsOut) ==
    PendsAfter(FoldLeft(LAMBDA acc, unpend :
                            PendsWith(acc, unpend, ExpireSettles(lower, Head(acc.pendsIn))),
                        PendsBefore(pendsIn, pendsOut), unpends))

UnlockStep(upper, in, out, unpends) ==
    LET account == UnlockAccount(upper, unpends, in.pends, out.pends)
    IN  /\ in.stage = "Responded" /\ out.stage = "Responded"
        /\ account.ok
        /\ account.total = in.pendsAmount - out.pendsAmount
        /\ account.total >= in.amount - out.amount

\* Mutant: the pendings that stay need not be covered.
CoversBuffer(out) == out.amount >= MinAdaBuffer

CoversPendings(out) == out.amount >= out.pendsAmount + MinAdaBuffer

ExpireStep(lower, in, out, unpends) ==
    LET account == ExpireAccount(lower, unpends, in.pends, out.pends)
    IN  /\ in.stage = "Responded" /\ out.stage = "Responded"
        /\ account.ok
        /\ account.total = in.pendsAmount - out.pendsAmount
        /\ CoversPendings(out)

-----------------------------------------------------------------------------
(* The consumer's steps without evidence.                                  *)

AddStep(in, out) ==
    /\ in.stage = "Opened"
    /\ out = [in EXCEPT !.amount = out.amount]
    /\ in.amount < out.amount

\* Mutant: the close period is forgotten.
LeavesNoPeriod(upper, elapseAt) == upper <= elapseAt

LeavesPeriod(upper, elapseAt) == upper <= elapseAt - ClosePeriod

CloseStep(upper, in, out) ==
    /\ in.stage = "Opened" /\ out.stage = "Closed"
    /\ out.subbed = in.subbed /\ out.useds = in.useds
    /\ in.amount <= out.amount
    /\ LeavesPeriod(upper, out.elapseAt)

ElapseStep(lower, in) == in.stage = "Closed" /\ in.elapseAt <= lower

\* Mutant: a channel ends only when every pending was settled before.
EndStepEmpty(lower, in) == in.stage = "Responded" /\ in.pends = <<>>

EndStep(lower, in) ==
    /\ in.stage = "Responded"
    /\ \A n \in DOMAIN in.pends : in.pends[n].timeout <= lower
-----------------------------------------------------------------------------
(* Main's dispatch: a step is a record of its name and its evidence.       *)

Ends(step) == step.step \in {"Elapse", "End"}
ByConsumerKey(step) == step.step \in {"Add", "Close", "Expire", "Elapse", "End"}

StepHolds(signed, lower, upper, in, out, step) ==
    CASE step.step = "Add"     -> AddStep(in, out)
      [] step.step = "Sub"     -> SubStep(signed, upper, in, out, step.squash, step.unlockeds)
      [] step.step = "Close"   -> CloseStep(upper, in, out)
      [] step.step = "Respond" -> RespondStep(signed, upper, in, out, step.squash, step.cheques)
      [] step.step = "Unlock"  -> UnlockStep(upper, in, out, step.unpends)
      [] step.step = "Expire"  -> ExpireStep(lower, in, out, step.unpends)
      [] step.step = "Elapse"  -> ElapseStep(lower, in)
      [] step.step = "End"     -> EndStep(lower, in)

-----------------------------------------------------------------------------
(* A channel seen as balances, for KonduitPromise.                         *)

Phase(state) ==
    CASE state.stage = "Opened"    -> "open"
      [] state.stage = "Closed"    -> "closing"
      [] state.stage = "Responded" -> "answered"
      [] OTHER -> CASE state.by = "Elapse" -> "reclaimed"
                    [] state.by = "End"    -> "finished"
                    [] state.by = "Mutual" -> "agreed"
                    [] OTHER               -> "lost"
Funds(state) == IF state.stage = "Spent" THEN 0 ELSE state.amount
Held(state) == IF state.stage = "Responded" THEN state.pendsAmount ELSE 0
Waits(state) == IF state.stage = "Responded"
                THEN {pend.timeout : pend \in Entries(state.pends)} ELSE {}
=============================================================================
