------------------------------ MODULE KonduitTx ------------------------------
(***************************************************************************)
(* The transaction builder (packages/konduit/tx): what a wallet makes of a *)
(* channel UTxO.  A channel is a stage record of KonduitKernel whose       *)
(* amount leaves out the min-ada buffer of the UTxO (debuffer_amount).     *)
(* A stepping names the step, its evidence and the channel it continues    *)
(* to; NoStepping stands for a StepError.                                  *)
(*                                                                         *)
(* Verifies is the other side: the dispatch of the validator's Main        *)
(* (kernel/lib/konduit/spend/main.ak) on the transaction so built.         *)
(***************************************************************************)
EXTENDS KonduitReceipt

NoStepping == [step |-> "None"]

\* Bounds::twenty_mins is a window around the clock; the steps of the provider
\* carry its upper end, those of the consumer its lower end (or upper, to close).
Buffered(channel) == [channel EXCEPT !.amount = @ + MinAdaBuffer]

OpenedWith(amount, subbed, useds) ==
    [stage |-> "Opened", amount |-> amount, subbed |-> subbed, useds |-> useds]
ClosedWith(amount, subbed, useds, elapseAt) ==
    [stage |-> "Closed", amount |-> amount, subbed |-> subbed, useds |-> useds,
     elapseAt |-> elapseAt]
RespondedWith(amount, pends) ==
    [stage |-> "Responded", amount |-> amount, pendsAmount |-> ListTotal(pends), pends |-> pends]

\* Mutant: what was taken before is taken again.
GainOfAll(channel, absoluteOwed) == Least(absoluteOwed, channel.amount)

\* What the provider can take: what it is owed, if the channel holds it.
GainOf(channel, absoluteOwed) == Least(Monus(absoluteOwed, channel.subbed), channel.amount)

-----------------------------------------------------------------------------
(* The provider's steps.                                                   *)

SubOf(channel, receipt, prep) ==
    LET gain == GainOf(channel, receipt.squash.amount + ListTotal(prep.useds))
    IN  IF gain = 0 THEN NoStepping
        ELSE [step      |-> "Sub",
              squash    |-> receipt.squash,
              unlockeds |-> prep.unlockeds,
              out       |-> OpenedWith(channel.amount - gain, channel.subbed + gain, prep.useds)]
SubStepping(channel, receipt, upper) ==
    The({SubOf(channel, receipt, prep) : prep \in {PrepSub(receipt, channel.useds, upper)}})

RespondStepping(channel, receipt, upper) ==
    LET prep == PrepRespond(receipt, channel.useds, upper)
        gain == GainOf(channel, receipt.squash.amount + prep.amount)
    IN  [step    |-> "Respond",
         squash  |-> receipt.squash,
         cheques |-> prep.cheques,
         out     |-> RespondedWith(channel.amount - gain, prep.pends)]

\* The builder reveals the secrets of pendings that are out of time, and
\* continues with those it has just revealed (channel.rs:241, 254-259).
UnlockStepping(channel, receipt, upper) ==
    LET Unpend(pend) == LET known == {s \in Secrets(receipt) : Sha2(s) = pend.lock}
                        IN  IF pend.timeout >= upper \/ known = {} THEN Keep
                            ELSE CHOOSE s \in known : TRUE
        revealed == Where(channel.pends, LAMBDA pend : Unpend(pend) # Keep)
    IN  [step    |-> "Unlock",
         unpends |-> [n \in DOMAIN channel.pends |-> Unpend(channel.pends[n])],
         out     |-> RespondedWith(Monus(channel.amount, ListTotal(revealed)), revealed)]

AnySub(channel, receipt, upper) ==
    CASE channel.stage = "Opened"    -> SubStepping(channel, receipt, upper)
      [] channel.stage = "Closed"    -> RespondStepping(channel, receipt, upper)
      [] channel.stage = "Responded" -> UnlockStepping(channel, receipt, upper)

-----------------------------------------------------------------------------
(* The consumer's steps.                                                   *)

AddStepping(channel, amount) ==
    IF channel.stage # "Opened" \/ amount = 0 THEN NoStepping
    ELSE [step |-> "Add", out |-> [channel EXCEPT !.amount = @ + amount]]

CloseStepping(channel, upper) ==
    IF channel.stage # "Opened" THEN NoStepping
    ELSE [step |-> "Close",
          out  |-> ClosedWith(channel.amount, channel.subbed, channel.useds, upper + ClosePeriod)]

Elapses(channel, lower) == channel.elapseAt < lower

ElapseStepping(channel, lower) ==
    IF channel.stage = "Closed" /\ Elapses(channel, lower) THEN [step |-> "Elapse"]
    ELSE NoStepping

\* Mutant: only what is in time is dropped.
IsAlive(pend, lower) == pend.timeout >= lower

IsExpired(pend, lower) == pend.timeout < lower

ExpireStepping(channel, lower) ==
    LET kept == Where(channel.pends, LAMBDA pend : ~IsExpired(pend, lower))
    IN  IF Len(kept) = Len(channel.pends) THEN NoStepping
        ELSE [step    |-> "Expire",
              unpends |-> [n \in DOMAIN channel.pends |->
                             IF IsExpired(channel.pends[n], lower) THEN Expired ELSE Keep],
              out     |-> RespondedWith(ListTotal(kept), kept)]

EndStepping(channel, lower) ==
    IF \A n \in DOMAIN channel.pends : IsExpired(channel.pends[n], lower)
    THEN [step |-> "End"] ELSE NoStepping

\* What the consumer's wallet makes of a channel it has no intent for.
ConsumerTick(channel, lower) ==
    CASE channel.stage = "Opened" -> NoStepping
      [] channel.stage = "Closed" -> ElapseStepping(channel, lower)
      [] channel.stage = "Responded" ->
            IF channel.pends = <<>> THEN EndStepping(channel, lower)
                                    ELSE ExpireStepping(channel, lower)

-----------------------------------------------------------------------------
GainBy(channel, stepping) ==
    IF Ends(stepping) THEN channel.amount ELSE channel.amount - stepping.out.amount

Verifies(signed, lower, upper, channel, stepping) ==
    LET in  == Buffered(channel)
        out == IF Ends(stepping) THEN in ELSE Buffered(stepping.out)
    IN  StepHolds(signed, lower, upper, in, out, stepping)
=============================================================================
