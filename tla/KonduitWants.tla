---------------------------- MODULE KonduitWants ----------------------------
(***************************************************************************)
(* A channel of the second transaction builder (packages/konduit/tx2):     *)
(* what an output says of it, what is offered for its stage, and what      *)
(* becomes of a want in the interval that the transaction has.             *)
(*                                                                         *)
(*   want      [kind, amount, squash, cheques, secrets]                    *)
(*   interval  [lower, upper]                                              *)
(*   will      a stepping of KonduitTx: a step with the channel that goes  *)
(*             on (Will::Cont), or alone (Will::Eol); NoStepping stands    *)
(*             for every error                                             *)
(*                                                                         *)
(* Steps are those of the kernel; cheques carry their secret once known.   *)
(***************************************************************************)
EXTENDS KonduitTx

-----------------------------------------------------------------------------
(* The channel in an output at the validator's address.                    *)

Debuffered(lovelace) == Monus(lovelace, MinAdaBuffer)

\* An output that anyone may make has any datum, or none.
IsChannel(out) == out.datum # <<>>
FromOutput(out, lovelace) == [out.datum.state EXCEPT !.amount = Debuffered(lovelace)]

BufferedAmount(channel) == channel.amount + MinAdaBuffer
NewOpen(amount) == OpenedWith(amount, 0, <<>>)

NoTime == -1
ElapseAt(channel) == IF channel.stage = "Closed" THEN channel.elapseAt ELSE NoTime

-----------------------------------------------------------------------------
(* What a receipt is worth on a channel.                                   *)

\* Cheques in time and not used before.
Active(cheques, useds, upper) ==
    SelectSeq(cheques, LAMBDA c : c.body.timeout > upper /\ ~IsUsed(useds, c.body.index))

OwedUseds(useds, squash) == SelectSeq(useds, LAMBDA used : ~IsIndexSquashed(squash, used.index))

\* The useds of what goes on: those still owed and those of the unlocked, by index.
PrepareSub(squash, unlockeds, useds, upper) ==
    LET active == Active(unlockeds, useds, upper)
    IN  [unlockeds |-> [n \in DOMAIN active |-> active[n].body],
         useds     |-> ByIndex(OwedUseds(useds, squash) \o [n \in DOMAIN active |-> UsedOf(active[n].body)])]

PrepareRespond(squash, cheques, useds, upper) ==
    LET active == Active(cheques, useds, upper)
        locked == SelectSeq(active, LAMBDA c : ~c.unlocked)
        open   == SelectSeq(active, LAMBDA c : c.unlocked)
    IN  [cheques |-> active,
         pends   |-> [n \in DOMAIN locked |-> PendOf(locked[n].body)],
         amount  |-> ListTotal(OwedUseds(useds, squash)) + ListTotal(Bodies(open))]

-----------------------------------------------------------------------------
(* What is offered.                                                        *)

Can(channel) ==
    CASE channel.stage = "Opened"    -> {"Add", "Sub", "Close"}
      [] channel.stage = "Closed"    -> {"Respond", "Elapse"}
      [] channel.stage = "Responded" -> {"Unlock", "Expire", "End"}

\* The menu of the prompt: what a receipt is wanted for, with a receipt only.
Offered(channel, hasReceipt) ==
    IF hasReceipt THEN Can(channel) ELSE Can(channel) \ {"Sub", "Respond", "Unlock"}

OnlyUnlocked(receipt) == SelectSeq(receipt.cheques, LAMBDA c : c.unlocked)

WantOf(kind, receipt, amount) ==
    [kind    |-> kind, amount |-> amount, squash |-> receipt.squash,
     cheques |-> IF kind = "Sub" THEN OnlyUnlocked(receipt) ELSE receipt.cheques,
     secrets |-> Secrets(receipt)]

-----------------------------------------------------------------------------
(* What becomes of a want.                                                 *)

WantAdd(channel, want) ==
    IF channel.stage # "Opened" \/ want.amount = 0 THEN NoStepping
    ELSE [step |-> "Add", out |-> [channel EXCEPT !.amount = @ + want.amount]]

WantSub(channel, want, interval) ==
    LET prepared == PrepareSub(want.squash, want.cheques, channel.useds, interval.upper)
        gain     == GainOf(channel, want.squash.amount + ListTotal(prepared.useds))
    IN  IF channel.stage # "Opened" \/ gain = 0 THEN NoStepping
        ELSE [step      |-> "Sub", squash |-> want.squash, unlockeds |-> prepared.unlockeds,
              out       |-> OpenedWith(channel.amount - gain, channel.subbed + gain, prepared.useds)]

WantClose(channel, interval) ==
    IF channel.stage # "Opened" THEN NoStepping
    ELSE [step |-> "Close",
          out  |-> ClosedWith(channel.amount, channel.subbed, channel.useds, interval.upper + ClosePeriod)]

RespondsBefore(upper, elapseAt) == upper < elapseAt

WantRespond(channel, want, interval) ==
    LET prepared == PrepareRespond(want.squash, want.cheques, channel.useds, interval.upper)
        gain     == GainOf(channel, want.squash.amount + prepared.amount)
    IN  IF channel.stage # "Closed" \/ ~RespondsBefore(interval.upper, channel.elapseAt) THEN NoStepping
        ELSE [step    |-> "Respond", squash |-> want.squash, cheques |-> prepared.cheques,
              out     |-> RespondedWith(channel.amount - gain, prepared.pends)]

WantElapse(channel, interval) ==
    IF ElapseAt(channel) = NoTime \/ interval.lower <= ElapseAt(channel) THEN NoStepping
    ELSE [step |-> "Elapse"]

WantEnd(channel, interval) ==
    IF channel.stage # "Responded" \/ \E pend \in Range(channel.pends) : pend.timeout >= interval.lower
    THEN NoStepping ELSE [step |-> "End"]

\* The pendings whose secrets are revealed are those that are out of time.
WantUnlock(channel, want, interval) ==
    LET Unpend(pend) == LET known == {s \in want.secrets : Sha2(s) = pend.lock}
                        IN  IF pend.timeout >= interval.upper \/ known = {} THEN Keep
                            ELSE CHOOSE s \in known : TRUE
        Kept(pend)   == Unpend(pend) = Keep
        revealed     == SelectSeq(channel.pends, LAMBDA pend : ~Kept(pend))
    IN  IF channel.stage # "Responded" THEN NoStepping
        ELSE [step    |-> "Unlock",
              unpends |-> [n \in DOMAIN channel.pends |-> Unpend(channel.pends[n])],
              out     |-> RespondedWith(Monus(channel.amount, ListTotal(revealed)),
                                        SelectSeq(channel.pends, Kept))]

WantExpire(channel, interval) ==
    LET Late(pend) == pend.timeout < interval.lower
        kept       == SelectSeq(channel.pends, LAMBDA pend : ~Late(pend))
    IN  IF channel.stage # "Responded" \/ Len(kept) = Len(channel.pends) THEN NoStepping
        ELSE [step    |-> "Expire",
              unpends |-> [n \in DOMAIN channel.pends |-> IF Late(channel.pends[n]) THEN Expired ELSE Keep],
              out     |-> RespondedWith(ListTotal(kept), kept)]

Resolve(channel, want, interval) ==
    CASE want.kind = "Add"     -> WantAdd(channel, want)
      [] want.kind = "Sub"     -> WantSub(channel, want, interval)
      [] want.kind = "Close"   -> WantClose(channel, interval)
      [] want.kind = "Respond" -> WantRespond(channel, want, interval)
      [] want.kind = "End"     -> WantEnd(channel, interval)
      [] want.kind = "Elapse"  -> WantElapse(channel, interval)
      [] want.kind = "Unlock"  -> WantUnlock(channel, want, interval)
      [] want.kind = "Expire"  -> WantExpire(channel, interval)

-----------------------------------------------------------------------------
(* Who signs a will.                                                       *)

IsAdaptor(will) == will.step \in {"Sub", "Respond", "Unlock"}
Signer(constants, will) == IF IsAdaptor(will) THEN constants.sub ELSE constants.add
=============================================================================
