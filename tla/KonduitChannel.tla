--------------------------- MODULE KonduitChannel ---------------------------
(***************************************************************************)
(* One channel on the ledger.  The consumer (add_vkey) signs cheques and   *)
(* squashes off chain; the provider (sub_vkey) learns secrets; either      *)
(* submits any transaction the validator accepts: the outputs are not      *)
(* those of the wallet's builder but every output of the bounded instance. *)
(*                                                                         *)
(* A transaction carries a validity interval [lower, upper] that the       *)
(* ledger checks against the clock; the script sees the interval only.     *)
(***************************************************************************)
EXTENDS KonduitKernel

CONSTANTS
    Secret,      \* preimages
    Offers,      \* the (locked) cheques the consumer may sign
    MaxAmount,   \* bound on the lovelace of the channel UTxO
    MaxTime,     \* bound on the clock and on elapse_at
    Slack,       \* how far a validity interval reaches from the clock
    MaxList,     \* bound on the length of an evidence list
    MaxSquashes, \* bound on the number of squashes the consumer signs
    MaxGift      \* bound on the lovelace the provider pays in, net

Index == Nat \ {0}
Lock == {Sha2(s) : s \in Secret}
ChequeBody == [index : Index, amount : Nat, timeout : Nat, latch : Lock]

ASSUME OffersAssumption == Offers \subseteq ChequeBody
ASSUME BoundsAssumption ==
    /\ MaxAmount \in Nat /\ MaxTime \in Nat /\ Slack \in Nat
    /\ MaxList \in Nat /\ MaxGift \in Nat /\ MaxSquashes \in Nat

Used == [index : Index, amount : Nat]
Pending == [amount : Nat, timeout : Nat, lock : Lock]
SquashBody == [amount : Nat, index : Nat, exclude : Seq(Nat)]

Opened    == [stage : {"Opened"}, amount : Nat, subbed : Int, useds : Seq(Used)]
Closed    == [stage : {"Closed"}, amount : Nat, subbed : Int, useds : Seq(Used),
              elapseAt : Nat]
Responded == [stage : {"Responded"}, amount : Nat, pendsAmount : Int,
              pends : Seq(Pending)]
Spent     == [stage : {"Spent"}, by : {"Elapse", "End", "Mutual"}]

VARIABLES
    now,        \* the ledger's clock
    utxo,       \* the channel UTxO, or what spent it
    cheques,    \* cheque bodies the consumer signed
    squashes,   \* squash bodies the consumer signed
    revealed,   \* secrets the provider knows
    taken,      \* lovelace the provider took out, net
    closedAt    \* when the Close was included

ledger == <<utxo, taken, closedAt>>
evidence == <<cheques, squashes, revealed>>
vars == <<now, utxo, cheques, squashes, revealed, taken, closedAt>>

-----------------------------------------------------------------------------
Amounts == 0..MaxAmount
Interval == [lower : {t \in 0..now : now - t <= Slack}, upper : now..(now + Slack)]
ListsOf(S) == UNION {[1..n -> S] : n \in 0..MaxList}

\* The lists the walks of the validator accept are ascending (MCKernel).
AscendingLists(S, Idx(_)) ==
    {list \in ListsOf(S) : \A m, n \in DOMAIN list : m < n => Idx(list[m]) < Idx(list[n])}

Signed == cheques \cup squashes
Unlocked == {c \in cheques : c.latch[2] \in revealed}
WithSecret(c) == [c EXCEPT !.latch = c.latch[2]]

-----------------------------------------------------------------------------
Init ==
    /\ now = 0
    /\ utxo \in [stage : {"Opened"}, amount : Amounts, subbed : {0}, useds : {<<>>}]
    /\ cheques = {} /\ revealed = {}
    /\ squashes = {SquashOf({})}
    /\ taken = 0 /\ closedAt = 0

Tick == now < MaxTime /\ now' = now + 1 /\ UNCHANGED <<ledger, evidence>>

\* A cheque's index is above that of every cheque signed before.
SignCheque(c) ==
    /\ utxo.stage # "Spent"
    /\ \A d \in cheques : d.index < c.index
    /\ cheques' = cheques \cup {c}
    /\ UNCHANGED <<now, ledger, squashes, revealed>>

Reveal(s) ==
    /\ \E c \in cheques : c.latch = Sha2(s)
    /\ revealed' = revealed \cup {s}
    /\ UNCHANGED <<now, ledger, cheques, squashes>>

\* Mutant: the consumer squashes cheques that are still locked.
SignSquashOfLocked(S) ==
    /\ utxo.stage # "Spent"
    /\ squashes' = squashes \cup {SquashOf(cheques)}
    /\ UNCHANGED <<now, ledger, cheques, revealed>>

\* The consumer squashes cheques it has seen the secrets of.
SignSquash(S) ==
    /\ utxo.stage # "Spent"
    /\ S \subseteq Unlocked
    /\ squashes' = squashes \cup {SquashOf(S)}
    /\ Cardinality(squashes') <= MaxSquashes + 1
    /\ UNCHANGED <<now, ledger, cheques, revealed>>

-----------------------------------------------------------------------------
ByConsumer(out) == utxo' = out /\ UNCHANGED <<now, evidence, taken>>
ByProvider(out) ==
    /\ utxo' = out
    /\ taken' = taken + utxo.amount - out.amount
    /\ taken' >= -MaxGift
    /\ UNCHANGED <<now, evidence, closedAt>>

Add(amount) ==
    /\ utxo.stage = "Opened"
    /\ LET out == [utxo EXCEPT !.amount = amount]
       IN  AddStep(utxo, out) /\ ByConsumer(out)
    /\ UNCHANGED closedAt

Sub(interval, squash, useds, unlockeds, subbed, amount) ==
    /\ utxo.stage = "Opened"
    /\ LET out == [stage |-> "Opened", amount |-> amount,
                   subbed |-> subbed, useds |-> useds]
       IN  /\ SubStep(Signed, interval.upper, utxo, out, squash, unlockeds)
           /\ ByProvider(out)

Close(interval, amount, elapseAt) ==
    /\ utxo.stage = "Opened"
    /\ LET out == [stage |-> "Closed", amount |-> amount, subbed |-> utxo.subbed,
                   useds |-> utxo.useds, elapseAt |-> elapseAt]
       IN  CloseStep(interval.upper, utxo, out) /\ ByConsumer(out)
    /\ closedAt' = now

Respond(interval, squash, list, pends, pendsAmount, amount) ==
    /\ utxo.stage = "Closed"
    /\ LET out == [stage |-> "Responded", amount |-> amount,
                   pendsAmount |-> pendsAmount, pends |-> pends]
       IN  RespondStep(Signed, interval.upper, utxo, out, squash, list) /\ ByProvider(out)

Unlock(interval, unpends, pends, pendsAmount, amount) ==
    /\ utxo.stage = "Responded"
    /\ LET out == [stage |-> "Responded", amount |-> amount,
                   pendsAmount |-> pendsAmount, pends |-> pends]
       IN  UnlockStep(interval.upper, utxo, out, unpends) /\ ByProvider(out)

Expire(interval, unpends, pends, pendsAmount, amount) ==
    /\ utxo.stage = "Responded"
    /\ LET out == [stage |-> "Responded", amount |-> amount,
                   pendsAmount |-> pendsAmount, pends |-> pends]
       IN  ExpireStep(interval.lower, utxo, out, unpends) /\ ByConsumer(out)
    /\ UNCHANGED closedAt

Elapse(interval) ==
    /\ ElapseStep(interval.lower, utxo)
    /\ ByConsumer([stage |-> "Spent", by |-> "Elapse"])
    /\ UNCHANGED closedAt

End(interval) ==
    /\ EndStep(interval.lower, utxo)
    /\ ByConsumer([stage |-> "Spent", by |-> "End"])
    /\ UNCHANGED closedAt

\* Both parties sign; the script checks nothing of the channel.
Mutual ==
    /\ utxo.stage # "Spent"
    /\ utxo' = [stage |-> "Spent", by |-> "Mutual"]
    /\ UNCHANGED <<now, evidence, taken, closedAt>>

-----------------------------------------------------------------------------
(* The transactions of an instance: among the outputs, those the validator *)
(* should accept and those that record a wrong total or forget a pending.  *)

ChequeList == AscendingLists([body : cheques, unlocked : {FALSE}]
                  \cup {[body |-> WithSecret(c), unlocked |-> TRUE] : c \in Unlocked},
                  LAMBDA cheque : cheque.body.index)
Totals(pends) == {ListTotal(pends), ListTotal(pends) + 1} \cap Nat
Subbeds(amount) == {utxo.subbed, utxo.subbed + utxo.amount - amount}
LockedPends(list) ==
    LET locked == SelectSeq(list, LAMBDA cheque : ~cheque.unlocked)
        pends  == [n \in DOMAIN locked |-> PendOf(locked[n].body)]
    IN  {pends, SubSeq(pends, 2, Len(pends))} \cap Seq(Pending)

SubTx ==
    /\ utxo.stage = "Opened"
    /\ \E interval \in Interval, squash \in squashes, amount \in Amounts,
          useds \in AscendingLists({UsedOf(c) : c \in cheques}, LAMBDA u : u.index),
          unlockeds \in AscendingLists({WithSecret(c) : c \in Unlocked}, LAMBDA c : c.index) :
          \E subbed \in Subbeds(amount) :
             Sub(interval, squash, useds, unlockeds, subbed, amount)

RespondTx ==
    /\ utxo.stage = "Closed"
    /\ \E interval \in Interval, squash \in squashes, amount \in Amounts, list \in ChequeList :
          \E pends \in LockedPends(list) : \E pendsAmount \in Totals(pends) :
             Respond(interval, squash, list, pends, pendsAmount, amount)

UnlockTx ==
    /\ utxo.stage = "Responded"
    /\ \E interval \in Interval, amount \in Amounts, pends \in ListsOf(Entries(utxo.pends)),
          unpends \in ListsOf({Keep} \cup revealed) :
          \E pendsAmount \in Totals(pends) :
             Unlock(interval, unpends, pends, pendsAmount, amount)

ExpireTx ==
    /\ utxo.stage = "Responded"
    /\ \E interval \in Interval, amount \in Amounts, pends \in ListsOf(Entries(utxo.pends)),
          unpends \in ListsOf({Keep, Expired}) :
          \E pendsAmount \in Totals(pends) :
             Expire(interval, unpends, pends, pendsAmount, amount)

CloseTx == \E interval \in Interval, amount \in Amounts, elapseAt \in 0..MaxTime :
              Close(interval, amount, elapseAt)

Next ==
    \/ Tick
    \/ \E c \in Offers : SignCheque(c)
    \/ \E s \in Secret : Reveal(s)
    \/ \E S \in SUBSET Unlocked : SignSquash(S)
    \/ \E amount \in Amounts : Add(amount)
    \/ SubTx \/ CloseTx \/ RespondTx \/ UnlockTx \/ ExpireTx
    \/ \E interval \in Interval : Elapse(interval) \/ End(interval)
    \/ Mutual

Spec == Init /\ [][Next]_vars

\* The consumer's wallet ticks elapse, expire and end over its channels.
Fairness ==
    /\ WF_vars(Tick)
    /\ WF_vars(\E interval \in Interval : Elapse(interval))
    /\ WF_vars(\E interval \in Interval : End(interval))

FairSpec == Spec /\ Fairness

-----------------------------------------------------------------------------
TypeOK ==
    /\ now \in 0..MaxTime
    /\ utxo \in Opened \cup Closed \cup Responded \cup Spent
    /\ cheques \subseteq Offers
    /\ squashes \subseteq {SquashOf(S) : S \in SUBSET Unlocked}
    /\ revealed \subseteq Secret
    /\ taken \in Int
    /\ closedAt \in 0..now

(* While the channel is open or closed its datum says what the provider has
   taken, whatever Adds, Subs and Closes came in between. *)
SubbedIsTaken == utxo.stage \in {"Opened", "Closed"} => utxo.subbed = taken

(* The provider never takes out more than the cheques whose secrets it
   learned are worth: squashes, useds and unlocked cheques of several Subs
   never account for a cheque twice. *)
NeverOverpaid == utxo.stage \in {"Opened", "Closed"} => taken <= Total(Unlocked)

(* Once responded, the provider has taken no more than it was owed. *)
ResponseTakesOnlyOwed == utxo.stage = "Responded" => taken <= Total(Unlocked)

(* The pendings of the datum are cheques the consumer signed, none of them
   listed twice, and pends_amount is their total. *)
PendingsAreSigned ==
    utxo.stage = "Responded" =>
        /\ utxo.pendsAmount = ListTotal(utxo.pends)
        /\ \A n \in DOMAIN utxo.pends :
              Cardinality({m \in DOMAIN utxo.pends : utxo.pends[m] = utxo.pends[n]})
                 <= Cardinality({c \in cheques : PendOf(c) = utxo.pends[n]})

\* The steps that the three action properties below allow.
ElapseWaits == utxo'.stage = "Spent" /\ utxo.stage = "Closed" /\ utxo'.by = "Elapse"
                   => now >= closedAt + ClosePeriod
(* An Elapse comes no sooner than the close period after the Close. *)
ResponseWindow == [][ElapseWaits]_vars

PendingsCovered ==
    utxo.stage = "Responded" /\ utxo'.stage = "Responded"
        /\ utxo.amount >= utxo.pendsAmount
        => utxo'.amount >= utxo'.pendsAmount
(* A channel that holds its pendings goes on holding them, whoever settles
   some of them and whatever is taken out. *)
PendingsStayFunded == [][PendingsCovered]_vars

Copies(state, pend) ==
    IF state.stage # "Responded" THEN 0
    ELSE Cardinality({n \in DOMAIN state.pends : state.pends[n] = pend})
PendingsKept ==
    utxo.stage = "Responded" /\ ~(utxo'.stage = "Spent" /\ utxo'.by = "Mutual") =>
        \A pend \in Entries(utxo.pends) :
            Copies(utxo', pend) < Copies(utxo, pend)
                => pend.lock[2] \in revealed \/ pend.timeout <= now
(* A pending leaves the channel only when its secret is known to the
   provider or its timeout has passed, unless both parties sign. *)
PendingsLeaveInTime == [][PendingsKept]_vars

(* A consumer that closes gets the rest of its funds, whatever the provider
   does or fails to do. *)
ConsumerExits == utxo.stage \in {"Closed", "Responded"} ~> utxo.stage = "Spent"

-----------------------------------------------------------------------------
(* The promise: the channel seen as balances and evidence.                 *)

Promise == INSTANCE KonduitPromise WITH
    phase <- Phase(utxo), funds <- Funds(utxo), earned <- Unlocked, since <- closedAt,
    held <- Held(utxo), waits <- Waits(utxo), Worth <- Total

(* Every transaction the validator accepts is one that the promise allows:
   a Sub a withdrawal of what is earned, an Unlock or Expire a settlement
   of what was held, an Elapse or End a way out that was waited for. *)
ImplementsPromise == Promise!Spec
=============================================================================
