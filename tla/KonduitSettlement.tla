-------------------------- MODULE KonduitSettlement --------------------------
(***************************************************************************)
(* A payment channel from its first cheque to its end: the consumer pays   *)
(* with cheques, the provider records them, learns secrets and proposes    *)
(* squashes, and both settle on the ledger with the transactions their     *)
(* wallets build.  A built transaction takes effect only if the validator  *)
(* accepts it; unlike KonduitChannel, no other transaction is submitted.   *)
(*                                                                         *)
(* The provider's record is up to date with the ledger here; the races of  *)
(* its server are the subject of KonduitAdaptor.                           *)
(***************************************************************************)
EXTENDS KonduitTx, KonduitRecord

CONSTANTS
    Secret,     \* preimages of the locks the consumer pays to
    Amounts,    \* what a cheque may be worth
    Timeouts,   \* when a cheque may time out
    Deposits,   \* what the channel may be opened with
    MaxTopUp,   \* bound on what is added to the channel later
    MaxCheques, \* bound on the cheques signed
    MaxTime,    \* bound on the clock
    Ahead,      \* how far the interval of a transaction reaches ahead
    Behind,     \* and how far it reaches back
    MinSingle,  \* AdaptorPreferences::min_single
    Strict      \* does the consumer add a proposal up as l2::Client does?

\* A quote asks at least one lovelace (data.rs:171).
ASSUME AmountsAssumption == Amounts \subseteq Nat \ {0} /\ Deposits \subseteq Nat
ASSUME TimesAssumption == Timeouts \subseteq Nat /\ Ahead \in Nat /\ Behind \in Nat
\* data/src/lib.rs: both are 10.
ASSUME CapacityAssumption == MaxUnsquashed <= MaxExclude
ASSUME MinSingleAssumption == MinSingle \in Nat
ASSUME StrictAssumption == Strict \in BOOLEAN

VARIABLES
    now,        \* the ledger's clock
    channel,    \* the channel UTxO, without its buffer
    receipt,    \* the provider's receipt
    cheques,    \* locked cheque bodies the provider has accepted
    squashes,   \* squash bodies the consumer signed
    earned,     \* those whose secret the provider has learned since
    taken       \* lovelace the provider took out

vars == <<now, channel, receipt, cheques, squashes, earned, taken>>
offchain == <<receipt, cheques, squashes, earned>>

Spent == [stage |-> "Spent"]
Open == channel.stage = "Opened"
Live == channel # Spent
Signed == cheques \cup squashes
Upper == now + Ahead
Lower == Monus(now, Behind)

\* Service::sync_retainers keeps an opened channel as the retainer.
Record == [retainer |-> IF Open THEN RetainerOf(channel) ELSE None, receipt |-> receipt]

-----------------------------------------------------------------------------
(* The consumer opens a channel and the null squash makes the receipt.     *)
Init ==
    /\ now = 0
    /\ channel \in {OpenedWith(deposit, 0, <<>>) : deposit \in Deposits}
    /\ receipt = NewReceipt(ZeroBody)
    /\ cheques = {} /\ squashes = {ZeroBody} /\ earned = {}
    /\ taken = 0

Tick == now < MaxTime /\ now' = now + 1 /\ UNCHANGED <<channel, offchain, taken>>

\* A cheque of the index quoted, which the provider checks and records.
Pay(amount, timeout, secret) ==
    /\ Live /\ MayCommit(Record) /\ Cardinality(cheques) < MaxCheques
    /\ LET locked == [index |-> NextIndexOf(Record), amount |-> amount,
                      timeout |-> timeout, latch |-> Sha2(secret)]
       IN  /\ AcceptsCheque(Record, locked)
           /\ receipt' = WithLocked(receipt, locked)
           /\ cheques' = cheques \cup {locked}
    /\ UNCHANGED <<now, channel, squashes, earned, taken>>

Learn(secret) ==
    /\ TakesSecret(receipt, secret)
    /\ receipt' = WithSecretOf(receipt, secret)
    /\ earned' = earned \cup {c \in cheques : c.latch = Sha2(secret)}
    /\ UNCHANGED <<now, channel, cheques, squashes, taken>>

\* The consumer signs what is proposed, and the provider applies it.
Squash ==
    LET proposal == Proposal(receipt)
    IN  /\ Live /\ proposal.ok /\ proposal.body # receipt.squash
        /\ Strict => AddsUp(receipt, proposal.body)
        /\ TakesSquash(receipt, proposal.body)
        /\ receipt' = WithSquash(receipt, proposal.body)
        /\ squashes' = squashes \cup {proposal.body}
        /\ UNCHANGED <<now, channel, cheques, earned, taken>>

-----------------------------------------------------------------------------
\* A transaction takes effect if it was built (there is at most one) and the
\* validator accepts it.
Submit(steppings) ==
    /\ Live
    /\ \E stepping \in steppings :
          /\ Verifies(Signed, Lower, Upper, channel, stepping)
          /\ channel' = IF Ends(stepping) THEN Spent ELSE stepping.out
    /\ UNCHANGED <<now, offchain>>

\* adaptor::tx leaves out a stepping that gains too little.
ProviderSteppings ==
    {built \in {AnySub(channel, receipt, Upper)} \ {NoStepping} : GainBy(channel, built) >= MinSingle}
ProviderTx ==
    /\ Submit(ProviderSteppings)
    /\ taken' = taken + channel.amount - channel'.amount

TopUp(amount) ==
    /\ Open /\ channel.amount + amount + taken <= MaxTopUp
    /\ Submit({AddStepping(channel, amount)} \ {NoStepping}) /\ UNCHANGED taken
\* The bound on the clock leaves a closed channel the time to elapse.
CloseTx ==
    /\ Open /\ Upper + ClosePeriod + Behind < MaxTime
    /\ Submit({CloseStepping(channel, Upper)} \ {NoStepping})
    /\ UNCHANGED taken
ConsumerTx == Live /\ Submit({ConsumerTick(channel, Lower)} \ {NoStepping}) /\ UNCHANGED taken

Next ==
    \/ Tick \/ Squash \/ ProviderTx \/ CloseTx \/ ConsumerTx
    \/ \E amount \in Amounts, timeout \in Timeouts, secret \in Secret : Pay(amount, timeout, secret)
    \/ \E secret \in Secret : Learn(secret)
    \/ \E amount \in Amounts : TopUp(amount)

Spec == Init /\ [][Next]_vars

\* Both wallets come back to their channels; the provider's on every admin tick.
Fairness == WF_vars(Tick) /\ WF_vars(ConsumerTx) /\ WF_vars(ProviderTx)
FairSpec == Spec /\ Fairness

-----------------------------------------------------------------------------
(* What the squash and the unlocked cheques are worth is what the provider
   has earned: no squash or secret drops a cheque or counts it twice.  Its
   transactions take no more than that, also in the stage where the validator
   does not hold it to it. *)
OwedIsEarned == Owed(receipt) = Total(earned) /\ taken <= Total(earned)

(* The squash the provider proposes can be formed, pays for every unlocked
   cheque, covers no locked one, and is one the provider will accept. *)
ProposalIsSound ==
    LET proposal == Proposal(receipt)
    IN  /\ proposal.ok
        /\ TakesSquash(receipt, proposal.body)
        /\ \A n \in DOMAIN receipt.cheques :
              LET c == receipt.cheques[n]
              IN  IsIndexSquashed(proposal.body, c.body.index) <=> c.unlocked

(* The validator accepts the Respond the provider's wallet builds for a closed
   channel that still owes it something. *)
RespondVerifies ==
    channel.stage = "Closed" =>
        \A built \in ProviderSteppings :
            Verifies(Signed, Lower, Upper, channel, built)

UsedsAccounted(useds) ==
    \A used \in Range(useds) :
        /\ ~IsIndexSquashed(receipt.squash, used.index)
        /\ \E c \in Range(PrepRespond(receipt, useds, Upper).cheques) : c.body.index > used.index
(* The validator accepts what the wallets build: of the provider every Sub, and
   a Respond if the datum's useds are all still to be squashed and all precede a
   cheque it puts forward; of the consumer every Elapse, Expire and End. *)
BuiltVerifies ==
    /\ Open => \A built \in ProviderSteppings :
                  Verifies(Signed, Lower, Upper, channel, built)
    /\ channel.stage = "Closed" /\ UsedsAccounted(channel.useds) => RespondVerifies
    /\ Live => \A built \in {ConsumerTick(channel, Lower)} \ {NoStepping} :
                  Verifies(Signed, Lower, Upper, channel, built)

(* A closed channel ends, through the transactions the wallet builds. *)
ClosedEnds == channel.stage \in {"Closed", "Responded"} ~> channel = Spent

(* What the consumer has squashed is taken, while the channel stays open. *)
SquashedIsTaken ==
    \A amount \in 1..MaxTopUp :
        Open /\ receipt.squash.amount = amount /\ amount <= channel.amount + channel.subbed
            ~> taken >= amount \/ ~Open
=============================================================================
