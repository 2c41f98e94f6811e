--------------------------- MODULE KonduitAdaptor ---------------------------
(***************************************************************************)
(* The provider's server (packages/konduit/server) over one channel: the   *)
(* requests it serves at the same time, the admin loop that syncs with the *)
(* ledger and claims, and the operation that applies revealed secrets.     *)
(*                                                                         *)
(* An action runs from one await to the next.  The record in the database  *)
(* is read and written in transactions, but what a task read before an     *)
(* await is what it uses after it.  A crash forgets the tasks and keeps    *)
(* the database.  Deadlines are the subject of KonduitSettlement: the      *)
(* clock stands at zero here, and a closed channel may elapse at any time. *)
(***************************************************************************)
EXTENDS KonduitTx, KonduitRecord

CONSTANTS
    Slot,             \* requests served at the same time
    Secret,           \* preimages; the invoice of a secret asks for Msat
    Msat,             \* amount_msat of an invoice
    RouteFees,        \* fees the lightning node may quote, in msat
    Rates,            \* <<n, d>>: n lovelace for d msat, as the price feed may report
    FeePlaceholder,   \* FEE_PLACEHOLDER, in lovelace
    AdaptorTimeDelta, \* ADAPTOR_TIME_DELTA
    Word,             \* what an unsigned subtraction wraps around at
    PayAmounts,       \* what the cheques of the consumer may be worth
    Timeouts,         \* when they may time out
    MaxIndexSigned,   \* bound on the index of a cheque
    Deposit,          \* what the channel is opened with
    MaxTopUp,         \* bound on what is added to the channel later
    Upper,            \* upper end of the provider's validity intervals
    MinSingle,        \* AdaptorPreferences::min_single
    MaxFaults         \* bound on the crashes and failed calls

ASSUME WordAssumption == Word \in Nat \ {0}
ASSUME MsatAssumption == Msat \in Nat
ASSUME RatesAssumption == Rates \subseteq (Nat \ {0}) \X (Nat \ {0})
ASSUME FeePlaceholderAssumption == FeePlaceholder \in Nat
ASSUME RouteFeesAssumption == RouteFees \subseteq Nat
ASSUME DepositAssumption == Deposit \in Nat
ASSUME MaxIndexSignedAssumption == MaxIndexSigned \in Nat

\* The consumer pays what a quote asks: the placeholder, and at least one more.
ASSUME PayAmountsAssumption == PayAmounts \subseteq {a \in Nat : a > FeePlaceholder}

VARIABLES
    chain,      \* [version, channel]: the channel UTxO, without its buffer
    mempool,    \* the provider's transactions, each spending a version
    known,      \* does the database have a row of the channel?
    record,     \* the row, or the default it starts from
    tasks,      \* what each slot is doing
    unlocks,    \* the locks Service::unlocks is asking secrets for, or Idle
    admin,      \* where Service::sync is
    bln,        \* the lightning node's payment of each secret, and its fee limit
    rate,       \* the price feed's last answer
    accepted,   \* cheques the server accepted
    squashes,   \* squashes the consumer signed
    faults      \* crashes and failed calls

tasking == <<tasks, unlocks, admin>>
world == <<chain, mempool, bln, rate>>
database == <<known, record>>
history == <<accepted, squashes, faults>>
vars == <<chain, mempool, known, record, tasks, unlocks, admin, bln, rate, accepted, squashes, faults>>

Idle == [pc |-> "idle"]
Spent == [stage |-> "Spent"]
Channel == chain.channel
Signed == accepted \cup squashes

\* fx_client::State::msat_to_lovelace and lovelace_to_msat
Lovelace(msat, at) == (msat * at[1]) \div at[2]
Millisat(lovelace, at) == (lovelace * at[2]) \div at[1]

Init ==
    /\ chain = [version |-> 0, channel |-> OpenedWith(Deposit, 0, <<>>)]
    /\ mempool = {}
    /\ known = FALSE /\ record = NewRecord
    /\ tasks = [slot \in Slot |-> Idle] /\ unlocks = Idle /\ admin = Idle
    /\ bln = [secret \in Secret |-> [is |-> "idle", limit |-> 0]]
    /\ rate \in Rates
    /\ accepted = {} /\ squashes = {ZeroBody} /\ faults = 0

-----------------------------------------------------------------------------
(* POST /squash: one transaction of the database, whose failure is not     *)
(* reported.                                                               *)
PostSquash(squash) ==
    /\ known
    /\ AcceptsSquash(record, squash)
    /\ record' = SquashInto(record, squash)
    /\ squashes' = squashes \cup {squash}
    /\ UNCHANGED <<known, tasking, world, accepted, faults>>

\* The consumer posts the proposal, or again a squash it signed before.
Proposed ==
    IF HasReceipt(record) /\ Proposal(record.receipt).ok
    THEN {Proposal(record.receipt).body} ELSE {}

-----------------------------------------------------------------------------
(* POST /quote: a check, the lightning node's answer, a second check       *)
(* against the record read first.                                          *)
QuoteAmount(msat) == Lovelace(msat, rate) + FeePlaceholder + 1

QuoteBegin(slot) ==
    /\ tasks[slot] = Idle
    /\ CanCommit(record, QuoteAmount(Msat))
    /\ tasks' = [tasks EXCEPT ![slot] = [pc |-> "quote", snap |-> record]]
    /\ UNCHANGED <<unlocks, admin, world, database, history>>

\* The quote goes to the consumer, or an error does: nothing is kept of it.
QuoteEnd(slot) ==
    /\ tasks[slot].pc = "quote"
    /\ tasks' = [tasks EXCEPT ![slot] = Idle]
    /\ UNCHANGED <<unlocks, admin, world, database, history>>

Quotes(snap) ==
    {[index |-> NextIndexOf(snap), amount |-> QuoteAmount(Msat + fee)] :
        fee \in {f \in RouteFees : CanCommit(snap, QuoteAmount(Msat + f))}}

-----------------------------------------------------------------------------
(* POST /pay: the commitments are aligned, the cheque is recorded, then    *)
(* the lightning node is asked to pay.  Its answer is not recorded.        *)

\* locked.amount() - FEE_PLACEHOLDER wraps where overflow is not checked.
FeeLimit(locked) == Monus(Millisat((locked.amount - FeePlaceholder) % Word, rate), Msat)
Aligned(locked) == FeeLimit(locked) >= 1 /\ locked.timeout - AdaptorTimeDelta >= 1

\* Mutant: a cheque that is refused is paid for all the same.
PayAnyway(slot, locked) ==
    /\ tasks[slot] = Idle /\ Aligned(locked)
    /\ tasks' = [tasks EXCEPT ![slot] =
                    [pc |-> "send", secret |-> locked.latch[2], limit |-> FeeLimit(locked)]]
    /\ record' = IF AcceptsCheque(record, locked) THEN ChequeInto(record, locked) ELSE record
    /\ accepted' = IF AcceptsCheque(record, locked) THEN accepted \cup {locked} ELSE accepted
    /\ UNCHANGED <<unlocks, admin, world, known, squashes, faults>>

PayRecord(slot, locked) ==
    /\ tasks[slot] = Idle /\ Aligned(locked)
    /\ AcceptsCheque(record, locked)
    /\ record' = ChequeInto(record, locked)
    /\ accepted' = accepted \cup {locked}
    /\ tasks' = [tasks EXCEPT ![slot] =
                    [pc |-> "send", secret |-> locked.latch[2], limit |-> FeeLimit(locked)]]
    /\ UNCHANGED <<unlocks, admin, world, known, squashes, faults>>

\* The node pays a hash once: it refuses one in flight or settled.
PaySend(slot) ==
    /\ tasks[slot].pc = "send"
    /\ LET task == tasks[slot]
       IN  /\ tasks' = [tasks EXCEPT ![slot] = [pc |-> "sent", secret |-> task.secret]]
           /\ bln' = IF bln[task.secret].is \in {"idle", "failed"}
                     THEN [bln EXCEPT ![task.secret] = [is |-> "inflight", limit |-> task.limit]]
                     ELSE bln
    /\ UNCHANGED <<unlocks, admin, chain, mempool, rate, database, history>>

PayEnd(slot) ==
    /\ tasks[slot].pc = "sent"
    /\ bln[tasks[slot].secret].is \in {"settled", "failed"}
    /\ tasks' = [tasks EXCEPT ![slot] = Idle]
    /\ UNCHANGED <<unlocks, admin, world, database, history>>

\* The client hangs up and the handler is dropped at its await.
HangUp(slot) ==
    /\ tasks[slot] # Idle
    /\ tasks' = [tasks EXCEPT ![slot] = Idle]
    /\ UNCHANGED <<unlocks, admin, world, database, history>>

-----------------------------------------------------------------------------
(* Service::unlocks: the locks of the record, their secrets, one update.   *)
LocksOf(receipt) == [n \in DOMAIN Lockeds(receipt) |-> Lockeds(receipt)[n].latch]

UnlocksBegin ==
    /\ unlocks = Idle /\ HasReceipt(record)
    /\ unlocks' = [pc |-> "reveal", locks |-> LocksOf(record.receipt)]
    /\ UNCHANGED <<tasks, admin, world, database, history>>

Revealed ==
    LET settled == Where(unlocks.locks, LAMBDA l : bln[l[2]].is = "settled")
    IN  [n \in DOMAIN settled |-> settled[n][2]]

UnlocksApply ==
    /\ unlocks.pc = "reveal"
    /\ LET applied == SecretsInto(record, Revealed)
       IN  record' = IF Revealed # <<>> /\ applied.ok
                     THEN [record EXCEPT !.receipt = applied.receipt] ELSE record
    /\ unlocks' = Idle
    /\ UNCHANGED <<tasks, admin, world, known, history>>

-----------------------------------------------------------------------------
(* Service::sync, on every tick: sync_retainers, then claim.               *)
Goes(pc, snap) == [pc |-> pc, snap |-> snap]

SyncSnapshot ==
    /\ admin = Idle
    /\ admin' = Goes("sync", chain)
    /\ UNCHANGED <<tasks, unlocks, world, database, history>>

SyncApply ==
    /\ admin.pc = "sync"
    /\ LET seen       == admin.snap.channel
           candidates == IF seen.stage = "Opened" THEN <<RetainerOf(seen)>> ELSE <<>>
       IN  /\ record' = WithRetainer(record, candidates)
           /\ known' = (known \/ candidates # <<>>)
    /\ admin' = [pc |-> "synced"]
    /\ UNCHANGED <<tasks, unlocks, world, history>>

ClaimSnapshot ==
    /\ admin.pc = "synced"
    /\ admin' = Goes("claim", chain)
    /\ UNCHANGED <<tasks, unlocks, world, database, history>>

\* The receipts are read after the snapshot; the wallet's UTxOs are awaited next.
ClaimRead ==
    /\ admin.pc = "claim"
    /\ admin' = IF HasReceipt(record) /\ admin.snap.channel # Spent
                THEN [pc |-> "build", snap |-> admin.snap, receipt |-> record.receipt]
                ELSE Idle
    /\ UNCHANGED <<tasks, unlocks, world, database, history>>

\* A node refuses a transaction whose input is gone, or promised to another.
ClaimSubmit ==
    /\ admin.pc = "build"
    /\ \E built \in {AnySub(admin.snap.channel, admin.receipt, Upper)} :
          LET seen  == admin.snap
              pays  == built # NoStepping /\ GainBy(seen.channel, built) >= MinSingle
              free  == seen.version = chain.version /\ \A tx \in mempool : tx.version # seen.version
          IN  mempool' = IF pays /\ free
                         THEN mempool \cup {[version |-> seen.version, stepping |-> built]}
                         ELSE mempool
    /\ admin' = Idle
    /\ UNCHANGED <<tasks, unlocks, chain, bln, rate, database, history>>

-----------------------------------------------------------------------------
(* The world: ledger, lightning node, price feed, crashes.                 *)
Becomes(channel) == chain' = [version |-> chain.version + 1, channel |-> channel]

\* The transaction is included, or dropped where its input was spent.
Include ==
    \E tx \in mempool :
        /\ mempool' = mempool \ {tx}
        /\ IF tx.version = chain.version
              /\ Verifies(Signed, 0, Upper, Channel, tx.stepping)
           THEN Becomes(tx.stepping.out) ELSE chain' = chain
        /\ UNCHANGED <<tasking, bln, rate, database, history>>

ConsumerTx(stepping) ==
    /\ stepping # NoStepping /\ Verifies(Signed, 0, Upper, Channel, stepping)
    /\ Becomes(stepping.out)
    /\ UNCHANGED <<tasking, mempool, bln, rate, database, history>>
TopUp == /\ Channel.stage = "Opened" /\ Channel.amount + Channel.subbed < Deposit + MaxTopUp
         /\ ConsumerTx(AddStepping(Channel, 1))
Close == Channel.stage = "Opened" /\ ConsumerTx(CloseStepping(Channel, Upper))
Elapse ==
    /\ Channel.stage = "Closed"
    /\ Becomes(Spent)
    /\ UNCHANGED <<tasking, mempool, bln, rate, database, history>>

BlnAnswers(secret) ==
    /\ bln[secret].is = "inflight"
    /\ \E outcome \in {"settled", "failed"} : bln' = [bln EXCEPT ![secret].is = outcome]
    /\ UNCHANGED <<tasking, chain, mempool, rate, database, history>>

FxUpdate ==
    /\ rate' \in Rates
    /\ UNCHANGED <<tasking, chain, mempool, bln, database, history>>

Fault == faults < MaxFaults /\ faults' = faults + 1

Crash ==
    /\ Fault
    /\ tasks' = [slot \in Slot |-> Idle] /\ unlocks' = Idle /\ admin' = Idle
    /\ UNCHANGED <<world, database, accepted, squashes>>

\* Mutant: an error ends the loop of the ticker.
CallEnds ==
    /\ Fault
    /\ admin.pc \in {"synced", "build"} /\ admin' = [pc |-> "ended"]
    /\ UNCHANGED <<tasks, unlocks, world, database, accepted, squashes>>

\* A call to the indexer, the wallet's node or the lightning node fails: the
\* rest of the sync, or of the unlocks, is not done.
CallFails ==
    /\ Fault
    /\ \/ admin.pc \in {"synced", "build"} /\ admin' = Idle /\ UNCHANGED unlocks
       \/ unlocks.pc = "reveal" /\ unlocks' = Idle /\ UNCHANGED admin
    /\ UNCHANGED <<tasks, world, database, accepted, squashes>>

-----------------------------------------------------------------------------
Locked == [index : 1..MaxIndexSigned, amount : PayAmounts, timeout : Timeouts,
           latch : {Sha2(s) : s \in Secret}]

Admin == SyncSnapshot \/ SyncApply \/ ClaimSnapshot \/ ClaimRead \/ ClaimSubmit

Next ==
    \/ \E squash \in Proposed \cup squashes : PostSquash(squash)
    \/ \E slot \in Slot :
          \/ QuoteBegin(slot) \/ QuoteEnd(slot)
          \/ PaySend(slot) \/ PayEnd(slot) \/ HangUp(slot)
          \/ \E locked \in Locked : PayRecord(slot, locked)
    \/ UnlocksBegin \/ UnlocksApply \/ Admin
    \/ Include \/ TopUp \/ Close \/ Elapse
    \/ \E secret \in Secret : BlnAnswers(secret)
    \/ FxUpdate \/ Crash \/ CallFails

Spec == Init /\ [][Next]_vars

\* The ticker comes back to sync for ever, and the ledger takes what it is sent.
FairSpec == Spec /\ WF_vars(Admin) /\ WF_vars(Include)

-----------------------------------------------------------------------------
Receipt == record.receipt
InReceipt(locked) ==
    \E n \in DOMAIN Receipt.cheques :
        LET c == Receipt.cheques[n]
        IN  locked = IF c.unlocked THEN LockedForm(c.body) ELSE c.body

(* An accepted cheque is in the receipt until a squash pays for it. *)
ChequesAreKept ==
    \A locked \in accepted : InReceipt(locked) \/ IsIndexSquashed(Receipt.squash, locked.index)

(* The lightning node is never asked to pay but for a cheque the record holds,
   or held until it was squashed, and within what that cheque is worth at a
   rate the price feed reported. *)
PaymentsAreBacked ==
    \A secret \in Secret : bln[secret].is \in {"inflight", "settled"} =>
        \E locked \in accepted :
            /\ locked.latch = Sha2(secret)
            /\ InReceipt(locked) \/ IsIndexSquashed(Receipt.squash, locked.index)
            /\ \E r \in Rates :
                  locked.amount >= FeePlaceholder + Lovelace(Msat + bln[secret].limit, r)

(* The channel covers every cheque accepted, though the retainer it was
   accepted on may be out of date in any way. *)
CommitmentsCovered ==
    Channel.stage \in {"Opened", "Closed"} /\ HasReceipt(record) =>
        Channel.amount + Channel.subbed >= Committed(Receipt)

(* A quote given while nothing else happened is one whose cheque the server
   accepts. *)
QuoteIsHonoured ==
    \A slot \in Slot : tasks[slot].pc = "quote" /\ tasks[slot].snap = record =>
        \A quote \in Quotes(record), timeout \in Timeouts, secret \in Secret :
            AcceptsCheque(record, [index |-> quote.index, amount |-> quote.amount,
                                   timeout |-> timeout, latch |-> Sha2(secret)])

(* Again and again the ledger catches up with the squash, while the channel is
   open: whatever crash, top-up or lost transaction comes between. *)
SquashIsClaimed ==
    []<>(HasReceipt(record) /\ Channel.stage = "Opened" => Channel.subbed >= Receipt.squash.amount)

=============================================================================
