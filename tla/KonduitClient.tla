---------------------------- MODULE KonduitClient ----------------------------
(***************************************************************************)
(* The consumer's client (packages/konduit/client/src/l2.rs, cli.rs and    *)
(* the browser's wasm/src/black_box_api.rs, wasm/src/wasm/lockeds.rs)      *)
(* calling the provider's server, one call at a time.                      *)
(*                                                                         *)
(* A call may be lost on the way, its answer may be, or the client gives   *)
(* up waiting and the server serves the request later, when the client has *)
(* moved on.  The server is taken as a request at a time here; its own     *)
(* interleavings are the subject of KonduitAdaptor.                        *)
(***************************************************************************)
EXTENDS KonduitRecord

CONSTANTS
    Clients,          \* "cli", "browser": which of them is run
    Secret,           \* preimages, each of one invoice
    Price,            \* what the server quotes for an invoice, in lovelace
    RelativeTimeout,  \* Quote::relative_timeout
    AdaptorTimeDelta, \* ADAPTOR_TIME_DELTA
    Grace,            \* LOCKED_CHEQUE_GRACE_PERIOD
    Deposit,          \* what the channel holds
    MaxIndexSigned,   \* bound on the index of a cheque
    MaxTime,          \* bound on the clock
    MaxFaults         \* bound on the calls that do not go as they should

\* Data::quote adds a lovelace to whatever the invoice comes to.
ASSUME PriceAssumption == Price \in Nat \ {0}
ASSUME RelativeTimeoutAssumption == RelativeTimeout \in Nat
ASSUME GraceAssumption == Grace \in Nat

VARIABLES
    now,      \* the clock, the client's and the server's
    record,   \* the server's record of the channel
    bln,      \* what became of the payment of each secret
    client,   \* which client is run
    lockeds,  \* Lockeds: [locks], those the browser keeps, or None
    quote,    \* the last quote, kept by the user until it is paid
    call,     \* the call the client awaits
    late,     \* requests the client gave up, which may still arrive
    lost,     \* cheques whose requests were given up
    signed,   \* squashes the client signed
    accepted, \* cheques the server accepted
    faults    \* calls that did not go as they should

user == <<client, lockeds, quote>>
server == <<record, bln, accepted>>
vars == <<now, record, bln, client, lockeds, quote, call, late, lost, signed, accepted, faults>>

Idle == [pc |-> "idle"]
Request(what, with) == [pc |-> "request", what |-> what, with |-> with]
Answer(what, with) == [pc |-> "answer", what |-> what, with |-> with]
Failure == [pc |-> "failed"]
Receipt == record.receipt

Init ==
    /\ now = 0
    /\ record = [retainer |-> [amount |-> Deposit, subbed |-> 0, useds |-> <<>>], receipt |-> None]
    /\ bln = [secret \in Secret |-> "idle"]
    /\ client \in Clients /\ lockeds = None /\ quote = None
    /\ call = Idle /\ late = {} /\ lost = {} /\ signed = {} /\ accepted = {} /\ faults = 0

-----------------------------------------------------------------------------
(* The server.  SquashStatus is always Incomplete, with a proposal.        *)

StatusOf(receipt) ==
    IF Proposal(receipt).ok
    THEN Answer("status", [current   |-> receipt.squash,
                           unlockeds |-> Unlockeds(receipt),
                           proposal  |-> Proposal(receipt).body])
    ELSE Failure

\* What is left of the request: the call's answer, or that it is worked on.
ServeSquash(squash) ==
    LET next == IF AcceptsSquash(record, squash) THEN SquashInto(record, squash) ELSE record
    IN  /\ record' = next
        /\ call' = IF call = Request("squash", squash) THEN StatusOf(next.receipt) ELSE call
        /\ UNCHANGED <<bln, accepted>>

ServeReceipt ==
    /\ call' = IF call = Request("receipt", None) THEN Answer("receipt", Receipt) ELSE call
    /\ UNCHANGED server

InTime(locked) == locked.timeout - now - AdaptorTimeDelta >= 1

\* The lightning node refuses a payment that is in flight or settled.
ServePay(locked) ==
    LET secret == locked.latch[2]
        takes  == InTime(locked) /\ AcceptsCheque(record, locked)
        pays   == takes /\ bln[secret] \in {"idle", "failed"}
    IN  /\ record' = IF takes THEN ChequeInto(record, locked) ELSE record
        /\ accepted' = IF takes THEN accepted \cup {locked} ELSE accepted
        /\ bln' = IF pays THEN [bln EXCEPT ![secret] = "inflight"] ELSE bln
        /\ call' = IF call = Request("pay", locked)
                   THEN IF pays THEN [pc |-> "paying", secret |-> secret] ELSE Failure
                   ELSE call

Serve(request) ==
    CASE request.what = "squash"  -> ServeSquash(request.with)
      [] request.what = "pay"     -> ServePay(request.with)
      [] request.what = "receipt" -> ServeReceipt

ServeCall ==
    /\ call.pc = "request" /\ Serve(call)
    /\ UNCHANGED <<now, user, late, lost, signed, faults>>

ServeLate ==
    \E request \in late :
        /\ late' = late \ {request} /\ request # call /\ Serve(request)
        /\ UNCHANGED <<now, user, lost, signed, faults>>

PaidAnswer ==
    /\ call.pc = "paying" /\ bln[call.secret] \in {"settled", "failed"}
    /\ call' = IF bln[call.secret] = "settled" THEN StatusOf(Receipt) ELSE Failure
    /\ UNCHANGED <<now, user, server, late, lost, signed, faults>>

BlnAnswers(secret) ==
    /\ bln[secret] = "inflight"
    /\ \E outcome \in {"settled", "failed"} : bln' = [bln EXCEPT ![secret] = outcome]
    /\ UNCHANGED <<now, record, accepted, user, call, late, lost, signed, faults>>

Unlock(secret) ==
    /\ bln[secret] = "settled" /\ HasReceipt(record) /\ TakesSecret(Receipt, secret)
    /\ record' = [record EXCEPT !.receipt = WithSecretOf(@, secret)]
    /\ UNCHANGED <<now, bln, accepted, user, call, late, lost, signed, faults>>

-----------------------------------------------------------------------------
(* The client.                                                             *)

GetQuote(secret) ==
    /\ call = Idle /\ CanCommit(record, Price) /\ NextIndexOf(record) <= MaxIndexSigned
    /\ quote' = [secret |-> secret, index |-> NextIndexOf(record)]
    /\ UNCHANGED <<now, server, client, lockeds, call, late, lost, signed, faults>>

\* Mutant: the lock is added when the answer has come.
NotAdded(lock) == lockeds

\* Lockeds::add
Added(lock) == [locks |-> IF lockeds = None THEN {lock} ELSE lockeds.locks \cup {lock}]

\* Konduit::pay adds the lock before it calls; the quote may be paid again.
Pay ==
    /\ call = Idle /\ quote # None
    /\ LET lock == Sha2(quote.secret)
       IN  /\ call' = Request("pay", [index |-> quote.index, amount |-> Price,
                                      timeout |-> now + RelativeTimeout, latch |-> lock])
           /\ lockeds' = IF client = "browser" THEN Added(lock) ELSE lockeds
    /\ UNCHANGED <<now, server, client, quote, late, lost, signed, faults>>

\* The status is asked for with a squash of nothing.
Sync ==
    /\ call = Idle
    /\ call' = Request("squash", ZeroBody)
    /\ signed' = signed \cup {ZeroBody}
    /\ UNCHANGED <<now, server, user, late, lost, faults>>

\* cli::known_lock, and Lockeds::as_filter
KnownLock(lock) == client = "browser" /\ (lockeds = None \/ lock \in lockeds.locks)

\* Mutant: nothing that is shown is counted.
CountsNone(status, unlocked) == unlocked.index < status.current.index

Counts(status, unlocked) ==
    unlocked.index > status.current.index /\ ~KnownLock(Sha2(unlocked.latch))

IsOwed(status) ==
    status.proposal.amount <=
        status.current.amount
          + ListTotal(SelectSeq(status.unlockeds, LAMBDA u : Counts(status, u)))

\* When there is nothing to squash any more, the browser reads the receipt.
Synced == IF client = "browser" THEN Request("receipt", None) ELSE Idle

TakeStatus ==
    /\ call.pc = "answer" /\ call.what = "status"
    /\ LET status == call.with
           signs  == status.proposal # status.current /\ IsOwed(status)
       IN  /\ call' = IF status.proposal = status.current THEN Synced
                      ELSE IF signs THEN Request("squash", status.proposal) ELSE Idle
           /\ signed' = IF signs THEN signed \cup {status.proposal} ELSE signed
    /\ UNCHANGED <<now, server, user, late, lost, faults>>

\* Receipt::apply_timeout
Unexpired(receipt, at) == Where(Lockeds(receipt), LAMBDA l : l.timeout > at)

\* An unlocked cheque in the receipt is reported as an error, after this.
TakeReceipt ==
    /\ call.pc = "answer" /\ call.what = "receipt"
    /\ lockeds' = IF call.with = None THEN lockeds
                  ELSE [locks |-> {l.latch : l \in Range(Unexpired(call.with, now - Grace))}]
    /\ call' = Idle
    /\ UNCHANGED <<now, server, client, quote, late, lost, signed, faults>>

TakeFailure ==
    /\ call = Failure /\ call' = Idle
    /\ UNCHANGED <<now, server, user, late, lost, signed, faults>>

-----------------------------------------------------------------------------
(* The world: the clock, and calls that do not go as they should.          *)

Tick == /\ now < MaxTime /\ now' = now + 1
        /\ UNCHANGED <<server, user, call, late, lost, signed, faults>>

\* The request or its answer is lost, the user declines to confirm, or the
\* client gives up and its request is still on the way.
Fails ==
    /\ call # Idle /\ faults < MaxFaults /\ faults' = faults + 1
    /\ call' = Idle
    /\ \/ UNCHANGED <<late, lost>>
       \/ /\ call.pc = "request" /\ late' = late \cup {call}
          /\ lost' = IF call.what = "pay" THEN lost \cup {call.with} ELSE lost
    /\ UNCHANGED <<now, server, user, signed>>

Next ==
    \/ ServeCall \/ ServeLate \/ PaidAnswer
    \/ \E secret \in Secret : BlnAnswers(secret) \/ Unlock(secret) \/ GetQuote(secret)
    \/ Pay \/ Sync \/ TakeStatus \/ TakeReceipt \/ TakeFailure
    \/ Tick \/ Fails

Spec == Init /\ [][Next]_vars

\* The server and the client go on with a call; a payment ends, one way or
\* the other; the user syncs again and again.
FairSpec ==
    /\ Spec
    /\ WF_vars(ServeCall) /\ WF_vars(PaidAnswer)
    /\ WF_vars(TakeStatus) /\ WF_vars(TakeReceipt) /\ WF_vars(TakeFailure)
    /\ \A secret \in Secret : WF_vars(BlnAnswers(secret))
    /\ SF_vars(Sync)

-----------------------------------------------------------------------------
(* A squash the client signs is worth what it paid for: the cheques the
   squash covers that the server accepted and whose payments settled,
   whichever calls were lost, made again or served late. *)
SquashesAreOwed ==
    \A squash \in signed :
        squash.amount = Total({c \in accepted : /\ IsIndexSquashed(squash, c.index)
                                                /\ bln[c.latch[2]] = "settled"})

(* The browser knows the lock of every cheque the server holds locked, but of
   those it gave up before they arrived and those that expired. *)
ListHoldsLocked ==
    client = "browser" /\ HasReceipt(record) =>
        \A locked \in Range(Lockeds(Receipt)) \ lost :
            (lockeds # None /\ locked.latch \in lockeds.locks) \/ locked.timeout <= now - Grace

(* The command line squashes every cheque that is unlocked, unless a squash of
   later ones has gone past it: sync takes that one for a replay and never
   agrees to it. *)
UnlockedIsSquashed ==
    \A i \in 1..MaxIndexSigned :
        client = "cli" /\ HasReceipt(record) /\ (\E u \in Range(Unlockeds(Receipt)) : u.index = i)
            ~> HasReceipt(record) /\ i <= Receipt.squash.index

=============================================================================
