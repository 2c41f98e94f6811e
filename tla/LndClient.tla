----------------------------- MODULE LndClient -----------------------------
(* The adaptor's lightning client, and the loop that asks it for secrets.

   bln-client's lnd::Client quotes a payment by its route and the height of the
   chain, pays by reading a stream of updates that comes in chunks, and reveals
   a secret from a table it fills from LND's list of settled payments, a page
   at a time.  The lightning node itself is external: it numbers payments as
   they are sent, settles or fails them in any order, and lists the settled
   ones after an offset.                                                     *)
EXTENDS Naturals, Sequences, SequencesExt, TLC, FiniteSets, FiniteSetsExt

CONSTANTS
    Lock,          \* payment hashes
    Own,           \* those of the operator's other payments: in no receipt
    MaxCacheSize,  \* max_cache_size
    BlockTime,     \* block_time
    Margin,        \* QUOTE_PAY_TIME_MARGIN
    Delta,         \* blocks the route of a payment takes
    MaxFound,      \* bound on the blocks found while a quote is made
    MaxSent,       \* bound on the payments LND takes
    MaxFaults      \* bound on restarts, failed requests and cut streams

LndAssumption ==
    /\ Own \subseteq Lock /\ MaxCacheSize \in Nat /\ MaxFound \in Nat /\ MaxSent \in Nat /\ MaxFaults \in Nat
    /\ BlockTime \in Nat \ {0} /\ Margin \in Nat /\ Delta \in Nat
ASSUME LndAssumption

VARIABLES
    payments,         \* LND's: of each lock its status and its index
    lookup_table,     \* index of each payment whose secret is in the table
    last_cache_update,
    unlocks,          \* the loop's round: the locks to ask for, what it found
    secrets,          \* locks of the receipts whose cheques are unlocked
    quote,            \* the quote being made, or made
    pay,              \* the payment being made: what LND has sent of its
                      \* updates, what is in the buffer, the answer
    faults

reveal == <<lookup_table, last_cache_update, unlocks, secrets>>
paying == <<quote, pay>>
vars == <<payments, reveal, paying, faults>>

Idle == [pc |-> "idle"]

Init ==
    /\ payments = [l \in Lock |-> [status |-> "none", index |-> 0]]
    /\ lookup_table = <<>> /\ last_cache_update = 0 /\ unlocks = Idle /\ secrets = {}
    /\ quote = Idle /\ pay = Idle /\ faults = 0

Monus(a, b) == IF a < b THEN 0 ELSE a - b

-----------------------------------------------------------------------------
(* LND.                                                                      *)

Newest == Max({payments[l].index : l \in Lock} \cup {0})
Settled == {l \in Lock : payments[l].status = "settled"}

\* GET v1/payments without the incomplete: those after the offset.
Page(offset) == {l \in Settled : payments[l].index > offset}

\* Mutant: an empty page leaves the offset where it is.
KeepsOffset(page) == Max({payments[l].index : l \in page} \cup {last_cache_update})

\* The last_index_offset of an answer is 0 when it lists nothing.
LastIndexOffset(page) == Max({payments[l].index : l \in page} \cup {0})

\* A payment is taken unless one of its hash is in flight or settled.
Takes(lock) == payments[lock].status \in {"none", "failed"}
Sent(lock) == [payments EXCEPT ![lock] = [status |-> "inflight", index |-> Newest + 1]]

\* What LND writes on the stream, in tokens: the two halves of an update, the
\* end of a line, and a line that is no update.
Update(status) == <<[half |-> 1, status |-> status], [half |-> 2, status |-> status],
                    [half |-> 0, status |-> "newline"]>>
NoUpdate == <<[half |-> 0, status |-> "noise"], [half |-> 0, status |-> "newline"]>>

StatusOf == [settled |-> "SUCCEEDED", failed |-> "FAILED"]

Ends(lock, outcome) ==
    /\ payments[lock].status = "inflight"
    /\ payments' = [payments EXCEPT ![lock].status = outcome]
    /\ pay' = IF pay.pc = "streaming" /\ pay.lock = lock
              THEN [pay EXCEPT !.coming = @ \o Update(StatusOf[outcome])] ELSE pay
    /\ UNCHANGED <<reveal, quote, faults>>

\* The operator pays by other means.
PaysOwn(lock) ==
    /\ lock \in Own /\ Takes(lock) /\ Newest < MaxSent
    /\ payments' = Sent(lock)
    /\ UNCHANGED <<reveal, paying, faults>>

-----------------------------------------------------------------------------
(* quote                                                                     *)

\* The first route's time lock is absolute; heights are relative to it.
GetRoute ==
    /\ quote = Idle /\ pay = Idle
    /\ quote' = [pc |-> "routed", total_time_lock |-> Delta, height |-> 0]
    /\ UNCHANGED <<payments, reveal, pay, faults>>

BlockFound ==
    /\ quote.pc = "routed" /\ quote.height < MaxFound
    /\ quote' = [quote EXCEPT !.height = @ + 1]
    /\ UNCHANGED <<payments, reveal, pay, faults>>

\* block_time.checked_mul(blocks)
RelativeTimeout(total_time_lock, height) == BlockTime * (total_time_lock - height)

\* The server adds its margin for the time until the cheque arrives.
GetHeight ==
    /\ quote.pc = "routed"
    /\ quote' = IF quote.total_time_lock < quote.height THEN Idle
                ELSE [pc |-> "quoted", found |-> quote.height,
                      timeout |-> Margin + RelativeTimeout(quote.total_time_lock, quote.height)]
    /\ UNCHANGED <<payments, reveal, pay, faults>>

-----------------------------------------------------------------------------
(* pay                                                                       *)

\* Mutant: the limit itself is not to be reached.
LimitBelow(timeout) == Monus(timeout \div BlockTime, 1)

CltvLimit(timeout) == timeout \div BlockTime

NothingCame == [all |-> FALSE, torn |-> FALSE]

\* The cheque comes some time after the quote.  A payment LND knows already is
\* refused; one without a route within the limit fails at once.
Pay(lock, waited) ==
    /\ quote.pc = "quoted" /\ waited <= quote.timeout /\ pay = Idle /\ lock \notin Own /\ Newest < MaxSent
    /\ LET takes  == Takes(lock)
           routed == takes /\ CltvLimit(quote.timeout - waited) >= Delta
       IN  /\ payments' = IF routed THEN Sent(lock)
                          ELSE IF takes THEN [Sent(lock) EXCEPT ![lock].status = "failed"]
                          ELSE payments
           /\ \E noise \in {<<>>, NoUpdate} :
                 pay' = [pc |-> "streaming", lock |-> lock, buffer |-> <<>>, came |-> NothingCame,
                         coming |-> IF routed THEN noise \o Update("IN_FLIGHT")
                                    ELSE IF takes THEN Update("FAILED") ELSE NoUpdate]
    /\ quote' = Idle
    /\ UNCHANGED <<reveal, faults>>

IsTerminal(status) == status \in {"SUCCEEDED", "FAILED"}

\* The buffer after the end of its first line, or after the spaces it begins with.
Line(buffer) == SelectInSeq(buffer, LAMBDA token : token.status = "newline")
Skipped(buffer) == SubSeq(buffer, Line(buffer) + 1, Len(buffer))
Trimmed(buffer) == IF Line(buffer) = 1 THEN Skipped(buffer) ELSE buffer

\* Reads the buffer until an update is terminal, or it needs more.  What is no
\* update is skipped with its line, if the line has ended.
RECURSIVE Reads(_)
Reads(buffer) ==
    LET rest == Trimmed(buffer)
        Answer(answer) == [answer |-> answer, buffer |-> buffer]
    IN  IF rest = <<>> THEN Answer("none")
        ELSE IF rest[1].status = "noise"
             THEN IF Line(rest) = 0 THEN Answer("error") ELSE Reads(Skipped(rest))
        ELSE IF Len(rest) = 1 THEN Answer("none")
        ELSE IF IsTerminal(rest[1].status) THEN Answer(rest[1].status)
        ELSE Reads(SubSeq(rest, 3, Len(rest)))

\* Mutant: a chunk is read by itself.
ReadChunk(buffer, chunk) == Reads(chunk)

\* execute_stream: a chunk is added to the buffer, and the buffer is read.
ReadWith(buffer, chunk) == Reads(buffer \o chunk)

Ended(answer, came) == [pc |-> "answered", lock |-> pay.lock, answer |-> answer, came |-> came]

\* For what is asked of the answer: whether the last update came, and whether a
\* chunk ended with a line that is no update.
WithChunk(came, chunk) ==
    [all  |-> came.all \/ \E t \in Range(chunk) : t.half = 2 /\ IsTerminal(t.status),
     torn |-> came.torn \/ Last(chunk).status = "noise"]

Chunk ==
    /\ pay.pc = "streaming"
    /\ \E n \in DOMAIN pay.coming :
         LET chunk == SubSeq(pay.coming, 1, n)
             read  == ReadWith(pay.buffer, chunk)
             came  == WithChunk(pay.came, chunk)
         IN  pay' = IF read.answer = "none"
                    THEN [pay EXCEPT !.buffer = read.buffer, !.came = came,
                                     !.coming = SubSeq(@, n + 1, Len(@))]
                    ELSE Ended(read.answer, came)
    /\ UNCHANGED <<payments, reveal, quote, faults>>

\* LND closes the stream after its last word.
Closes ==
    /\ pay.pc = "streaming" /\ pay.coming = <<>> /\ payments[pay.lock].status # "inflight"
    /\ pay' = Ended("error", pay.came)
    /\ UNCHANGED <<payments, reveal, quote, faults>>

\* The connection breaks, or the client's 30 seconds are over.
Cut ==
    /\ pay.pc = "streaming" /\ faults < MaxFaults /\ faults' = faults + 1
    /\ pay' = Ended("error", pay.came)
    /\ UNCHANGED <<payments, reveal, quote>>

TakeAnswer ==
    /\ pay.pc = "answered" /\ pay' = Idle
    /\ UNCHANGED <<payments, reveal, quote, faults>>

-----------------------------------------------------------------------------
(* reveal, and the loop that asks for the secrets of the locked cheques.      *)

\* The cheque of a payment is in the receipt before it is paid, and stays there
\* locked whatever the answer is.
Locked == {l \in Lock \ Own : payments[l].status # "none"} \ secrets

Unlocks ==
    /\ unlocks = Idle /\ Locked # {}
    /\ unlocks' = [pc |-> "asking", locks |-> Locked, found |-> {}]
    /\ UNCHANGED <<payments, paying, lookup_table, last_cache_update, secrets, faults>>

\* Of a table that is too large, the older half goes.
Evicted(table, last) ==
    LET kept == IF Cardinality(DOMAIN table) > MaxCacheSize
                THEN {l \in DOMAIN table : table[l] >= Monus(last, MaxCacheSize \div 2)}
                ELSE DOMAIN table
    IN  [l \in kept |-> table[l]]

\* The next lock is looked up; if it is not there, the settled payments since
\* the last update are fetched first.
Reveal(lock) ==
    /\ unlocks.pc = "asking" /\ lock \in unlocks.locks
    /\ LET page   == Page(last_cache_update)
           listed == [l \in page |-> payments[l].index]
           last   == LastIndexOffset(page)
           table  == IF lock \in DOMAIN lookup_table THEN lookup_table
                     ELSE Evicted(listed @@ lookup_table, last)
       IN  /\ lookup_table' = table
           /\ last_cache_update' = IF lock \in DOMAIN lookup_table THEN last_cache_update ELSE last
           /\ unlocks' = [unlocks EXCEPT !.locks = @ \ {lock},
                                         !.found = @ \cup ({lock} \cap DOMAIN table)]
    /\ UNCHANGED <<payments, paying, secrets, faults>>

\* The secrets found are applied when all locks have been asked for.
Applied ==
    /\ unlocks.pc = "asking" /\ unlocks.locks = {}
    /\ secrets' = secrets \cup unlocks.found /\ unlocks' = Idle
    /\ UNCHANGED <<payments, paying, lookup_table, last_cache_update, faults>>

\* A request that fails ends the round: what it found is found again.
RevealFails ==
    /\ unlocks.pc = "asking" /\ faults < MaxFaults /\ faults' = faults + 1
    /\ unlocks' = Idle
    /\ UNCHANGED <<payments, paying, lookup_table, last_cache_update, secrets>>

Restart ==
    /\ faults < MaxFaults /\ faults' = faults + 1
    /\ lookup_table' = <<>> /\ last_cache_update' = 0 /\ unlocks' = Idle
    /\ quote' = Idle /\ pay' = Idle
    /\ UNCHANGED <<payments, secrets>>
-----------------------------------------------------------------------------
Next ==
    \/ \E lock \in Lock : \/ PaysOwn(lock) \/ Reveal(lock)
                          \/ \E outcome \in {"settled", "failed"} : Ends(lock, outcome)
                          \/ \E waited \in {0, Margin, Margin + BlockTime} : Pay(lock, waited)
    \/ GetRoute \/ BlockFound \/ GetHeight
    \/ Chunk \/ Closes \/ Cut \/ TakeAnswer
    \/ Unlocks \/ Applied \/ RevealFails \/ Restart

Spec == Init /\ [][Next]_vars

\* The loop runs on: requests of its own end, one way or the other.
FairSpec ==
    /\ Spec
    /\ WF_vars(Unlocks) /\ WF_vars(\E lock \in Lock : Reveal(lock)) /\ WF_vars(Applied)

-----------------------------------------------------------------------------
\* Payments settle in any order: more than half a table's worth after this one.
IsBehind(lock) ==
    payments[lock].index + (MaxCacheSize \div 2) < Max({payments[l].index : l \in Settled} \cup {0})

(* The secret of a settled payment reaches the receipt, though payments sent
   later settled before it and the offset went past it, pages were lost and the
   table was emptied; unless payments sent so much later have settled that the
   table drops it. *)
SettledIsRevealed ==
    \A lock \in Lock \ Own :
        payments[lock].status = "settled" ~> (lock \in secrets \/ IsBehind(lock))

(* What pay answers is what LND says of the payment, however its updates are
   cut into chunks; an error is no news of it, and comes after the last update
   only if a line that is no update was cut from its end. *)
AnswersAreTrue ==
    pay.pc = "answered" =>
        /\ pay.answer = "SUCCEEDED" => payments[pay.lock].status = "settled"
        /\ pay.answer = "FAILED" => payments[pay.lock].status = "failed"
        /\ pay.answer = "error" => pay.came.torn \/ ~pay.came.all

(* A quote can be paid for as long as the margin lasts: the blocks found while
   it was made and the time its cheque takes have to fit in it, and no more. *)
QuoteIsRoutable ==
    quote.pc = "quoted" =>
        \A waited \in 0..Margin :
            waited + quote.found * BlockTime <= Margin => CltvLimit(quote.timeout - waited) >= Delta
=============================================================================
