--------------------------- MODULE KonduitReceipt ---------------------------
(***************************************************************************)
(* The receipt (packages/konduit/tmp/src/receipt.rs): what a provider      *)
(* holds off chain of one channel, and the squash body algebra it rests on *)
(* (data/src/squash_body.rs, data/src/indexes.rs).                         *)
(*                                                                         *)
(*   [squash |-> [amount, index, exclude],  cheques |-> list of cheques]   *)
(*                                                                         *)
(* A cheque is [body, unlocked], as in the redeemer of a Respond: the      *)
(* latch of its body is the lock, or the secret once it is unlocked.  An   *)
(* operation that can fail is a predicate (may it happen?) next to the     *)
(* receipt it leaves; a receipt is left alone by an operation that fails.  *)
(***************************************************************************)
EXTENDS KonduitKernel

CONSTANTS
    MaxUnsquashed,  \* MAX_UNSQUASHED: cheques a receipt may hold
    MaxExclude      \* MAX_EXCLUDE_LENGTH: indexes a squash may leave out

ASSUME MaxUnsquashedAssumption == MaxUnsquashed \in Nat
ASSUME MaxExcludeAssumption == MaxExclude \in Nat

\* u64::saturating_sub
Monus(a, b) == IF a < b THEN 0 ELSE a - b
Least(a, b) == IF a < b THEN a ELSE b
Greatest(a, b) == IF a < b THEN b ELSE a

-----------------------------------------------------------------------------
(* Squash bodies.                                                          *)

ZeroBody == [amount |-> 0, index |-> 0, exclude |-> <<>>]

\* Mutant: the index of the squash itself is taken for one it leaves out.
IsIndexPassed(body, index) == index < body.index /\ ~Contains(body.exclude, index)

IsIndexSquashed(body, index) ==
    \/ index = body.index
    \/ index < body.index /\ ~Contains(body.exclude, index)

\* Indexes::extend(from, until), for the indexes a squash jumps over.
Between(from, until) == [n \in 1..(until - from) |-> from + n - 1]
Extends(exclude, from, until) ==
    \/ until = from
    \/ /\ until > from
       /\ Len(exclude) + (until - from) <= MaxExclude
       /\ exclude # <<>> => Last(exclude) < from

CanSquash(body, index) ==
    \/ Contains(body.exclude, index)
    \/ body.index < index /\ Extends(body.exclude, body.index + 1, index)

SquashedWith(body, index, amount) ==
    IF Contains(body.exclude, index)
    THEN [body EXCEPT !.amount = @ + amount,
                      !.exclude = Where(@, LAMBDA i : i # index)]
    ELSE [amount  |-> body.amount + amount,
          index   |-> index,
          exclude |-> body.exclude \o Between(body.index + 1, index)]

-----------------------------------------------------------------------------
(* Queries.                                                                *)

Bodies(cheques) == [n \in DOMAIN cheques |-> cheques[n].body]
Unlockeds(receipt) == Bodies(Where(receipt.cheques, LAMBDA c : c.unlocked))
Lockeds(receipt) == Bodies(Where(receipt.cheques, LAMBDA c : ~c.unlocked))

\* Mutant: the squash is forgotten where cheques are held.
LastIndex(receipt) ==
    IF receipt.cheques = <<>> THEN receipt.squash.index ELSE Last(receipt.cheques).body.index

MaxIndex(receipt) ==
    Greatest(receipt.squash.index,
             IF receipt.cheques = <<>> THEN 0 ELSE Last(receipt.cheques).body.index)

Owed(receipt) == receipt.squash.amount + ListTotal(Unlockeds(receipt))
Committed(receipt) == receipt.squash.amount + ListTotal(Bodies(receipt.cheques))
Capacity(receipt) == Monus(MaxUnsquashed, Len(receipt.cheques))
Secrets(receipt) == {u.latch : u \in Range(Unlockeds(receipt))}

\* Mutant: the last index is proposed again.
ProposeLast(receipt) == MaxIndex(receipt)

ProposeIndex(receipt) == MaxIndex(receipt) + 1

\* The proposal squashes the unlocked cheques one by one, or fails on one.
Proposal(receipt) ==
    FoldLeft(LAMBDA acc, u :
                 IF acc.ok /\ CanSquash(acc.body, u.index)
                 THEN [acc EXCEPT !.body = SquashedWith(@, u.index, u.amount)]
                 ELSE [acc EXCEPT !.ok = FALSE],
             [ok |-> TRUE, body |-> receipt.squash],
             Unlockeds(receipt))

\* The client adds the proposal up from the unlocked cheques past its squash
\* (l2::Client::sync, whose known_lock holds of no lock on the command line).
AddsUp(receipt, body) ==
    body.amount <= receipt.squash.amount
                     + ListTotal(Where(Unlockeds(receipt), LAMBDA u : u.index > receipt.squash.index))

-----------------------------------------------------------------------------
(* Mutations.                                                              *)

NewReceipt(squash) == [squash |-> squash, cheques |-> <<>>]

TakesLocked(receipt, locked) == locked.index = MaxIndex(receipt) + 1
WithLocked(receipt, locked) ==
    [receipt EXCEPT !.cheques = Append(@, [body |-> locked, unlocked |-> FALSE])]

\* Mutant: the cheques of a lock are unlocked whatever they were.
OpensAny(cheque, secret) == TRUE

Opens(cheque, secret) == ~cheque.unlocked /\ cheque.body.latch = Sha2(secret)

TakesSecret(receipt, secret) == \E n \in DOMAIN receipt.cheques : Opens(receipt.cheques[n], secret)
WithSecretOf(receipt, secret) ==
    LET Revealed(cheque) == IF Opens(cheque, secret)
                          THEN [body |-> [cheque.body EXCEPT !.latch = secret], unlocked |-> TRUE]
                          ELSE cheque
    IN  [receipt EXCEPT !.cheques = [n \in DOMAIN @ |-> Revealed(@[n])]]

\* A squash is accepted on its amount: it must pay for the cheques it covers.
SquashedBy(receipt, squash) ==
    Where(receipt.cheques, LAMBDA c : IsIndexSquashed(squash, c.body.index))

TakesSquash(receipt, squash) ==
    squash.amount >= receipt.squash.amount + ListTotal(Bodies(SquashedBy(receipt, squash)))

\* Mutant: what the squash leaves out is dropped too.
WithSquashUpTo(receipt, squash) ==
    [squash  |-> squash,
     cheques |-> Where(receipt.cheques, LAMBDA c : c.body.index > squash.index)]

WithSquash(receipt, squash) ==
    [squash  |-> squash,
     cheques |-> Where(receipt.cheques, LAMBDA c : ~IsIndexSquashed(squash, c.body.index))]

-----------------------------------------------------------------------------
(* Evidence for the ledger.                                                *)

\* sort_by_key on the index: useds of one index stay in their order.
Put(list, used) ==
    Where(list, LAMBDA u : u.index <= used.index) \o <<used>>
        \o Where(list, LAMBDA u : u.index > used.index)
ByIndex(list) == FoldLeft(Put, <<>>, list)

IsUsed(useds, index) == \E n \in DOMAIN useds : useds[n].index = index

\* Mutant: a cheque the datum lists already is put forward again.
IsFreshAnyway(useds, upper, body) == body.timeout > upper

IsFresh(useds, upper, body) == body.timeout > upper /\ ~IsUsed(useds, body.index)

Unsquashed(receipt, useds) ==
    Where(useds, LAMBDA u : ~IsIndexSquashed(receipt.squash, u.index))

PrepSub(receipt, useds, upper) ==
    LET fresh == Where(Unlockeds(receipt), LAMBDA u : IsFresh(useds, upper, u))
        next  == Unsquashed(receipt, useds) \o [n \in DOMAIN fresh |-> UsedOf(fresh[n])]
    IN  [unlockeds |-> fresh,
         useds     |-> ByIndex(next)]

PrepRespond(receipt, useds, upper) ==
    LET cheques == Where(receipt.cheques, LAMBDA c : IsFresh(useds, upper, c.body))
        locked  == Where(cheques, LAMBDA c : ~c.unlocked)
        open    == Where(cheques, LAMBDA c : c.unlocked)
    IN  [cheques |-> cheques,
         pends   |-> [n \in DOMAIN locked |-> PendOf(locked[n].body)],
         amount  |-> ListTotal(Unsquashed(receipt, useds)) + ListTotal(Bodies(open))]
=============================================================================
