---------------------------- MODULE KonduitRecord ----------------------------
(***************************************************************************)
(* The provider's record of a channel (packages/konduit/server/src/        *)
(* channel.rs): the retainer, the last opened UTxO seen on the ledger, and *)
(* the receipt.  Either may be None.                                       *)
(*                                                                         *)
(*   [retainer |-> [amount, subbed, useds],  receipt |-> a receipt]        *)
(*                                                                         *)
(* is_active has no operation that clears it and is left out.              *)
(***************************************************************************)
EXTENDS KonduitReceipt

None == [none |-> TRUE]
NewRecord == [retainer |-> None, receipt |-> None]

RetainerOf(channel) ==
    [amount |-> channel.amount, subbed |-> channel.subbed, useds |-> channel.useds]

-----------------------------------------------------------------------------
(* Queries.                                                                *)

HasReceipt(record) == record.receipt # None

MayCommit(record) ==
    record.retainer # None /\ HasReceipt(record) /\ Capacity(record.receipt) # 0

Uncommitted(record) ==
    Monus(record.retainer.amount, Monus(Committed(record.receipt), record.retainer.subbed))

CanCommit(record, amount) == MayCommit(record) /\ Uncommitted(record) > amount

LastUsed(retainer) == IF retainer.useds = <<>> THEN 0 ELSE Last(retainer.useds).index
NextIndexOf(record) == Greatest(LastUsed(record.retainer), ProposeIndex(record.receipt))

-----------------------------------------------------------------------------
(* Events.                                                                 *)

\* Among the candidates, the last of those with the greatest key.
ClaimableOf(receipt, c) ==
    IF receipt = None THEN 0 ELSE Least(Monus(Committed(receipt), c.subbed), c.amount)
Outranks(receipt, a, b) ==
    LET keyA == ClaimableOf(receipt, a) keyB == ClaimableOf(receipt, b)
    IN  keyA > keyB \/ (keyA = keyB /\ a.amount >= b.amount)
WithRetainer(record, candidates) ==
    [record EXCEPT !.retainer =
        FoldLeft(LAMBDA best, c : IF best = None \/ Outranks(record.receipt, c, best)
                                  THEN c ELSE best,
                 None, candidates)]

AcceptsSquash(record, squash) == HasReceipt(record) => TakesSquash(record.receipt, squash)
SquashInto(record, squash) ==
    [record EXCEPT !.receipt = IF @ = None THEN NewReceipt(squash) ELSE WithSquash(@, squash)]

\* Mutant: the funds are not checked when the cheque arrives.
AcceptsUnfunded(record, locked) == MayCommit(record) /\ TakesLocked(record.receipt, locked)

AcceptsCheque(record, locked) ==
    /\ MayCommit(record)
    /\ locked.amount <= Uncommitted(record)
    /\ TakesLocked(record.receipt, locked)
ChequeInto(record, locked) == [record EXCEPT !.receipt = WithLocked(@, locked)]

\* Secrets are applied in turn; one that changes nothing fails them all.
SecretsInto(record, secrets) ==
    FoldLeft(LAMBDA acc, s :
                 IF acc.ok /\ TakesSecret(acc.receipt, s)
                 THEN [acc EXCEPT !.receipt = WithSecretOf(@, s)]
                 ELSE [acc EXCEPT !.ok = FALSE],
             [ok |-> HasReceipt(record), receipt |-> record.receipt],
             secrets)
=============================================================================
