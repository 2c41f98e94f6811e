----------------------------- MODULE WireKernel -----------------------------
(***************************************************************************)
(* The validator's types (kernel/lib/konduit/types.ak): how a datum or a   *)
(* redeemer is read on chain.  A tuple is a list and a constructor has the *)
(* index of its place in the type, both with exactly their fields; an Int  *)
(* is any integer and a ByteArray has any length (conformance/wire.ak).    *)
(***************************************************************************)
EXTENDS WireShapes

Variant(name, fields) == [name |-> name, fields |-> fields]

Index == Number
Amount == Number
Timestamp == Millis
Bytes == AnyBytes

Latch == Bytes
ChequeBody ==
    Tuple(<<Field("index", Index), Field("amount", Amount), Field("timeout", Timestamp),
            Field("latch", Latch)>>)
Unlocked == Tuple(<<Field("body", ChequeBody), Field("signature", Bytes)>>)
Cheque ==
    OneOf(<<Variant("Unlocked", <<Field("body", ChequeBody), Field("signature", Bytes)>>),
            Variant("Locked", <<Field("body", ChequeBody), Field("signature", Bytes)>>)>>)

Exclude == ListOf(Index)
SquashBody == Tuple(<<Field("amount", Amount), Field("index", Index), Field("exclude", Exclude)>>)
Squash == Tuple(<<Field("body", SquashBody), Field("signature", Bytes)>>)

Constants ==
    Tuple(<<Field("tag", Bytes), Field("add_vkey", Bytes), Field("sub_vkey", Bytes),
            Field("close_period", Timestamp)>>)

Used == Tuple(<<Field("index", Index), Field("amount", Amount)>>)
Pending == Tuple(<<Field("amount", Amount), Field("timeout", Timestamp), Field("lock", Latch)>>)

Stage ==
    OneOf(<<Variant("Opened", <<Field("amount", Amount), Field("useds", ListOf(Used))>>),
            Variant("Closed", <<Field("amount", Amount), Field("useds", ListOf(Used)),
                                Field("elapse_at", Timestamp)>>),
            Variant("Responded", <<Field("amount", Amount), Field("pendings", ListOf(Pending))>>)>>)

Datum ==
    Tuple(<<Field("own_hash", Bytes), Field("constants", Constants), Field("stage", Stage)>>)

Unpend == Bytes
Cont ==
    OneOf(<<Variant("Add", <<>>),
            Variant("Sub", <<Field("squash", Squash), Field("unlockeds", ListOf(Unlocked))>>),
            Variant("Close", <<>>),
            Variant("Respond", <<Field("squash", Squash), Field("cheques", ListOf(Cheque))>>),
            Variant("Unlock", <<Field("unpends", ListOf(Unpend))>>),
            Variant("Expire", <<Field("unpends", ListOf(Unpend))>>)>>)
Eol == OneOf(<<Variant("End", <<>>), Variant("Elapse", <<>>)>>)
Step == OneOf(<<Variant("Cont", <<Field("cont", Cont)>>), Variant("Eol", <<Field("eol", Eol)>>)>>)
Redeemer ==
    OneOf(<<Variant("Defer", <<>>), Variant("Main", <<Field("steps", ListOf(Step))>>),
            Variant("Mutual", <<>>)>>)

-----------------------------------------------------------------------------
\* What the script reads, which fails on a tree of another form.
NotRead == [ok |-> FALSE]
ReadAs(v) == [ok |-> TRUE, v |-> v]

RECURSIVE Expect(_, _)
Expect(shape, tree) ==
    LET Fields(fields, trees, start) ==
            LET reads == [n \in DOMAIN fields |-> Expect(fields[n].shape, trees[n])]
            IN  IF Len(trees) # Len(fields) \/ \E n \in DOMAIN reads : ~reads[n].ok THEN NotRead
                ELSE ReadAs(FoldLeft(LAMBDA v, n : v @@ (fields[n].name :> reads[n].v),
                                     start, [n \in DOMAIN fields |-> n]))
        Items(trees) ==
            LET reads == [n \in DOMAIN trees |-> Expect(shape.item, trees[n])]
            IN  IF \E n \in DOMAIN reads : ~reads[n].ok THEN NotRead
                ELSE ReadAs([n \in DOMAIN reads |-> reads[n].v])
        constr == Has(tree, "ix") /\ tree.ix + 1 \in DOMAIN shape.variants
    IN  CASE shape.shape = "number" -> IF Has(tree, "int") THEN ReadAs(tree.int) ELSE NotRead
          [] shape.shape = "millis" ->
                IF Has(tree, "int") THEN ReadAs([ms |-> tree.int, sub |-> 0]) ELSE NotRead
          [] shape.shape = "bytes"  -> IF Has(tree, "bytes") THEN ReadAs(tree.bytes) ELSE NotRead
          [] shape.shape = "list"   -> IF Has(tree, "items") THEN Items(tree.items) ELSE NotRead
          [] shape.shape = "tuple"  ->
                IF Has(tree, "items") THEN Fields(shape.fields, tree.items, <<>>) ELSE NotRead
          [] shape.shape = "oneof"  ->
                IF constr THEN Fields(shape.variants[tree.ix + 1].fields, tree.fields,
                                      [is |-> shape.variants[tree.ix + 1].name])
                ELSE NotRead

\* wellformed.unlocked: the body that was signed, the secret replaced by its hash.
LockedBody(trees) == L([trees EXCEPT ![4] = B(HashOf(@.bytes))])

\* wellformed.wellsigned: the message that a signature is verified on.
Message(tag, body) == L(<<tag, body>>)
=============================================================================
