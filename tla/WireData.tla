------------------------------ MODULE WireData ------------------------------
(***************************************************************************)
(* konduit-data by way of PlutusData: how a datum or a redeemer gets into  *)
(* a transaction, and how a datum is read from the chain.  The conversions *)
(* (via_plutus_data of each type) build trees and take them apart again;   *)
(* the bytes of a tree are those of cardano-sdk's PlutusData.              *)
(***************************************************************************)
EXTENDS WireShapes

Variant(name, fields) == [name |-> name, fields |-> fields]

Tag == AnyBytes
Lock == BytesOf({32}, FALSE)
Secret == BytesOf({32}, FALSE)
VerifyingKey == BytesOf({32}, FALSE)
Signature == BytesOf({64}, FALSE)
Duration == Millis
Unpend == Checked("unpend", BytesOf(Nat, FALSE))

Used == Tuple(<<Field("index", Number), Field("amount", Number)>>)
Pending == Tuple(<<Field("amount", Number), Field("timeout", Duration), Field("lock", Lock)>>)

Stage ==
    OneOf(<<Variant("Opened", <<Field("amount", Number), Field("useds", ListOf(Used))>>),
            Variant("Closed", <<Field("amount", Number), Field("useds", ListOf(Used)),
                                Field("elapse_at", Duration)>>),
            Variant("Responded", <<Field("amount", Number), Field("pendings", ListOf(Pending))>>)>>)

Constants ==
    Tuple(<<Field("tag", Tag), Field("add_vkey", VerifyingKey),
            Field("sub_vkey", VerifyingKey), Field("close_period", Duration)>>)

Datum ==
    Tuple(<<Field("own_hash", BytesOf({28}, FALSE)), Field("constants", Constants),
            Field("stage", Stage)>>)

Indexes == Checked("indexes", ListOf(Number))

SquashBody ==
    Checked("squash", Tuple(<<Field("amount", Number), Field("index", Number),
                              Field("exclude", Indexes)>>))

Squash == Tuple(<<Field("body", SquashBody), Field("signature", Signature)>>)

ChequeBody(latch) ==
    Tuple(<<Field("index", Number), Field("amount", Number), Field("timeout", Duration),
            Field("latch", latch)>>)

Unlocked == Tuple(<<Field("body", ChequeBody(Secret)), Field("signature", Signature)>>)
Locked == Tuple(<<Field("body", ChequeBody(Lock)), Field("signature", Signature)>>)

Cheque == OneOf(<<Variant("Unlocked", Unlocked.fields), Variant("Locked", Locked.fields)>>)

Eol == OneOf(<<Variant("End", <<>>), Variant("Elapse", <<>>)>>)

Cont ==
    OneOf(<<Variant("Add", <<>>),
            Variant("Sub", <<Field("squash", Squash), Field("unlockeds", ListOf(Unlocked))>>),
            Variant("Close", <<>>),
            Variant("Respond", <<Field("squash", Squash), Field("cheques", ListOf(Cheque))>>),
            Variant("Unlock", <<Field("unpends", ListOf(Unpend))>>),
            Variant("Expire", <<Field("unpends", ListOf(Unpend))>>)>>)

Step == OneOf(<<Variant("Cont", <<Field("cont", Cont)>>), Variant("Eol", <<Field("eol", Eol)>>)>>)

Redeemer ==
    OneOf(<<Variant("Defer", <<>>), Variant("Main", <<Field("steps", ListOf(Step))>>),
            Variant("Mutual", <<>>)>>)

-----------------------------------------------------------------------------
\* From a value to its tree, and the tree's bytes.
RECURSIVE From(_, _)
From(shape, v) ==
    LET Fields(fields) == [n \in DOMAIN fields |-> From(fields[n].shape, v[fields[n].name])]
    IN  CASE shape.shape = "number"  -> I(v)
          [] shape.shape = "millis"  -> I(AsMillis(v))
          [] shape.shape = "bytes"   -> B(v)
          [] shape.shape = "checked" -> From(shape.of, v)
          [] shape.shape = "list"    -> L([n \in DOMAIN v |-> From(shape.item, v[n])])
          [] shape.shape = "tuple"   -> L(Fields(shape.fields))
          [] shape.shape = "oneof"   ->
                LET ix == CHOOSE n \in DOMAIN shape.variants : shape.variants[n].name = v.is
                IN  Constr(ix - 1, Fields(shape.variants[ix].fields))

RECURSIVE ToCbor(_)
ToCbor(tree) ==
    LET Streams(trees) == [n \in DOMAIN trees |-> ToCbor(trees[n])]
    IN  IF Has(tree, "int") THEN <<NumberToken(tree.int)>>
        ELSE IF Has(tree, "bytes") THEN InPieces(tree.bytes)
        ELSE IF Has(tree, "items") THEN InArray(Streams(tree.items))
        ELSE <<TagToken(tree.ix)>> \o InArray(Streams(tree.fields))

-----------------------------------------------------------------------------
(* From a tree to the value it was read as.                                *)

NotRead == [ok |-> FALSE]
ReadAs(v) == [ok |-> TRUE, v |-> v]

\* Mutant: trees after the last field are not looked at.
EnoughFields(fields, trees) == Len(trees) >= Len(fields)

TheFields(fields, trees) == Len(trees) = Len(fields)

RECURSIVE TryFrom(_, _)
TryFrom(shape, tree) ==
    LET Fields(fields, trees, start) ==
            LET reads == [n \in DOMAIN fields |-> TryFrom(fields[n].shape, trees[n])]
            IN  IF ~TheFields(fields, trees) \/ \E n \in DOMAIN reads : ~reads[n].ok THEN NotRead
                ELSE ReadAs(FoldLeft(LAMBDA v, n : v @@ (fields[n].name :> reads[n].v),
                                     start, [n \in DOMAIN fields |-> n]))
        Items(trees) ==
            LET reads == [n \in DOMAIN trees |-> TryFrom(shape.item, trees[n])]
            IN  IF \E n \in DOMAIN reads : ~reads[n].ok THEN NotRead
                ELSE ReadAs([n \in DOMAIN reads |-> reads[n].v])
        isU64 == Has(tree, "int") /\ tree.int \in 0..MaxU64
    IN  CASE shape.shape = "number" -> IF isU64 THEN ReadAs(tree.int) ELSE NotRead
          [] shape.shape = "millis" -> IF isU64 THEN ReadAs([ms |-> tree.int, sub |-> 0]) ELSE NotRead
          [] shape.shape = "bytes"  ->
                IF Has(tree, "bytes") /\ tree.bytes.len \in shape.lengths THEN ReadAs(tree.bytes)
                ELSE NotRead
          [] shape.shape = "checked" ->
                LET r == TryFrom(shape.of, tree)
                IN  IF r.ok /\ Passes(shape.check, r.v) THEN ReadAs(Normal(shape.check, r.v)) ELSE NotRead
          [] shape.shape = "list"  -> IF Has(tree, "items") THEN Items(tree.items) ELSE NotRead
          [] shape.shape = "tuple" ->
                IF Has(tree, "items") THEN Fields(shape.fields, tree.items, <<>>) ELSE NotRead
          [] shape.shape = "oneof" ->
                LET variant == shape.variants[tree.ix + 1]
                IN  IF ~Has(tree, "ix") \/ tree.ix + 1 \notin DOMAIN shape.variants THEN NotRead
                    ELSE IF IsNullary(variant) THEN ReadAs([is |-> variant.name])
                    ELSE Fields(variant.fields, tree.fields, [is |-> variant.name])
=============================================================================
