------------------------------ MODULE WireCbor ------------------------------
(***************************************************************************)
(* konduit-data's own CBOR (minicbor's Encode and Decode): what is signed, *)
(* and what the parties send to each other.  The encoders write the array  *)
(* and tag tokens themselves; the decoders take any array header, read the *)
(* fields in order, and want the break of an indefinite array after them.  *)
(*                                                                         *)
(* What minicbor derives for the other types: a record is an array of its  *)
(* fields by number, a choice the number of the variant and its fields.    *)
(***************************************************************************)
EXTENDS WireShapes

Variant(name, fields) == [name |-> name, fields |-> fields]

Tag == AnyBytes
Lock == BytesOf({32}, FALSE)
Secret == BytesOf({32}, FALSE)
VerifyingKey == BytesOf({32}, TRUE)
Signature == BytesOf({64}, TRUE)
Duration == Millis
Unpend == Checked("unpend", BytesOf(Nat, FALSE))

Used == Tuple(<<Field("index", Number), Field("amount", Number)>>)
Pending == Tuple(<<Field("amount", Number), Field("timeout", Duration), Field("lock", Lock)>>)

Stage ==
    OneOf(<<Variant("Opened", <<Field("amount", Number), Field("useds", ListOf(Used))>>),
            Variant("Closed", <<Field("amount", Number), Field("useds", ListOf(Used)),
                                Field("elapse_at", Duration)>>),
            Variant("Responded", <<Field("amount", Number), Field("pendings", ListOf(Pending))>>)>>)

Constants ==
    Tuple(<<Field("tag", Tag), Field("add_vkey", VerifyingKey),
            Field("sub_vkey", VerifyingKey), Field("close_period", Duration)>>)

Datum ==
    Tuple(<<Field("own_hash", BytesOf({28}, FALSE)), Field("constants", Constants),
            Field("stage", Stage)>>)

Indexes == Checked("indexes", ListOf(Number))

\* Mutant: index and amount change places.
SquashBodySwapped ==
    Checked("squash", Tuple(<<Field("index", Number), Field("amount", Number),
                              Field("exclude", Indexes)>>))

SquashBody ==
    Checked("squash", Tuple(<<Field("amount", Number), Field("index", Number),
                              Field("exclude", Indexes)>>))

Squash == Tuple(<<Field("body", SquashBody), Field("signature", Signature)>>)

ChequeBody(latch) ==
    Tuple(<<Field("index", Number), Field("amount", Number), Field("timeout", Duration),
            Field("latch", latch)>>)

ChequeSigned(latch) ==
    Tuple(<<Field("body", ChequeBody(latch)), Field("signature", Signature)>>)

Cheque ==
    OneOf(<<Variant("Unlocked", ChequeSigned(Secret).fields),
            Variant("Locked", ChequeSigned(Lock).fields)>>)

Eol == OneOf(<<Variant("End", <<>>), Variant("Elapse", <<>>)>>)

Cont ==
    OneOf(<<Variant("Add", <<>>),
            Variant("Sub", <<Field("squash", Squash), Field("unlockeds", ListOf(ChequeSigned(Secret)))>>),
            Variant("Close", <<>>),
            Variant("Respond", <<Field("squash", Squash), Field("cheques", ListOf(Cheque))>>),
            Variant("Unlock", <<Field("unpends", ListOf(Unpend))>>),
            Variant("Expire", <<Field("unpends", ListOf(Unpend))>>)>>)

Step == OneOf(<<Variant("Cont", <<Field("cont", Cont)>>), Variant("Eol", <<Field("eol", Eol)>>)>>)

Redeemer ==
    OneOf(<<Variant("Defer", <<>>), Variant("Main", <<Field("steps", ListOf(Step))>>),
            Variant("Mutual", <<>>)>>)

-----------------------------------------------------------------------------
(* Encode.                                                                 *)

\* Mutant: in one piece, whatever the length.
InOnePiece(bytes) == <<[bytes |-> bytes]>>

PlutusBytes(bytes) == InPieces(bytes)

Record(fields) == [shape |-> "record", fields |-> fields]
ChoiceOf(variants) == [shape |-> "choice", variants |-> variants]
VecOf(item) == [shape |-> "vec", item |-> item]
Flag == [shape |-> "flag"]

\* A byte array that nobody says to write as bytes: an array of numbers.
Octets(length) == [shape |-> "octets", length |-> length]

Array(n) == [array |-> n]
Null == [null |-> TRUE]

\* RouteHint: encoding and decoding are "not yet implemented".
Unwritten == [shape |-> "unwritten"]
Failure == [error |-> "not yet implemented"]

RECURSIVE Encode(_, _)
Encode(shape, v) ==
    LET Fields(fields) == [n \in DOMAIN fields |-> Encode(fields[n].shape, v[fields[n].name])]
        InDefinite(streams) == <<Array(Len(streams))>> \o FlattenSeq(streams)
    IN  CASE shape.shape = "record" -> InDefinite(Fields(shape.fields))
          [] shape.shape = "choice" ->
                LET ix == CHOOSE n \in DOMAIN shape.variants : shape.variants[n].name = v.is
                IN  <<Array(2), NumberToken(ix - 1)>> \o InDefinite(Fields(shape.variants[ix].fields))
          [] shape.shape = "vec"       -> InDefinite([n \in DOMAIN v |-> Encode(shape.item, v[n])])
          [] shape.shape = "option"    -> IF v = None THEN <<Null>> ELSE Encode(shape.item, v)
          [] shape.shape = "text"      -> <<v>>
          [] shape.shape = "flag"      -> <<[flag |-> v]>>
          [] shape.shape = "octets"    -> <<Array(v.len), [octets |-> v]>>
          [] shape.shape = "unwritten" -> <<Failure>>
          [] shape.shape = "number"  -> <<NumberToken(v)>>
          [] shape.shape = "millis"  -> <<NumberToken(AsMillis(v))>>
          [] shape.shape = "bytes"   -> PlutusBytes(v)
          [] shape.shape = "checked" -> Encode(shape.of, v)
          [] shape.shape = "list"    -> InArray([n \in DOMAIN v |-> Encode(shape.item, v[n])])
          [] shape.shape = "tuple"   -> InArray(Fields(shape.fields))
          [] shape.shape = "oneof"   ->
                LET ix == CHOOSE n \in DOMAIN shape.variants : shape.variants[n].name = v.is
                IN  <<TagToken(ix - 1)>> \o InArray(Fields(shape.variants[ix].fields))

\* The body of a cheque as it was signed.
LockedBody(isUnlocked, body) ==
    IF isUnlocked THEN [body EXCEPT !.latch = HashOf(body.latch)] ELSE body

\* Tag::data, what a signature is on.
TagData(tag, body, v) == InArray(<<Encode(Tag, tag), Encode(body, v)>>)

-----------------------------------------------------------------------------
(* Decode: what was read, and the tokens left.                             *)

NotRead == [ok |-> FALSE]
ReadAs(v, rest) == [ok |-> TRUE, v |-> v, rest |-> rest]

IsHeader(token) == Has(token, "array") \/ token = Begin("array")
StartsWith(stream, token) == stream # <<>> /\ Head(stream) = token

ReadBytes(shape, stream) ==
    LET end   == SelectInSeq(stream, LAMBDA token : token = Break)
        whole == IF Has(Head(stream), "bytes") THEN Head(stream).bytes
                 ELSE Joined([n \in 1..(end - 2) |-> stream[n + 1].bytes])
        fits  == \/ Has(Head(stream), "bytes")
                 \/ Head(stream) = Begin("bytes") /\ shape.chunks /\ end # 0
    IN  IF stream = <<>> \/ ~fits \/ whole.len \notin shape.lengths THEN NotRead
        ELSE ReadAs(whole, IF Has(Head(stream), "bytes") THEN Tail(stream)
                           ELSE SubSeq(stream, end + 1, Len(stream)))

RECURSIVE Decode(_, _), DecodeItems(_, _, _), DecodeFields(_, _, _)

\* left is the number of items to come, or -1 when a break ends them.
DecodeItems(item, stream, left) ==
    IF left = 0 THEN ReadAs(<<>>, stream)
    ELSE IF left < 0 /\ StartsWith(stream, Break) THEN ReadAs(<<>>, Tail(stream))
    ELSE LET first == Decode(item, stream)
             more  == DecodeItems(item, first.rest, left - 1)
         IN  IF ~first.ok \/ ~more.ok THEN NotRead
             ELSE ReadAs(<<first.v>> \o more.v, more.rest)

\* The fields in order, added to what is known of the value.
DecodeFields(fields, stream, v) ==
    IF fields = <<>> THEN ReadAs(v, stream)
    ELSE LET field == Head(fields)
             read  == Decode(field.shape, stream)
         IN  IF read.ok THEN DecodeFields(Tail(fields), read.rest, v @@ (field.name :> read.v))
             ELSE NotRead

\* The break after the fields.
Broken(read) ==
    IF read.ok /\ StartsWith(read.rest, Break) THEN ReadAs(read.v, Tail(read.rest)) ELSE NotRead

Decode(shape, stream) ==
    LET Starts(field) == stream # <<>> /\ Has(Head(stream), field)
    IN  CASE shape.shape = "record" ->
                IF StartsWith(stream, Array(Len(shape.fields)))
                THEN DecodeFields(shape.fields, Tail(stream), <<>>) ELSE NotRead
          [] shape.shape = "choice" ->
                LET ix      == stream[2].number + 1
                    variant == shape.variants[ix]
                IN  IF \/ ~StartsWith(stream, Array(2)) \/ ix \notin DOMAIN shape.variants
                       \/ stream[3] # Array(Len(variant.fields)) THEN NotRead
                    ELSE DecodeFields(variant.fields, SubSeq(stream, 4, Len(stream)),
                                      [is |-> variant.name])
          [] shape.shape = "vec" ->
                IF Starts("array") THEN DecodeItems(shape.item, Tail(stream), Head(stream).array)
                ELSE NotRead
          [] shape.shape = "option" ->
                IF StartsWith(stream, Null) THEN ReadAs(None, Tail(stream))
                ELSE Decode(shape.item, stream)
          [] shape.shape = "text" ->
                IF Starts("text") THEN ReadAs(Head(stream), Tail(stream)) ELSE NotRead
          [] shape.shape = "flag" ->
                IF Starts("flag") THEN ReadAs(Head(stream).flag, Tail(stream)) ELSE NotRead
          [] shape.shape = "octets" ->
                IF StartsWith(stream, Array(shape.length)) /\ Has(stream[2], "octets")
                THEN ReadAs(stream[2].octets, SubSeq(stream, 3, Len(stream))) ELSE NotRead
          [] shape.shape = "unwritten" -> NotRead
          [] shape.shape = "number" ->
                IF Starts("number") THEN ReadAs(Head(stream).number, Tail(stream)) ELSE NotRead
          [] shape.shape = "millis" ->
                IF Starts("number") THEN ReadAs([ms |-> Head(stream).number, sub |-> 0], Tail(stream))
                ELSE NotRead
          [] shape.shape = "bytes" -> ReadBytes(shape, stream)
          [] shape.shape = "checked" ->
                LET r == Decode(shape.of, stream)
                IN  IF r.ok /\ Passes(shape.check, r.v)
                    THEN ReadAs(Normal(shape.check, r.v), r.rest) ELSE NotRead
          [] shape.shape = "list" ->
                IF stream = <<>> \/ ~IsHeader(Head(stream)) THEN NotRead
                ELSE DecodeItems(shape.item, Tail(stream),
                                 IF Starts("array") THEN Head(stream).array ELSE -1)
          [] shape.shape = "tuple" ->
                IF stream = <<>> \/ ~IsHeader(Head(stream)) THEN NotRead
                ELSE Broken(DecodeFields(shape.fields, Tail(stream), <<>>))
          [] shape.shape = "oneof" ->
                LET ix      == Head(stream).tag - 120
                    variant == shape.variants[ix]
                IN  IF \/ ~Starts("tag") \/ ix \notin DOMAIN shape.variants
                       \/ Len(stream) = 1 \/ ~IsHeader(stream[2]) THEN NotRead
                    ELSE IF IsNullary(variant)
                    THEN ReadAs([is |-> variant.name], SubSeq(stream, 3, Len(stream)))
                    ELSE Broken(DecodeFields(variant.fields, SubSeq(stream, 3, Len(stream)),
                                             [is |-> variant.name]))
=============================================================================
