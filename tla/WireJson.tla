------------------------------ MODULE WireJson ------------------------------
(***************************************************************************)
(* The JSON that client and server exchange: what serde derives for the    *)
(* types of konduit-data and konduit-tmp.  A struct is an object of its    *)
(* fields, an enum an object of the variant's name, bytes are a string of  *)
(* hex digits, a duration its seconds and nanoseconds.  The derived reader *)
(* builds the value from its fields: no constructor and none of its checks *)
(* is on the way.                                                          *)
(***************************************************************************)
EXTENDS WireShapes

Struct(fields) == [shape |-> "struct", fields |-> fields]
Enum(variants) == [shape |-> "enum", variants |-> variants, merged |-> FALSE]
EnumOfStructs(variants) == [Enum(variants) EXCEPT !.merged = TRUE]
Unit == [shape |-> "unit"]
HexOf(lengths) == [shape |-> "hex", lengths |-> lengths]

\* A list that is left out when it is empty.
ListUnlessEmpty(item) == [shape |-> "listunlessempty", item |-> item]

VerifyingKey == HexOf({32})
Signature == HexOf({64})
Lock == HexOf({32})
Secret == HexOf({32})
Tag == HexOf(Nat)
Duration == Millis
Indexes == ListOf(Number)

Used == Struct(<<Field("index", Number), Field("amount", Number)>>)

SquashBody ==
    Struct(<<Field("amount", Number), Field("index", Number), Field("exclude", Indexes)>>)
Squash == Struct(<<Field("body", SquashBody), Field("signature", Signature)>>)

ChequeBody(latch) ==
    Struct(<<Field("index", Number), Field("amount", Number), Field("timeout", Duration),
             Field("latch", latch)>>)
ChequeSigned(latch) ==
    Struct(<<Field("body", ChequeBody(latch)), Field("signature", Signature)>>)
Cheque ==
    EnumOfStructs(<<Field("Unlocked", ChequeSigned(Secret)),
                    Field("Locked", ChequeSigned(Lock))>>)

Receipt == Struct(<<Field("squash", Squash), Field("cheques", ListOf(Cheque))>>)

SquashProposal ==
    Struct(<<Field("proposal", SquashBody), Field("current", Squash),
             Field("unlockeds", ListOf(ChequeSigned(Secret))),
             Field("lockeds", ListOf(ChequeSigned(Lock)))>>)
SquashStatus ==
    Enum(<<Field("Complete", Unit), Field("Incomplete", SquashProposal),
           Field("Stale", SquashProposal)>>)

PayBody ==
    Struct(<<Field("cheque_body", ChequeBody(Lock)), Field("signature", Signature),
             Field("invoice", Text)>>)

RouteHint == ListOf(Text)
SimpleQuote ==
    Struct(<<Field("amount_msat", Number), Field("payee", HexOf({33})),
             Field("route_hints", ListUnlessEmpty(RouteHint))>>)
QuoteBody == Enum(<<Field("Simple", SimpleQuote), Field("Bolt11", Text)>>)
Quote ==
    Struct(<<Field("index", Number), Field("amount", Number), Field("relative_timeout", Number),
             Field("routing_fee", Number)>>)

\* util/cobbl3 and util/powdos
TokenRequest ==
    Struct(<<Field("body", Struct(<<Field("key", HexOf({32})), Field("nonce", Number)>>)),
             Field("signature", HexOf({64}))>>)
Challenge ==
    Struct(<<Field("scheme", Enum(<<Field("Sha256", Unit)>>)), Field("difficulty", Number),
             Field("expires_at", Number), Field("mac", HexOf({32}))>>)

-----------------------------------------------------------------------------
(* Writing.                                                                *)

JNumber(n) == [number |-> n]
JHex(bytes) == [hex |-> bytes]
JText(text) == [string |-> text]
JArray(items) == [array |-> items]
JObject(members) == [object |-> members]
JNull == [null |-> TRUE]

MillisPerSec == 1000
NanosPerMilli == 1000000

Secs(duration) == duration.ms \div MillisPerSec
Nanos(duration) == (duration.ms % MillisPerSec) * NanosPerMilli + duration.sub

NamesOf(fields) == {fields[n].name : n \in DOMAIN fields}
ShapeAt(fields, name) == (CHOOSE field \in ToSet(fields) : field.name = name).shape

RECURSIVE Serialize(_, _)
Serialize(shape, v) ==
    LET Skipped(field) == field.shape.shape = "listunlessempty" /\ v[field.name] = <<>>
        Members(fields) == [name \in NamesOf(SelectSeq(fields, LAMBDA field : ~Skipped(field))) |->
                                Serialize(ShapeAt(fields, name), v[name])]
        Chosen == ShapeAt(shape.variants, v.is)
    IN  CASE shape.shape = "number" -> JNumber(v)
          [] shape.shape = "millis" ->
                JObject([secs |-> JNumber(Secs(v)), nanos |-> JNumber(Nanos(v))])
          [] shape.shape = "hex"    -> JHex(v)
          [] shape.shape = "text"   -> JText(v.text)
          [] shape.shape \in {"list", "listunlessempty"} ->
                JArray([n \in DOMAIN v |-> Serialize(shape.item, v[n])])
          [] shape.shape = "struct" -> JObject(Members(shape.fields))
          [] shape.shape = "option" -> IF v = None THEN JNull ELSE Serialize(shape.item, v)
          [] shape.shape = "enum"   ->
                IF Chosen = Unit THEN JText(v.is)
                ELSE JObject(v.is :> Serialize(Chosen, IF shape.merged THEN v ELSE v.of))

-----------------------------------------------------------------------------
(* Reading.                                                                *)

NotRead == [ok |-> FALSE]
ReadAs(v) == [ok |-> TRUE, v |-> v]

IsU64(json) == Has(json, "number") /\ json.number \in 0..MaxU64

\* A duration in seconds and nanoseconds; whole seconds among the latter are carried.
DurationFrom(secs, nanos) ==
    LET ms == secs * MillisPerSec + nanos \div NanosPerMilli
    IN  [ms |-> ms, sub |-> nanos % NanosPerMilli]

\* The seconds, with those carried, are a u64.
IsDuration(secs, nanos) == Secs(DurationFrom(secs, nanos)) <= MaxU64

\* What is not a string and not the name of a field is ignored; a field that is
\* not there is an error, except an option.
RECURSIVE Deserialize(_, _)
Deserialize(shape, json) ==
    LET Items(item, trees) ==
            LET reads == [n \in DOMAIN trees |-> Deserialize(item, trees[n])]
            IN  IF \E n \in DOMAIN reads : ~reads[n].ok THEN NotRead
                ELSE ReadAs([n \in DOMAIN reads |-> reads[n].v])
        Member(field, members) ==
            IF field.name \in DOMAIN members THEN Deserialize(field.shape, members[field.name])
            ELSE IF field.shape.shape = "option" THEN ReadAs(None) ELSE NotRead
        Members(fields, members) ==
            IF \E n \in DOMAIN fields : ~Member(fields[n], members).ok THEN NotRead
            ELSE ReadAs([name \in NamesOf(fields) |->
                            Member(CHOOSE field \in ToSet(fields) : field.name = name, members).v])
        \* A struct is also read from an array of its fields.
        InPlace(fields, trees) ==
            IF Len(trees) # Len(fields) THEN NotRead
            ELSE Members(fields, [name \in NamesOf(fields) |->
                    trees[CHOOSE n \in DOMAIN fields : fields[n].name = name]])
        Variant(name, members) ==
            LET read == Deserialize(ShapeAt(shape.variants, name), members[name])
            IN  IF ~read.ok THEN NotRead
                ELSE ReadAs(("is" :> name) @@ (IF shape.merged THEN read.v ELSE [of |-> read.v]))
    IN  CASE shape.shape = "number" -> IF IsU64(json) THEN ReadAs(json.number) ELSE NotRead
          [] shape.shape = "millis" ->
                IF Has(json, "object") /\ DOMAIN json.object = {"secs", "nanos"}
                   /\ IsU64(json.object["secs"])
                   /\ Has(json.object["nanos"], "number") /\ json.object["nanos"].number >= 0
                   /\ IsDuration(json.object["secs"].number, json.object["nanos"].number)
                THEN ReadAs(DurationFrom(json.object["secs"].number, json.object["nanos"].number))
                ELSE NotRead
          [] shape.shape = "hex" ->
                IF Has(json, "hex") /\ json.hex.len \in shape.lengths THEN ReadAs(json.hex) ELSE NotRead
          [] shape.shape = "text" ->
                IF Has(json, "string") THEN ReadAs([text |-> json.string]) ELSE NotRead
          [] shape.shape \in {"list", "listunlessempty"} ->
                IF Has(json, "array") THEN Items(shape.item, json.array) ELSE NotRead
          [] shape.shape = "struct" ->
                IF Has(json, "object") THEN Members(shape.fields, json.object)
                ELSE IF Has(json, "array") THEN InPlace(shape.fields, json.array) ELSE NotRead
          [] shape.shape = "option" ->
                IF json = JNull THEN ReadAs(None) ELSE Deserialize(shape.item, json)
          [] shape.shape = "enum" ->
                IF Has(json, "string") /\ json.string \in NamesOf(shape.variants)
                THEN IF ShapeAt(shape.variants, json.string) = Unit
                     THEN ReadAs([is |-> json.string]) ELSE NotRead
                ELSE IF Has(json, "object") /\ \E name \in NamesOf(shape.variants) :
                            DOMAIN json.object = {name}
                THEN LET name == CHOOSE name \in DOMAIN json.object : TRUE
                     IN  IF ShapeAt(shape.variants, name) = Unit THEN NotRead
                         ELSE Variant(name, json.object)
                ELSE NotRead
=============================================================================
