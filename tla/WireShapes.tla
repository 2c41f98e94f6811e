----------------------------- MODULE WireShapes -----------------------------
(***************************************************************************)
(* What is written on the wire and on the chain.  A shape says how the     *)
(* values of a type are laid out: a number, a byte string, a list, a tuple *)
(* of named fields, or a choice among constructors.  Plutus data is a tree *)
(* and CBOR the stream of tokens that the tree is serialised to.           *)
(*                                                                         *)
(* A byte string is its length and what it is of, or the parts it is put   *)
(* together from; a duration is its milliseconds and what is left of one.  *)
(***************************************************************************)
EXTENDS Integers, Sequences, SequencesExt, FiniteSetsExt

CONSTANTS
    MaxU64,      \* the largest u64
    MaxExclude,  \* MAX_EXCLUDE_LENGTH
    ChunkSize    \* the longest byte string that CBOR of Plutus data has in one piece

ASSUME WireAssumption == MaxU64 \in Nat /\ MaxExclude \in Nat /\ ChunkSize \in Nat \ {0}

-----------------------------------------------------------------------------
(* Shapes.                                                                 *)

Number == [shape |-> "number"]
Millis == [shape |-> "millis"]
BytesOf(lengths, chunks) == [shape |-> "bytes", lengths |-> lengths, chunks |-> chunks]
AnyBytes == [shape |-> "bytes", lengths |-> Nat, chunks |-> TRUE]
ListOf(item) == [shape |-> "list", item |-> item]
Tuple(fields) == [shape |-> "tuple", fields |-> fields]
Text == [shape |-> "text"]
OptionOf(item) == [shape |-> "option", item |-> item]
OneOf(variants) == [shape |-> "oneof", variants |-> variants]

Field(name, shape) == [name |-> name, shape |-> shape]
None == [is |-> "None"]

\* A shape whose values are constrained, or normalised, when they are read.
Checked(check, of) == [shape |-> "checked", check |-> check, of |-> of]

IsNullary(variant) == variant.fields = <<>>

Increasing(list) == \A n \in 2..Len(list) : list[n - 1] < list[n]

Passes(check, v) ==
    CASE check = "indexes" -> Len(v) <= MaxExclude /\ Increasing(v)
      [] check = "squash"  -> v.exclude = <<>> \/ Last(v.exclude) < v.index
      [] OTHER -> TRUE

\* Unpend: an empty byte string, one of 32 bytes, or any other.
Normal(check, v) ==
    IF check = "unpend" /\ v.len \notin {0, 32} THEN [len |-> 1, of |-> "0"] ELSE v

-----------------------------------------------------------------------------
(* Trees and tokens.                                                       *)

I(n) == [int |-> n]
B(bytes) == [bytes |-> bytes]
L(items) == [items |-> items]
Constr(ix, fields) == [ix |-> ix, fields |-> fields]

Has(record, field) == field \in DOMAIN record

TagToken(ix) == [tag |-> 121 + ix]
Begin(what) == [begin |-> what]
Break == [break |-> TRUE]

Part(bytes, n) ==
    [len |-> Min({ChunkSize, bytes.len - (n - 1) * ChunkSize}), of |-> <<bytes.of, n>>]

\* What the parts of a byte string are together.
Joined(parts) ==
    IF parts # <<>> /\ \A n \in DOMAIN parts : parts[n].of = <<parts[1].of[1], n>>
    THEN [len |-> FoldLeft(LAMBDA sum, part : sum + part.len, 0, parts), of |-> parts[1].of[1]]
    ELSE [len |-> FoldLeft(LAMBDA sum, part : sum + part.len, 0, parts), of |-> "parts"]

InPieces(bytes) ==
    IF bytes.len <= ChunkSize THEN <<[bytes |-> bytes]>>
    ELSE LET pieces == (bytes.len + ChunkSize - 1) \div ChunkSize
         IN  <<Begin("bytes")>> \o [n \in 1..pieces |-> [bytes |-> Part(bytes, n)]] \o <<Break>>

\* A list or the fields of a constructor: none in a definite, some in an
\* indefinite array.
InArray(streams) ==
    IF streams = <<>> THEN <<[array |-> 0]>>
    ELSE <<Begin("array")>> \o FlattenSeq(streams) \o <<Break>>

\* The lock of a secret: its SHA-256.
HashOf(secret) == [len |-> 32, of |-> "hash of " \o secret.of]

\* The milliseconds of a duration, as a u64.
AsMillis(duration) == duration.ms % (MaxU64 + 1)

NumberToken(n) ==
    IF n \in 0..MaxU64 THEN [number |-> n]
    ELSE IF n < 0 THEN [negative |-> n] ELSE [bignum |-> n]
=============================================================================
