---------------------------- MODULE WireRequest ----------------------------
(***************************************************************************)
(* Requests to konduit-server: who sends one (the keytag header), in which *)
(* format its body and the answer are, what a handler is called with, and  *)
(* what is written to the database.  The bodies are konduit-tmp's types,   *)
(* in the CBOR that minicbor derives for them or in JSON.                  *)
(***************************************************************************)
EXTENDS WireAccess

Json == INSTANCE WireJson

Receipt ==
    Record(<<Field("squash", Squash), Field("cheques", VecOf(Cheque))>>)

SquashProposal ==
    Record(<<Field("proposal", SquashBody), Field("current", Squash),
             Field("unlockeds", VecOf(ChequeSigned(Secret))),
             Field("lockeds", VecOf(ChequeSigned(Lock)))>>)
SquashStatus ==
    ChoiceOf(<<Variant("Complete", <<>>), Variant("Incomplete", <<Field("of", SquashProposal)>>),
                    Variant("Stale", <<Field("of", SquashProposal)>>)>>)

PayBody ==
    Record(<<Field("cheque_body", ChequeBody(Lock)), Field("signature", Signature),
             Field("invoice", Text)>>)

RouteHint == Unwritten
SimpleQuote ==
    Record(<<Field("amount_msat", Number), Field("payee", Octets(33)),
             Field("route_hints", VecOf(RouteHint))>>)
QuoteBody ==
    ChoiceOf(<<Variant("Simple", <<Field("of", SimpleQuote)>>),
                    Variant("Bolt11", <<Field("of", Text)>>)>>)
Quote ==
    Record(<<Field("index", Number), Field("amount", Number), Field("relative_timeout", Number),
             Field("routing_fee", Number)>>)

Retainer ==
    Record(<<Field("amount", Number), Field("subbed", Number),
             Field("useds", VecOf(Used))>>)
Aux == Record(<<Field("is_active", Flag)>>)

\* The database's Value.
Entry ==
    Record(<<Field("retainer", OptionOf(Retainer)), Field("receipt", OptionOf(Receipt)),
             Field("aux", Aux)>>)

-----------------------------------------------------------------------------
(* Formats.                                                                *)

\* A header is what it says, as far as it is looked at.
Headers == {"absent", "cbor", "other"}
ParseMediaType(header) == IF header = "cbor" THEN "Cbor" ELSE "Json"

\* minicbor::decode reads one value; what is after it is not looked at.
Unmediate(media, layout, body) ==
    IF media = "Json" THEN Json!Deserialize(layout.json, body)
    ELSE LET read == Decode(layout.cbor, body.stream)
         IN  IF read.ok THEN Done(read.v) ELSE Failed

\* The body of an answer, or a status of 500.
Mediate(media, layout, v) ==
    IF media = "Json" THEN Done(Json!Serialize(layout.json, v))
    ELSE LET stream == Encode(layout.cbor, v)
         IN  IF Contains(stream, Failure) THEN Failed ELSE Done([stream |-> stream])

\* A record is read back from what was written, or the server panics.
FromBytes(stream) == Decode(Entry, stream)
AsBytes(entry) == Encode(Entry, entry)

-----------------------------------------------------------------------------
(* The keytag: the consumer's key, 32 bytes, and the channel's tag.        *)

KeyLength == 32

NewKeytag(key, tag) == [len |-> KeyLength + tag.len, key |-> key, tag |-> tag]
SplitKeytag(keytag) == [key |-> keytag.key, tag |-> keytag.tag]

-----------------------------------------------------------------------------
(* The arguments of the handlers, from what was read.                      *)

\* pay: the cheque is put together again from its body and signature.
ChequeOfPay(body) == [body |-> body.cheque_body, signature |-> body.signature]

\* The client splits the cheque that it has made.
PayOf(locked, invoice) ==
    [cheque_body |-> locked.body, signature |-> locked.signature, invoice |-> invoice]
=============================================================================
