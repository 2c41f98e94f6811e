--------------------------- MODULE KonduitService ---------------------------
(***************************************************************************)
(* konduit-server as its clients see it: a request is made by the client's *)
(* Adaptor over util/http-client, passes the service's middleware and a    *)
(* handler, is answered from the database, where every channel has a row,  *)
(* and what the client hears of it is a value, a status, or nothing.  What *)
(* goes on between the awaits of a handler is left to KonduitAdaptor, the  *)
(* formats of the bodies to WireRequest: here a body has a form and is     *)
(* read in that form alone.                                                *)
(*                                                                         *)
(* A keytag is a sequence of bytes: the consumer's key, then the tag.      *)
(* What is signed says for whom ("by"), and nobody signs for another.      *)
(***************************************************************************)
EXTENDS KonduitRecord

CONSTANTS
    Keytag,         \* of the channels on the ledger
    KeyLength,      \* bytes of a key: 32
    Invoice,        \* [hash, msat]
    Settles,        \* what the node may make of a payment: settled, failed
    Retained,       \* what a channel on the ledger may hold
    Timeout,        \* of a cheque
    MaxIndexSigned, \* bound on the index of a cheque
    FeePlaceholder  \* FEE_PLACEHOLDER, one lovelace for a millisat

VARIABLE rows    \* the database: a row for each keytag

Done(v)   == [ok |-> TRUE, v |-> v]
Fail(why) == [ok |-> FALSE, why |-> why]
AndThen(result, Op(_)) == IF result.ok THEN Op(result.v) ELSE result

-----------------------------------------------------------------------------
(* Keytags.                                                                *)

Split(keytag) ==
    [key |-> SubSeq(keytag, 1, KeyLength), tag |-> SubSeq(keytag, KeyLength + 1, Len(keytag))]

\* In a header, in hex.  Its length is not looked at.
Display(keytag) == [hex |-> keytag]
FromStr(text)   == IF "hex" \in DOMAIN text THEN Done(text.hex) ELSE Fail("invalid tag")

\* In the database: the order of the bytes.
Precedes(a, b) ==
    \/ IsStrictPrefix(a, b)
    \/ \E n \in DOMAIN a \cap DOMAIN b : a[n] < b[n] /\ SubSeq(a, 1, n - 1) = SubSeq(b, 1, n - 1)
Keys(db) == SetToSortSeq(DOMAIN db, Precedes)

Signed(keytag, body) == [by |-> Split(keytag)] @@ body

-----------------------------------------------------------------------------
(* The record of a channel, and its errors.                                *)

ToChannel(row, keytag) == Split(keytag) @@ row
FromChannel(channel)   == [retainer |-> channel.retainer, receipt |-> channel.receipt]

Verifies(channel, signed) == signed.by = [key |-> channel.key, tag |-> channel.tag]

CommitError(channel) ==
    IF channel.retainer = None THEN "NoRetainer"
    ELSE IF channel.receipt = None THEN "NoReceipt"
    ELSE IF Capacity(channel.receipt) = 0 THEN "Capacity" ELSE "none"

ProposeSquash(channel) ==
    LET receipt == channel.receipt
        Propose(proposal) ==
            IF proposal.ok
            THEN Done([proposal |-> proposal.body, current |-> receipt.squash,
                       unlockeds |-> Unlockeds(receipt), lockeds |-> Lockeds(receipt)])
            ELSE Fail("Receipt")
    IN  IF receipt = None THEN Fail("NoReceipt") ELSE Propose(Proposal(receipt))

ApplySquash(channel, squash) ==
    IF ~Verifies(channel, squash) THEN Fail("Verify")
    ELSE IF ~AcceptsSquash(channel, squash) THEN Fail("Receipt")
    ELSE Done(SquashInto(channel, squash))

ApplyLocked(channel, locked) ==
    LET Take(error) ==
            IF error # "none" THEN Fail(error)
            ELSE IF locked.amount > Uncommitted(channel) THEN Fail("Funds")
            ELSE IF ~AcceptsCheque(channel, locked) THEN Fail("Receipt")
            ELSE Done(ChequeInto(channel, locked))
    IN  IF Verifies(channel, locked) THEN Take(CommitError(channel)) ELSE Fail("Verify")

ApplySecrets(channel, secrets) ==
    LET Take(applied) ==
            IF applied.ok THEN Done([channel EXCEPT !.receipt = applied.receipt]) ELSE Fail("Receipt")
    IN  IF channel.receipt = None THEN Fail("NoReceipt") ELSE Take(SecretsInto(channel, secrets))

ApplyRetainer(channel, candidates) == Done(WithRetainer(channel, candidates))

\* The operations that a transaction of the database may be given.
Apply(channel, op) ==
    CASE op.name = "squash"   -> ApplySquash(channel, op.of)
      [] op.name = "locked"   -> ApplyLocked(channel, op.of)
      [] op.name = "secrets"  -> ApplySecrets(channel, op.of)
      [] op.name = "retainer" -> ApplyRetainer(channel, op.of)

-----------------------------------------------------------------------------
(* The database: a transaction commits or leaves everything as it is.      *)

Get(db, keytag) == IF keytag \in DOMAIN db THEN Done(ToChannel(db[keytag], keytag)) ELSE Fail("NoChannel")

Commit(db, keytag, updated) ==
    AndThen(updated, LAMBDA channel : Done((keytag :> FromChannel(channel)) @@ db))

Update(db, keytag, op) ==
    IF keytag \notin DOMAIN db THEN Fail("NoChannel")
    ELSE Commit(db, keytag, Apply(ToChannel(db[keytag], keytag), op))

Upsert(db, keytag, op) ==
    LET current == IF keytag \in DOMAIN db THEN db[keytag] ELSE NewRecord
    IN  Commit(db, keytag, Apply(ToChannel(current, keytag), op))

-----------------------------------------------------------------------------
(* What the handlers are made of: the rows they leave, and an answer.      *)

ReceiptOf(db, keytag) ==
    AndThen(Get(db, keytag), LAMBDA channel : Done(channel.receipt))

SquashStatus(db, keytag) == AndThen(Get(db, keytag), ProposeSquash)

\* An error of the receipt is no error here.
Squash(db, keytag, squash) ==
    LET Forgive(updated) == IF ~updated.ok /\ updated.why = "Receipt" THEN Done(db) ELSE updated
    IN  Forgive(Update(db, keytag, [name |-> "squash", of |-> squash]))

QuoteAmount(msat) == msat + FeePlaceholder + 1
Quote(db, keytag, invoice, settles) ==
    LET Ask(channel, error) ==
            IF error # "none" THEN Fail(error)
            ELSE IF ~CanCommit(channel, QuoteAmount(invoice.msat)) THEN Fail("Funds")
            ELSE IF settles = "failed" THEN Fail("Bln")
            ELSE Done([index |-> NextIndexOf(channel), amount |-> QuoteAmount(invoice.msat)])
    IN  AndThen(Get(db, keytag), LAMBDA channel : Ask(channel, CommitError(channel)))

\* CommitmentError
AlignError(locked, invoice) ==
    IF invoice.hash # locked.latch THEN "Lock"
    ELSE IF Monus(locked.amount - FeePlaceholder, invoice.msat) < 1 THEN "Fee"
    ELSE IF locked.timeout < 1 THEN "Time" ELSE "none"

\* The cheque stays, also where the payment fails.
Pay(db, keytag, body, settles) ==
    LET Settle(updated) ==
            IF ~updated.ok THEN [db |-> db, of |-> updated]
            ELSE [db |-> updated.v,
                  of |-> IF settles = "failed" THEN Fail("Bln") ELSE SquashStatus(updated.v, keytag)]
        Commits(error) ==
            IF error # "none" THEN [db |-> db, of |-> Fail(error)]
            ELSE Settle(Update(db, keytag, [name |-> "locked", of |-> body.locked]))
    IN  Commits(AlignError(body.locked, body.invoice))

-----------------------------------------------------------------------------
(* The service: middleware, routes, statuses.                              *)

ParseMediaType(headers, name) ==
    IF name \in DOMAIN headers /\ headers[name] = "Cbor" THEN "Cbor" ELSE "Json"
ContentNegotiation(headers) ==
    [content |-> ParseMediaType(headers, "Content-Type"), accept |-> ParseMediaType(headers, "Accept")]

NoAuth(headers) ==
    IF "KONDUIT" \in DOMAIN headers THEN FromStr(headers.KONDUIT) ELSE Fail("missing header")

Unmediate(content, type, body) ==
    IF body.form = content /\ body.type = type THEN Done(body.of[1]) ELSE Fail("unmediate")

Response(status, form, of) == [status |-> status, form |-> form, of |-> of]
Mediate(accept, v) == Response(200, accept, v)
\* status_code and error_response: what is wrong is the client's to know.
ErrorResponse(why) == Response(400, "text", why)
Respond(db, accept, result) ==
    [db |-> db, response |-> IF result.ok THEN Mediate(accept, result.v) ELSE ErrorResponse(result.why)]

PostSquash(db, keytag, media, body) ==
    LET Answer(taken) ==
            IF taken.ok THEN Respond(taken.v, media.accept, SquashStatus(taken.v, keytag))
            ELSE Respond(db, media.accept, taken)
    IN  Answer(AndThen(Unmediate(media.content, "Squash", body),
                       LAMBDA squash : Squash(db, keytag, squash)))

PostQuote(db, keytag, media, body, settles) ==
    Respond(db, media.accept, AndThen(Unmediate(media.content, "QuoteBody", body),
                                      LAMBDA invoice : Quote(db, keytag, invoice, settles)))

PostPay(db, keytag, media, body, settles) ==
    LET Answer(paid) == Respond(paid.db, media.accept, paid.of)
        Read(read) ==
            IF read.ok THEN Answer(Pay(db, keytag, read.v, settles))
            ELSE Respond(db, media.accept, read)
    IN  Read(Unmediate(media.content, "PayBody", body))

\* What no route is for: another path, or another method.
Unrouted(path) ==
    IF path = "/ch/status" THEN Response(404, "text", "not found")
    ELSE Response(405, "text", "method not allowed")

\* Behind the authentication.
OfChannel(request, db, keytag, media, settles) ==
    LET Is(method, path) == request.method = method /\ request.path = path
        body == request.body
    IN  CASE Is("GET", "/ch/receipt")  -> Respond(db, media.accept, ReceiptOf(db, keytag))
          [] Is("POST", "/ch/squash")  -> PostSquash(db, keytag, media, body)
          [] Is("POST", "/ch/quote")   -> PostQuote(db, keytag, media, body, settles)
          [] Is("POST", "/ch/pay")     -> PostPay(db, keytag, media, body, settles)
          [] OTHER -> [db |-> db, response |-> Unrouted(request.path)]

Dropped == Response(0, "nothing", "the handler panics")
Elsewhere(method, path, accept) ==
    CASE method # "GET"       -> Unrouted(path)
      [] path = "/info"       -> Mediate(accept, "info")
      [] path = "/opt/fx"     -> Mediate(accept, "fx")
      [] path = "/admin/show" -> Dropped

Scoped == {"/ch/receipt", "/ch/squash", "/ch/quote", "/ch/pay", "/ch/status"}
Serve(db, request, settles) ==
    LET InScope(keytag, media) ==
            IF keytag.ok THEN OfChannel(request, db, keytag.v, media, settles)
            ELSE [db |-> db, response |-> Response(403, "text", keytag.why)]
        media == ContentNegotiation(request.headers)
    IN  IF request.path \in Scoped THEN InScope(NoAuth(request.headers), media)
        ELSE [db |-> db, response |-> Elsewhere(request.method, request.path, media.accept)]

-----------------------------------------------------------------------------
(* The client: http-client, and the Adaptor that uses it.                  *)

NoBody == [form |-> "none", type |-> "none", of |-> <<>>]
Json(type, of) == [form |-> "Json", type |-> type, of |-> <<of>>]

\* Each policy replaces what was there.
Accept(headers, codec)      == ("Accept" :> codec) @@ headers
ContentType(headers, codec, body) ==
    IF body.form = "none" THEN [name \in DOMAIN headers \ {"Content-Type"} |-> headers[name]]
    ELSE ("Content-Type" :> codec) @@ headers
Custom(headers, keytag)     == ("KONDUIT" :> Display(keytag)) @@ headers

WithKeytagHeader(headers, keytags) ==
    FoldLeft(LAMBDA held, keytag : Custom(held, keytag), headers, keytags)

NoHeaders == <<>>
GetWithHeaders(path, keytags) ==
    [method |-> "GET", path |-> path, body |-> NoBody,
     headers |-> WithKeytagHeader(Accept(NoHeaders, "Json"), keytags)]
PostWithHeaders(path, body, keytags) ==
    [method |-> "POST", path |-> path, body |-> body,
     headers |-> WithKeytagHeader(Accept(ContentType(NoHeaders, "Json", body), "Json"), keytags)]

\* What is heard of a response.  ClientError
Status(response) == Fail("Status") @@ [status |-> response.status, says |-> response.of]
Send(response) ==
    IF response.status = 0 THEN Fail("Transport")
    ELSE IF response.status # 200 THEN Status(response)
    ELSE IF response.form = "Json" THEN Done(response.of) ELSE Fail("Decode")

\* The requests of an Adaptor; keytags is empty or holds one.
AskInfo                        == GetWithHeaders("/info", <<>>)
AskReceipt(keytags)            == GetWithHeaders("/ch/receipt", keytags)
AskQuote(keytags, invoice)     == PostWithHeaders("/ch/quote", Json("QuoteBody", invoice), keytags)
AskPay(keytags, locked, invoice) ==
    PostWithHeaders("/ch/pay", Json("PayBody", [locked |-> locked, invoice |-> invoice]), keytags)
AskSquash(keytags, squash)     == PostWithHeaders("/ch/squash", Json("Squash", squash), keytags)

-----------------------------------------------------------------------------
(* What happens.                                                           *)

Init == rows = <<>>

\* A handler, to its end.  Whether its answer is heard changes nothing here.
Handle(request) ==
    \E settles \in Settles : rows' = Serve(rows, request, settles).db

\* What a consumer signs: cheques for its invoices, and the squashes that it
\* starts with or that are proposed to it.
Cheques(keytag) ==
    {Signed(keytag, [index |-> index, amount |-> QuoteAmount(invoice.msat), timeout |-> timeout,
                     latch |-> invoice.hash]) :
        index \in 1..MaxIndexSigned, invoice \in Invoice, timeout \in Timeout}
Proposed(db, keytag) ==
    LET Sign(status) == IF status.ok THEN {Signed(keytag, status.v.proposal)} ELSE {}
    IN  Sign(SquashStatus(db, keytag))
Squashes(keytag) == {Signed(keytag, ZeroBody)} \cup Proposed(rows, keytag)

Asks(keytags, keytag) ==
    {AskInfo, AskReceipt(keytags)}
    \cup {AskQuote(keytags, invoice) : invoice \in Invoice}
    \cup {AskSquash(keytags, squash) : squash \in Squashes(keytag)}
    \cup {AskPay(keytags, cheque, invoice) : cheque \in Cheques(keytag), invoice \in Invoice}

OfConsumers == UNION {Asks(<<keytag>>, keytag) : keytag \in Keytag}

\* Others know the requests that were made, and put them together anew.
Paths == {"/ch/pay", "/ch/status", "/ch/receipt", "/opt/fx", "/admin/show"}
Header == {[hex |-> keytag] : keytag \in Keytag \cup {<<0>>}} \cup {[text |-> "not hex"]}
Headed(request, header) == [request EXCEPT !.headers = ("KONDUIT" :> header) @@ @]
ForgedFor(keytag) ==
    LET squash  == AskSquash(<<keytag>>, Signed(keytag, ZeroBody))
        receipt == AskReceipt(<<keytag>>)
    IN  {[squash EXCEPT !.headers = headers @@ @] : headers \in {"Accept" :> "Cbor", "Content-Type" :> "Cbor"}}
        \cup {[asked EXCEPT !.path = path] : asked \in {squash, receipt}, path \in Paths}
        \cup {AskPay(<<keytag>>, cheque, [hash |-> Sha2("stray"), msat |-> 0]) : cheque \in Cheques(keytag)}
Forged ==
    {Headed(request, header) : request \in {r \in OfConsumers : r.path # "/info"}, header \in Header}
    \cup UNION {ForgedFor(keytag) : keytag \in Keytag}
    \cup {AskReceipt(<<>>)}

Requests == OfConsumers \cup Forged

Request == \E request \in Requests : Handle(request)

\* sync_retainers: the rows and what is on the ledger, by their keytags.
CoItems(left, right) ==
    [keytag \in left \cup DOMAIN right |-> IF keytag \in DOMAIN right THEN right[keytag] ELSE <<>>]
SyncRetainers(db, seen) ==
    LET items == CoItems(DOMAIN db, seen)
    IN  FoldLeft(LAMBDA acc, keytag : Upsert(acc, keytag, [name |-> "retainer", of |-> items[keytag]]).v,
                 db, SetToSortSeq(DOMAIN items, Precedes))

Sync ==
    \E open \in SUBSET Keytag : \E seen \in [open -> {<<held>> : held \in Retained}] :
        rows' = SyncRetainers(rows, seen)

\* unlocks: one channel after the other, up to the first that fails.
SecretsOf(receipt, settled) ==
    LET locks == SelectSeq(Lockeds(receipt), LAMBDA c : c.latch \in settled)
    IN  [n \in DOMAIN locks |-> locks[n].latch[2]]
UnlockRow(acc, keytag, settled) ==
    LET receipt == acc.db[keytag].receipt
        After(updated) ==
            IF updated.ok THEN [acc EXCEPT !.db = updated.v] ELSE [acc EXCEPT !.ok = FALSE]
        Reveal(secrets) ==
            IF secrets = <<>> THEN acc
            ELSE After(Update(acc.db, keytag, [name |-> "secrets", of |-> secrets]))
    IN  IF ~acc.ok \/ receipt = None THEN acc ELSE Reveal(SecretsOf(receipt, settled))
UnlocksOf(db, settled) ==
    FoldLeft(LAMBDA acc, keytag : UnlockRow(acc, keytag, settled), [ok |-> TRUE, db |-> db], Keys(db))

Unlocks ==
    \E settled \in SUBSET {invoice.hash : invoice \in Invoice} :
        rows' = UnlocksOf(rows, settled).db

Next == Request \/ Sync \/ Unlocks
Spec == Init /\ [][Next]_rows

-----------------------------------------------------------------------------
(* What a row holds was signed for its channel: by its consumer, and with  *)
(* its tag, whoever brought it under which header.                         *)
RowsAreSigned ==
    \A keytag \in DOMAIN rows : rows[keytag].receipt # None =>
        /\ rows[keytag].receipt.squash.by = Split(keytag)
        /\ \A cheque \in Range(rows[keytag].receipt.cheques) : cheque.body.by = Split(keytag)

\* The channel a request is for.
Target(request) == LET keytag == NoAuth(request.headers) IN IF keytag.ok THEN {keytag.v} ELSE {}

\* What is heard holds of the row; the squash that is proposed is taken.
Holds(db, keytag, request, heard) ==
    CASE request.path = "/ch/receipt" -> heard = db[keytag].receipt
      [] request.path \in {"/ch/squash", "/ch/pay"} ->
            /\ heard.current = db[keytag].receipt.squash
            /\ \A cheque \in Range(db[keytag].receipt.cheques) :
                  cheque.body \in Range(heard.lockeds) \cup Range(heard.unlockeds)
            /\ request.path = "/ch/pay" => request.body.of[1].locked \in Range(heard.lockeds)
            /\ request.path = "/ch/squash" /\ request.body.of[1] \in Proposed(rows, keytag)
                  => heard.current = request.body.of[1]
      [] request.path = "/ch/quote" ->
            CanCommit(db[keytag], heard.amount) /\ heard.index > MaxIndex(db[keytag].receipt)

(* A request changes the row of its own channel and no other, makes none,  *)
(* and changes it only to squash or to pay; what its client hears is how   *)
(* the row is then, and where it hears of a failure the row is as it was,  *)
(* but for a cheque whose payment was tried.                               *)
AnswersHold ==
    LET Fits(request, served, heard) ==
            LET changed == {keytag \in DOMAIN rows : served.db[keytag] # rows[keytag]}
            IN  /\ DOMAIN served.db = DOMAIN rows
                /\ changed \subseteq Target(request)
                /\ changed # {} => request.path \in {"/ch/squash", "/ch/pay"}
                /\ heard.ok /\ request.path \in Scoped =>
                      \A keytag \in Target(request) : Holds(served.db, keytag, request, heard.v)
                /\ ~heard.ok /\ heard.why = "Status" => changed = {} \/ heard.says = "Bln"
                /\ request \in OfConsumers /\ ~heard.ok => heard.why = "Status" /\ heard.status = 400
        Answered(request, served) == Fits(request, served, Send(served.response))
    IN  \A request \in Requests, settles \in Settles : Answered(request, Serve(rows, request, settles))
=============================================================================
