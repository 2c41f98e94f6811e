----------------------------- MODULE WireAccess -----------------------------
(***************************************************************************)
(* The door of a service (util/cobbl3 and util/powdos): a token, that says *)
(* who a client is, is issued for a signature and carries the service's    *)
(* MAC; a challenge makes a client work before it is listened to.  What a  *)
(* token says is left to the service: here, a key.                         *)
(*                                                                         *)
(* Two MACs are the same bytes exactly when key and message are the same:  *)
(* issued is what the service made, and what else it makes is other bytes. *)
(***************************************************************************)
EXTENDS WireSigned

MacLen == 20
PowMacLen == 32

Body == Record(<<Field("key", Octets(32)), Field("nonce", Number)>>)
TokenRequest == Record(<<Field("body", Body), Field("signature", Octets(64))>>)
Token == Record(<<Field("body", Body), Field("mac", Octets(MacLen))>>)

PowScheme == ChoiceOf(<<Variant("Sha256", <<>>)>>)
Challenge ==
    Record(<<Field("scheme", PowScheme), Field("difficulty", Number), Field("expires_at", Number),
             Field("mac", Octets(PowMacLen))>>)

\* In a header: the CBOR, in base64url.  What comes after the value is not looked at.
Display(shape, v) == Encode(shape, v)
FromStr(shape, stream) ==
    LET read == Decode(shape, stream) IN IF read.ok THEN Done(read.v) ELSE Failed

MacOf(key, message, len, issued) ==
    IF issued.by = key /\ issued.on = message THEN issued.bytes ELSE [len |-> len, of |-> "another mac"]

-----------------------------------------------------------------------------
(* Tokens.                                                                 *)

Domain == [text |-> "COBBL3_HMAC"]

\* What the client signs; never sent.
Tbs == Record(<<Field("domain", Text), Field("body", Body)>>)
TbsBytes(body) == Encode(Tbs, [domain |-> Domain, body |-> body])

\* HmacKey::sign
HmacSign(key, body, issued) == MacOf(key, Encode(Body, body), MacLen, issued)

\* HmacKey::issue
Issue(key, body, signature, made, issued) ==
    IF Verify(body.key, TbsBytes(body), signature, made) THEN Done(HmacSign(key, body, issued))
    ELSE Failed

\* HmacKey::verify
HmacVerify(key, token, issued) == HmacSign(key, token.body, issued) = token.mac

-----------------------------------------------------------------------------
(* Challenges.                                                             *)

\* The parts have a length of their own, but for the last.
PowMessage(scheme, difficulty, expires_at, ip) == <<scheme.is, difficulty, expires_at, ip>>

PowMac(challenge, ip, secret, issued) ==
    MacOf(secret, PowMessage(challenge.scheme, challenge.difficulty, challenge.expires_at, ip),
          PowMacLen, issued)

\* Challenge::new
NewChallenge(difficulty, now, ttl, mac) ==
    [scheme |-> [is |-> "Sha256"], difficulty |-> difficulty, expires_at |-> Min({now + ttl, MaxU64}),
     mac |-> mac]

BitsOfByte(byte) == CHOOSE n \in 0..8 : byte \in 2 ^ (8 - n) \div 2 .. 2 ^ (8 - n) - 1

\* Over the bytes of a hash, up to the first that is not zero.
LeadingZeroBits(data) ==
    LET first == SelectInSeq(data, LAMBDA byte : byte # 0)
    IN  IF first = 0 THEN 8 * Len(data) ELSE 8 * (first - 1) + BitsOfByte(data[first])

Works(challenge, hash) == LeadingZeroBits(hash) >= challenge.difficulty

\* Challenge::solve, with the hashes of the nonces from 0 on.
Solve(challenge, hashes) ==
    CHOOSE nonce \in DOMAIN hashes :
        Works(challenge, hashes[nonce]) /\ \A less \in 0..(nonce - 1) : ~Works(challenge, hashes[less])

\* Challenge::verify
VerifyChallenge(challenge, ip, secret, hash, now, issued) ==
    IF now > challenge.expires_at THEN "Time"
    ELSE IF PowMac(challenge, ip, secret, issued) # challenge.mac THEN "Mac"
    ELSE IF ~Works(challenge, hash) THEN "Hash"
    ELSE "Ok"
=============================================================================
