----------------------------- MODULE WireSigned -----------------------------
(***************************************************************************)
(* Cheques and squashes, signed, verified and unlocked.  A signature is    *)
(* what one key made of one message and verifies for no other key, message *)
(* or bytes (Ed25519); the bytes of a message are its CBOR.  A value read  *)
(* from the wire is unverified until TryVerify has seen its signature.     *)
(***************************************************************************)
EXTENDS WireCbor

\* SigningKey: the two keys of a pair go by one name.
Sign(key, message, bytes) == [bytes |-> bytes, by |-> key, on |-> message]

\* made is what the signature was made as, signature the bytes at hand.
Verify(key, message, signature, made) ==
    signature = made.bytes /\ made.by = key /\ made.on = message

-----------------------------------------------------------------------------
(* The bodies of cheques.                                                  *)

IsSecret(body, secret) == body.latch = HashOf(secret)

\* ChequeBody<Secret>::locked
LockedOf(body) == [body EXCEPT !.latch = HashOf(@)]

Failed == [ok |-> FALSE]
Done(v) == [ok |-> TRUE, v |-> v]

TryUnlocked(body, secret) ==
    IF IsSecret(body, secret) THEN Done([body EXCEPT !.latch = secret]) ELSE Failed

\* Unlocked::try_from_locked: the signature is kept.
TryFromLocked(locked, secret) ==
    LET body == TryUnlocked(locked.body, secret)
    IN  IF body.ok THEN Done([locked EXCEPT !.body = body.v]) ELSE Failed

\* Unlocked::locked
AsLocked(unlocked) == [unlocked EXCEPT !.body = LockedOf(@)]

-----------------------------------------------------------------------------
(* What is signed, by make, and looked at by try_verify.                   *)

SquashMessage(tag, squash) == TagData(tag, SquashBody, squash.body)
LockedMessage(tag, locked) == TagData(tag, ChequeBody(Lock), locked.body)
UnlockedMessage(tag, unlocked) == TagData(tag, ChequeBody(Lock), LockedOf(unlocked.body))

MakeSquash(key, tag, squash) == Sign(key, SquashMessage(tag, squash), squash.signature)
MakeLocked(key, tag, locked) == Sign(key, LockedMessage(tag, locked), locked.signature)
MakeUnlocked(key, tag, unlocked) == Sign(key, UnlockedMessage(tag, unlocked), unlocked.signature)

SquashVerifies(key, tag, squash, made) ==
    Verify(key, SquashMessage(tag, squash), squash.signature, made)
LockedVerifies(key, tag, locked, made) ==
    Verify(key, LockedMessage(tag, locked), locked.signature, made)
UnlockedVerifies(key, tag, unlocked, made) ==
    Verify(key, UnlockedMessage(tag, unlocked), unlocked.signature, made)

ChequeVerifies(key, tag, cheque, made) ==
    IF cheque.is = "Unlocked" THEN UnlockedVerifies(key, tag, cheque, made)
    ELSE LockedVerifies(key, tag, cheque, made)
=============================================================================
