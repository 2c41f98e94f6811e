--------------------------- MODULE CardanoAddress ---------------------------
(***************************************************************************)
(* Networks, credentials and addresses of the sdk: what they are made of,  *)
(* how they are written as bytes and as text, and read back.               *)
(*                                                                         *)
(* A part of an address is a credential, a pointer or nothing; a digest is *)
(* a model value.  Bytes are the header and the digests that follow it;    *)
(* bech32, base58 and base16 are forms of those bytes that keep them.      *)
(***************************************************************************)
EXTENDS Naturals, Sequences

-----------------------------------------------------------------------------
(* Networks.                                                               *)

Network   == {"mainnet", "preprod", "preview"}
NetworkId == {"mainnet", "testnet"}

MagicOf(network) == CASE network = "mainnet" -> 764824073
                      [] network = "preprod" -> 1
                      [] network = "preview" -> 2

NetworkIdOf(network) == IF network = "mainnet" THEN "mainnet" ELSE "testnet"

\* A name is a word, perhaps in capitals or with something after it.
Word(name, capitals, rest) == [name |-> name, capitals |-> capitals, rest |-> rest]

\* TryFrom<&str>: any capitals, nothing after it.
NetworkNamed(word) == IF word.name \in Network /\ word.rest = "" THEN word.name ELSE "none"

\* FromStr of NetworkId: exactly as it is printed.
NetworkIdNamed(word) ==
    IF word.name \in NetworkId /\ ~word.capitals /\ word.rest = "" THEN word.name ELSE "none"

NetworkByte(id) == IF id = "mainnet" THEN 1 ELSE 0

\* From<pallas::Network>: every other network is a test network.
NetworkIdOfByte(byte) == IF byte = 1 THEN "mainnet" ELSE "testnet"

-----------------------------------------------------------------------------
(* Credentials and the parts of an address.                                *)

Part(kind, hash) == [kind |-> kind, hash |-> hash]
FromKey(hash)    == Part("key", hash)
FromScript(hash) == Part("script", hash)
Pointer(hash)    == Part("pointer", hash)
NoPart           == Part("null", "")

IsCredential(part) == part.kind \in {"key", "script"}
IsKey(part)        == part.kind = "key"

\* TryFrom<&ShelleyDelegationPart>, .ok(): a pointer is no credential either.
CredentialOf(part) == IF IsCredential(part) THEN part ELSE NoPart

-----------------------------------------------------------------------------
(* Addresses.  Those of Byron and of stake carry one part.                 *)

Address(era, network, payment, delegation) ==
    [era |-> era, network |-> network, payment |-> payment, delegation |-> delegation]

New(id, payment) == Address("shelley", NetworkByte(id), payment, NoPart)
WithDelegation(address, delegation) ==
    Address("shelley", NetworkByte(NetworkIdOfByte(address.network)), address.payment, delegation)

NetworkIdAt(address)  == NetworkIdOfByte(address.network)
DelegationOf(address) == CredentialOf(address.delegation)
IsShelley(address)    == address.era = "shelley"

-----------------------------------------------------------------------------
(* Bytes: four bits of type, four of network, then the digests.            *)

TypeOf(address) ==
    CASE address.era = "byron" -> 8
      [] address.era = "stake" -> IF IsKey(address.payment) THEN 14 ELSE 15
      [] OTHER -> LET script == IF IsKey(address.payment) THEN 0 ELSE 1
                  IN  script + CASE address.delegation.kind = "key"     -> 0
                                 [] address.delegation.kind = "script"  -> 2
                                 [] address.delegation.kind = "pointer" -> 4
                                 [] address.delegation.kind = "null"    -> 6

\* From<&Address> for Vec<u8>
Bytes(address) ==
    [type |-> TypeOf(address), network |-> address.network,
     digests |-> <<address.payment.hash>> \o
                 IF address.delegation = NoPart THEN <<>> ELSE <<address.delegation.hash>>]

PaymentKind(type)    == IF type % 2 = 0 THEN "key" ELSE "script"
DelegationKind(type) == CASE type \in {0, 1} -> "key"
                          [] type \in {2, 3} -> "script"
                          [] type \in {4, 5} -> "pointer"
                          [] type \in {6, 7} -> "null"

\* pallas::Address::from_bytes
FromBytes(bytes) ==
    LET first == Part(PaymentKind(bytes.type), bytes.digests[1])
    IN  CASE bytes.type = 8         -> Address("byron", bytes.network, first, NoPart)
          [] bytes.type \in {14, 15} -> Address("stake", bytes.network, first, NoPart)
          [] OTHER -> Address("shelley", bytes.network, first,
                              IF Len(bytes.digests) = 1 THEN NoPart
                              ELSE Part(DelegationKind(bytes.type), bytes.digests[2]))

-----------------------------------------------------------------------------
(* Text: what is not an address, or not one of the kind asked for, is      *)
(* refused.                                                                *)

Refused == Address("refused", 0, NoPart, NoPart)

\* Display: base58 of a Byron address, bech32 of any other, with a prefix.
Text(address) ==
    <<IF address.era = "byron" THEN "base58" ELSE IF address.era = "stake" THEN "stake" ELSE "addr",
      address.network = 1, Bytes(address)>>

\* A credential written as a stake address.
StakeText(id, credential) == Text(Address("stake", NetworkByte(id), credential, NoPart))

\* pallas::Address::from_str, and base16 of the bytes as another way in.
FromText(text) == FromBytes(text[3])

\* TryFrom<pallas::Address> of Any and of Shelley addresses.
AsAny(address)     == IF address.era = "stake" THEN Refused ELSE address
AsShelley(address) == IF IsShelley(address) THEN address ELSE Refused

\* FromStr of Credential.
FromStakeText(text) ==
    LET address == FromText(text)
    IN  IF address.era = "stake" THEN address.payment ELSE NoPart
=============================================================================
