-------------------------- MODULE CardanoConnectors --------------------------
(***************************************************************************)
(* The three ways to the ledger: UtxoRpc (a node of one's own), Blockfrost  *)
(* (a hosted service) and the client of the connector server; how each is  *)
(* configured, asked for the outputs at a credential, and how it reads     *)
(* what it is given.                                                       *)
(*                                                                         *)
(* A ledger is the outputs made, in the order they were made, and the set  *)
(* of those unspent.  A row is an output as a service writes it.  A page   *)
(* starts after a token, the last output of the page before.               *)
(***************************************************************************)
EXTENDS CardanoAddress, Integers, FiniteSets, SequencesExt

CONSTANTS
    PageSize,    \* how many rows a page of UtxoRpc has
    IntTop,      \* quantities from here on are written as big integers
    WordTop      \* a quantity that needs more than eight bytes

ASSUME ConnectorsAssumption == PageSize \in Nat \ {0} /\ IntTop \in Nat /\ WordTop \in Nat

Kind == {"blockfrost", "utxorpc", "client"}

-----------------------------------------------------------------------------
(* Configuration.                                                          *)

\* Network::try_from of the first seven characters of a project's key; it
\* panics where they name none.  No name is longer or shorter.
NetworkOfKey(key) == NetworkNamed([key EXCEPT !.rest = ""])

\* Mutant: an identifier is enough.
NetworkOfId(genesis) ==
    CHOOSE network \in Network : NetworkIdOf(network) = genesis.id \/ genesis.id = ""

NetworkFromGenesis(genesis) ==
    LET found == {network \in Network : /\ MagicOf(network) = genesis.magic
                                        /\ genesis.id \in {"", NetworkIdOf(network)}}
    IN  IF found = {} THEN "none" ELSE CHOOSE network \in found : TRUE

EnsureNetworkMatches(configured, live) == live # "none" /\ configured = live

\* The command line compares the key with the network it is configured for.
InferredNetwork(key) == IF key.capitals THEN "none" ELSE NetworkOfKey(key)
KeyFits(config) == EnsureNetworkMatches(config.network, InferredNetwork(config.key))

ConnectsBlockfrost(config) ==
    config.given /\ NetworkOfKey(config.key) # "none" /\ (config.checked => KeyFits(config))

\* A node's genesis is compared with the network configured.
ConnectsUtxoRpc(config, live) ==
    config.given /\ EnsureNetworkMatches(config.network, NetworkFromGenesis(live.genesis))

\* The client asks its server.
ConnectsClient(live) == NetworkNamed(live.answer) # "none"

Connects(config, live) ==
    CASE config.kind = "utxorpc"    -> ConnectsUtxoRpc(config, live)
      [] config.kind = "blockfrost" -> ConnectsBlockfrost(config)
      [] config.kind = "client"     -> ConnectsClient(live)

\* CardanoConnector::network
NetworkOf(config, live) ==
    CASE config.kind = "utxorpc" -> config.network
      [] config.kind = "blockfrost" -> NetworkOfKey(config.key)
      [] config.kind = "client" -> NetworkNamed(live.answer)

-----------------------------------------------------------------------------
(* The slots of the ledger: UtxoRpc reads them from the era summary, the   *)
(* others have them by heart.                                              *)

ByronSlot == 20

Slots(start, first) == [start |-> start, first |-> first]

\* Mutant: the slots of Byron are as long as those that follow.
SlotsOfSummaryEven(summary) == Slots(summary.time - summary.slot, summary.slot)

\* params::build
SlotsOfSummary(summary) ==
    Slots(summary.time - ByronSlot * summary.slot, summary.slot)

\* ProtocolParameters::mainnet, preprod, preview
SlotsOfNetwork(network) ==
    CASE network = "mainnet" -> Slots(1506203091, 4492800)
      [] network = "preprod" -> Slots(1654041600, 86400)
      [] network = "preview" -> Slots(1666656000, 0)

SlotsOf(config, live) ==
    IF config.kind = "utxorpc" THEN SlotsOfSummary(live.summary)
    ELSE SlotsOfNetwork(NetworkOf(config, live))

PosixToSlot(slots, posix) ==
    slots.first + (posix - slots.start - ByronSlot * slots.first)

-----------------------------------------------------------------------------
(* What the services write, and how it is read.                            *)

NoDatum == "none"
Output(address, value, datum, script) ==
    [address |-> address, value |-> value, datum |-> datum, script |-> script]
Unreadable == Output(Refused, <<>>, NoDatum, "none")

\* A BigInt of UtxoRpc: an integer, or the bytes of a larger one.
BigInt(n) == [form |-> IF n < 0 THEN "negative" ELSE IF n < IntTop THEN "int" ELSE "bytes", of |-> n]
BigIntToU64(big) == IF big.form = "negative" \/ big.of >= WordTop THEN -1 ELSE big.of

\* Every unit of a value with its quantity, lovelace first.
Amounts(value) == [n \in DOMAIN value |-> [unit |-> n, quantity |-> value[n]]]
FromAmounts(amounts) == [n \in DOMAIN amounts |-> amounts[n].quantity]

\* A row: a datum that is in the output has a digest as well.
Row(output) ==
    [address |-> Text(output.address), amounts |-> Amounts(output.value),
     hash    |-> output.datum # NoDatum, inline |-> output.datum = "inline", script |-> output.script]

\* resolve_script: Plutus alone.
ScriptReadable(script) == script # "native"
Readable(row) == AsShelley(FromText(row.address)) # Refused /\ ScriptReadable(row.script)

\* Blockfrost: resolve_utxo.  A datum that is only a digest is looked up.
ResolveUtxo(row) ==
    IF ~Readable(row) THEN Unreadable
    ELSE Output(AsShelley(FromText(row.address)), FromAmounts(row.amounts),
                IF row.inline \/ row.hash THEN "inline" ELSE NoDatum, row.script)

\* Mutant: the digest is set last.
HashLast(row) == IF row.hash THEN "hash" ELSE IF row.inline THEN "inline" ELSE NoDatum

\* The client: the digest is set first, the datum replaces it.
DatumOfRow(row) == IF row.inline THEN "inline" ELSE IF row.hash THEN "hash" ELSE NoDatum

FromResponse(row) ==
    IF ~Readable(row) THEN Unreadable
    ELSE Output(AsShelley(FromText(row.address)), FromAmounts(row.amounts), DatumOfRow(row), row.script)

\* UtxoRpc: the parts of an output, where its bytes are not given (native).
MapParsedOutput(output) ==
    LET coins == [n \in DOMAIN output.value |-> BigIntToU64(BigInt(output.value[n]))]
    IN  IF \E n \in DOMAIN coins : coins[n] < 0 THEN Unreadable
        ELSE Output(AsAny(FromBytes(Bytes(output.address))), coins, output.datum, output.script)

MapOutputData(output, native) ==
    IF ~ScriptReadable(output.script) \/ output.address.era = "stake" THEN Unreadable
    ELSE IF native THEN output ELSE MapParsedOutput(output)

-----------------------------------------------------------------------------
(* utxos_at.  An ask is a payment credential, perhaps with a delegation.   *)

Ask(payment, delegation) == [payment |-> payment, delegation |-> delegation]

\* Blockfrost and the client ask for one address.
AddressAsked(network, ask) ==
    LET bare == New(NetworkIdOf(network), ask.payment)
    IN  IF ask.delegation = NoPart THEN bare ELSE WithDelegation(bare, ask.delegation)

\* UtxoRpc asks for the digest of the payment part alone,
PaymentPredicate(address, ask) == IsShelley(address) /\ address.payment.hash = ask.payment.hash

MatchesPayment(output, ask) == IsShelley(output.address) /\ output.address.payment = ask.payment
MatchesPaymentAndDelegation(output, ask) ==
    MatchesPayment(output, ask) /\ DelegationOf(output.address) = ask.delegation

\* Mutant: the payment part is enough.
MatchesAny(output, ask) == MatchesPayment(output, ask)

\* and keeps what matches.
Matches(output, ask) ==
    IF ask.delegation = NoPart THEN MatchesPayment(output, ask)
    ELSE MatchesPaymentAndDelegation(output, ask)

\* The outputs a service finds for an ask.
Found(kind, network, ledger, ask) ==
    {ref \in ledger.unspent :
        LET address == ledger.made[ref].address
        IN  IF kind = "utxorpc" THEN PaymentPredicate(address, ask)
            ELSE address = AddressAsked(network, ask)}

NoToken == 0

\* The page after a token; no page follows the last.
Page(found, token) ==
    LET rest  == {ref \in found : ref > token}
        items == {ref \in rest : Cardinality({other \in rest : other <= ref}) <= PageSize}
    IN  [items |-> items,
         next  |-> IF items = rest THEN NoToken
                   ELSE CHOOSE ref \in items : \A other \in items : other <= ref]

\* The others give all of it at once.
Reply(kind, found, token) ==
    IF kind = "utxorpc" THEN Page(found, token) ELSE [items |-> found, next |-> NoToken]

ReadAs(kind, output, native) ==
    CASE kind = "utxorpc" -> MapOutputData(output, native)
      [] kind = "blockfrost" -> ResolveUtxo(Row(output))
      [] kind = "client" -> FromResponse(Row(output))

\* One row that cannot be read fails all of them.
Reads(kind, ledger, items, native) ==
    \A ref \in items : ReadAs(kind, ledger.made[ref], native) # Unreadable

\* accumulate_page
Accumulate(kind, ledger, all, items, ask, native) ==
    LET read == [ref \in items |-> ReadAs(kind, ledger.made[ref], native)]
        kept == {ref \in items : kind = "utxorpc" => Matches(read[ref], ask)}
    IN  [ref \in DOMAIN all \cup kept |-> IF ref \in kept THEN read[ref] ELSE all[ref]]

\* Mutant: the first page again.
SameToken(reply, token) == IF reply.next = NoToken THEN NoToken ELSE token

NextStart(reply, token) == reply.next
=============================================================================
