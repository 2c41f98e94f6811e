------------------------------ MODULE MCSession ------------------------------
(***************************************************************************)
(* CardanoSession over a short chain, for each connector and way of being  *)
(* set up.                                                                 *)
(***************************************************************************)
EXTENDS CardanoSession

Stake == FromKey("stake")
KeyOf(network) == Word(network, FALSE, "secret")

Summary(network) ==
    LET slots == SlotsOfNetwork(network)
    IN  [time |-> slots.start + ByronSlot * slots.first, slot |-> slots.first]

Live(network, named) ==
    [network |-> network,
     genesis |-> [magic |-> MagicOf(network), id |-> IF named THEN NetworkIdOf(network) ELSE ""],
     summary |-> Summary(network), answer |-> Word(network, FALSE, "")]

Config(kind, network, key, checked) ==
    [kind |-> kind, given |-> TRUE, network |-> network, key |-> key, checked |-> checked]

World(config, live, native, stake) ==
    [config |-> config, live |-> live, native |-> native, stake |-> stake]

\* A node may be of another network than was configured; the network of a
\* hosted service is that of its key, which the session does not compare.
Nodes ==
    {World(Config("utxorpc", "preprod", KeyOf("preprod"), TRUE), Live(m, named), ~named, Stake) :
        m \in Network, named \in BOOLEAN}
    \ {World(Config("utxorpc", "preprod", KeyOf("preprod"), TRUE), Live("preprod", FALSE), TRUE, Stake)}
Services ==
    {World(Config("blockfrost", n, KeyOf(m), checked), Live(m, TRUE), FALSE, NoPart) :
        n \in {"preprod"}, m \in {"mainnet"}, checked \in BOOLEAN}
Clients ==
    {World(Config("client", "mainnet", KeyOf("mainnet"), TRUE), Live("preview", TRUE), FALSE, Stake)}

AllWorlds == Nodes \cup Services \cup Clients

-----------------------------------------------------------------------------
Own(id)     == New(id, FromKey("wallet"))
Alice(id)   == WithDelegation(New(id, FromKey("alice")), Stake)
Channels(id) == New(id, FromScript("konduit"))
Staked(id, address) == WithDelegation(address, Stake)

ShortChain(id) ==
    <<Output(Own(id), <<3>>, NoDatum, "none"),
      Output(Channels(id), <<2, 1>>, "inline", "none"),
      Output(Staked(id, Own(id)), <<2>>, NoDatum, "konduit"),
      Output(Staked(id, Channels(id)), <<2>>, "hash", "none")>>

MayBeMade(id) ==
    {Output(Alice(id), <<1>>, "inline", "none"),
     Output(Channels(id), <<4>>, NoDatum, "native")}

Alices(id) == Text(Alice(id))
Channel(id) == Text(Staked(id, Channels(id)))

Asked(id) ==
    {Command("refresh all", <<>>, <<>>),
     Command("refresh at", <<>>, <<Label("a"), Channel(id)>>),
     Command("track", Label("a"), <<Alices(id)>>),
     Command("track", Label("a"), <<Channel(id)>>),
     Command("track", Label("b"), <<Label("a")>>),
     Command("untrack", <<>>, <<Alices(id)>>),
     Command("wait", <<>>, <<<<"tx", 5>>>>),
     Command("send", <<>>, <<Alices(id)>>),
     Command("channels", <<>>, <<>>),
     Command("konduit upload", <<>>, <<>>),
     Command("konduit teardown", <<>>, <<>>),
     Command("empty", <<>>, <<Alices(id)>>),
     Command("insert", WalletLabel, <<Alices(id)>>),
     Command("remove", <<>>, <<WalletLabel>>)}
=============================================================================
