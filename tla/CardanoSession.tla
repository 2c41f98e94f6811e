--------------------------- MODULE CardanoSession ---------------------------
(***************************************************************************)
(* A session of the command line: it loads the tip (the outputs last seen  *)
(* at each address watched) and the addressbook from their files, fetches  *)
(* what it is asked to, tracks, waits, builds and submits, and saves both. *)
(* Other people's transactions, faults of the connector and of the disk,   *)
(* and crashes come in between.                                            *)
(***************************************************************************)
EXTENDS CardanoConnectors, TLC

CONSTANTS
    Worlds,      \* connector, service and wallet: [config, live, native, stake]
    Chain(_),    \* the outputs at the start, on either kind of network
    Made(_),     \* the outputs others may make
    Commands(_), \* what the user may run
    Amount,      \* what is sent, or must stay, in lovelace
    MaxAttempts,
    MaxRuns,     \* how many times it is run
    MaxEvents    \* how much happens meanwhile: moves of others, faults, crashes

ASSUME SessionAssumption == MaxAttempts \in Nat \ {0} /\ Amount \in Nat

VARIABLES
    world,       \* how everything is set up
    ledger,      \* made and tx: each output and its transaction; unspent
    files,       \* tip and book, each [is: missing, torn or written, of]
    session,     \* tip and book in memory, or NoSession
    op,          \* what the run is doing
    left         \* runs and events to come

vars == <<world, ledger, files, session, op, left>>

Here == NetworkIdOf(world.live.network)

Wallet == LET bare == New(NetworkIdOf(NetworkOf(world.config, world.live)), FromKey("wallet"))
          IN  IF world.stake = NoPart THEN bare ELSE WithDelegation(bare, world.stake)

Label(name)  == <<"label", name>>
WalletLabel  == Label("wallet")
KonduitLabel == Label("konduit")
KonduitAddress == New(NetworkIdAt(Wallet), FromScript("konduit"))

-----------------------------------------------------------------------------
(* The addressbook: labels to addresses, and the text of each back.        *)

Indexed(entries) ==
    [text \in {Text(entries[l]) : l \in DOMAIN entries} |->
        CHOOSE l \in DOMAIN entries : Text(entries[l]) = text]

NoBook == [entries |-> <<>>, byAddress |-> <<>>]

\* TryFrom<BTreeMap>: no address twice.
IsBook(entries) == \A l, m \in DOMAIN entries : entries[l] = entries[m] => l = m
BookOf(entries) == [entries |-> entries, byAddress |-> Indexed(entries)]

With(f, k, v)  == (k :> v) @@ f
Without(f, ks) == [k \in DOMAIN f \ ks |-> f[k]]

\* Mutant: whether the address has a label is not asked.
InsertErrorBlind(book, label, address) ==
    IF label \notin DOMAIN book.entries THEN "none"
    ELSE IF book.entries[label] = address THEN "AlreadyExists" ELSE "LabelTaken"

InsertError(book, label, address) ==
    IF label \in DOMAIN book.entries
    THEN IF book.entries[label] = address THEN "AlreadyExists" ELSE "LabelTaken"
    ELSE IF Text(address) \in DOMAIN book.byAddress THEN "AddressTaken" ELSE "none"

Insert(book, label, address) ==
    IF InsertError(book, label, address) # "none" THEN book
    ELSE [entries   |-> With(book.entries, label, address),
          byAddress |-> With(book.byAddress, Text(address), label)]

\* remove_by_address; remove goes by the label.
RemoveByAddress(book, address) ==
    LET text == Text(address)
    IN  IF text \notin DOMAIN book.byAddress THEN book
        ELSE [entries   |-> Without(book.entries, {book.byAddress[text]}),
              byAddress |-> Without(book.byAddress, {text})]

\* A label first, then the text of an address of Shelley.
Resolve(book, input) ==
    IF input \in DOMAIN book.entries THEN book.entries[input]
    ELSE IF Len(input) # 3 THEN Refused ELSE AsShelley(FromText(input))

-----------------------------------------------------------------------------
(* The tip.                                                                *)

NoRows == <<>>
TipTrack(tip, address) == IF address \in DOMAIN tip THEN tip ELSE With(tip, address, NoRows)
TipRefreshMany(tip, rows) == rows @@ tip
TipUntrack(tip, address) == Without(tip, {address})

-----------------------------------------------------------------------------
(* The session and its files.                                              *)

NoSession == [tip |-> NoRows, book |-> NoBook, open |-> FALSE]
Missing   == [is |-> "missing", of |-> <<>>]
Torn      == [is |-> "torn", of |-> <<>>]
Written(of) == [is |-> "written", of |-> of]

TipLoads  == files.tip.is # "torn"
BookLoads == files.book.is # "torn" /\ IsBook(files.book.of)

\* Session::new labels and tracks the wallet; load_tip and load_addressbook
\* replace both and see to the wallet again.
LoadedBook ==
    LET book == BookOf(files.book.of)
    IN  IF Text(Wallet) \in DOMAIN book.byAddress THEN book ELSE Insert(book, WalletLabel, Wallet)

LoadedTip == TipTrack(files.tip.of, Wallet)
Hydrated == [tip |-> LoadedTip, book |-> LoadedBook, open |-> TRUE]
HydrateFails == Text(Wallet) \notin DOMAIN LoadedBook.byAddress

Track(s, label, address) ==
    [s EXCEPT !.book = Insert(s.book, label, address), !.tip = TipTrack(s.tip, address)]
TrackFails(s, label, address) ==
    InsertError(s.book, label, address) \notin {"none", "AlreadyExists"}

Forget(s, address) ==
    [s EXCEPT !.book = RemoveByAddress(s.book, address), !.tip = TipUntrack(s.tip, address)]

-----------------------------------------------------------------------------
(* A run.  todo: the addresses to fetch, the first of them under way; asks: *)
(* how far each ask of it has come; got: what has been fetched and what    *)
(* was unspent all the while, or came to be; more: the others follow the   *)
(* wallet (refresh_all); tries: how often a wait has fetched.               *)

Command(name, label, inputs) == [name |-> name, label |-> label, inputs |-> inputs]
NoCommand == Command("none", <<>>, <<>>)
Idle == [pc |-> "idle", cmd |-> NoCommand, after |-> "idle", todo |-> <<>>, asks |-> <<>>,
         rows |-> NoRows, held |-> {}, seen |-> {}, got |-> <<>>, more |-> FALSE, tries |-> 0]

OfBook    == {"insert", "remove", "list"}
OfKonduit == {"konduit upload", "konduit teardown", "channels"}

\* A failed command of konduit's own leaves the files alone.
AfterFailure == IF op.after = "command" \/ op.cmd.name \in OfKonduit THEN "abort" ELSE "save tip"

\* The wallet asks for its key alone, and for its key with its stake.
WalletAsks == {Ask(Wallet.payment, NoPart), Ask(Wallet.payment, world.stake)}

\* fetch_at: the wallet answers for its own address.
AsksFor(address) ==
    IF address = Wallet THEN WalletAsks ELSE {Ask(address.payment, DelegationOf(address))}

Finished == -1

Fetching(o, addresses) ==
    IF addresses = <<>> THEN [o EXCEPT !.pc = "fetched", !.todo = <<>>]
    ELSE [o EXCEPT !.pc = "fetch", !.todo = addresses, !.rows = NoRows,
                   !.asks = [ask \in AsksFor(addresses[1]) |-> NoToken],
                   !.held = ledger.unspent, !.seen = ledger.unspent]

RefreshAll(o) == Fetching([o EXCEPT !.more = TRUE], <<Wallet>>)

Ready == [op EXCEPT !.pc = "command", !.after = "save tip"]

Begin(cmd, refresh) ==
    /\ op.pc = "idle" /\ left.runs > 0 /\ cmd.name \notin OfBook
    /\ Connects(world.config, world.live) /\ TipLoads /\ BookLoads /\ ~HydrateFails
    /\ session' = Hydrated
    /\ left' = [left EXCEPT !.runs = @ - 1]
    /\ LET o == [Idle EXCEPT !.cmd = cmd, !.after = "command", !.pc = "hydrated"]
       IN  op' = IF refresh THEN RefreshAll(o) ELSE o
    /\ UNCHANGED <<world, ledger, files>>

\* konduit's session tracks its own address after the files are loaded.
Open ==
    /\ op.pc = "hydrated"
    /\ IF op.cmd.name \notin OfKonduit THEN session' = session /\ op' = Ready
       ELSE IF TrackFails(session, KonduitLabel, KonduitAddress)
       THEN session' = session /\ op' = [op EXCEPT !.pc = "abort"]
       ELSE session' = Track(session, KonduitLabel, KonduitAddress) /\ op' = Ready
    /\ UNCHANGED <<world, ledger, files, left>>

-----------------------------------------------------------------------------
(* Fetching.                                                               *)

\* One page of one ask; what cannot be read fails, and the client panics.
FetchPage(ask) ==
    LET kind == world.config.kind
        reply == Reply(kind, Found(kind, world.live.network, ledger, ask), op.asks[ask])
    IN  /\ op.pc = "fetch" /\ op.asks[ask] # Finished
        /\ IF Reads(kind, ledger, reply.items, world.native)
           THEN op' = [op EXCEPT !.rows = Accumulate(kind, ledger, @, reply.items, ask, world.native),
                                 !.asks[ask] = IF reply.next = NoToken THEN Finished
                                               ELSE NextStart(reply, op.asks[ask])]
           ELSE op' = [op EXCEPT !.pc = IF kind = "client" THEN "abort" ELSE AfterFailure]
        /\ UNCHANGED <<world, ledger, files, session, left>>

FetchFails ==
    /\ op.pc = "fetch" /\ left.events > 0
    /\ op' = [op EXCEPT !.pc = AfterFailure]
    /\ left' = [left EXCEPT !.events = @ - 1]
    /\ UNCHANGED <<world, ledger, files, session>>

Snapshot == [rows |-> op.rows, held |-> op.held, seen |-> op.seen]
FetchDone == op.pc = "fetch" /\ \A ask \in DOMAIN op.asks : op.asks[ask] = Finished

FetchNext ==
    /\ FetchDone
    /\ op' = Fetching([op EXCEPT !.got = With(op.got, op.todo[1], Snapshot)], Tail(op.todo))
    /\ UNCHANGED <<world, ledger, files, session, left>>

\* The tip changes when all have been fetched; a wait looks for its
\* transaction first.
Shows(id) == \E ref \in DOMAIN op.got[Wallet].rows : ledger.tx[ref] = id

Apply ==
    LET refreshed == [address \in DOMAIN op.got |-> op.got[address].rows]
        others == SetToSeq(DOMAIN session.tip \ {Wallet})
    IN  /\ op.pc = "fetched"
        /\ IF op.cmd.name = "wait" /\ op.after # "command" /\ ~Shows(op.cmd.inputs[1][2])
           THEN /\ session' = session
                /\ op' = IF op.tries + 1 = MaxAttempts THEN [op EXCEPT !.pc = AfterFailure]
                         ELSE Fetching([op EXCEPT !.tries = @ + 1], <<Wallet>>)
           ELSE /\ session' = [session EXCEPT !.tip = TipRefreshMany(@, refreshed)]
                /\ op' = IF op.more THEN Fetching([op EXCEPT !.more = FALSE, !.got = <<>>], others)
                         ELSE [op EXCEPT !.pc = IF op.after = "command" THEN "hydrated" ELSE op.after,
                                         !.got = <<>>]
        /\ UNCHANGED <<world, ledger, files, left>>

-----------------------------------------------------------------------------
(* Commands.                                                               *)

Is(name) == op.pc = "command" /\ op.cmd.name = name
Succeeds == op' = [op EXCEPT !.pc = "save tip"]
Fails    == op' = [op EXCEPT !.pc = AfterFailure] /\ session' = session

RefreshCmd ==
    /\ Is("refresh all")
    /\ op' = RefreshAll(op)
    /\ UNCHANGED <<world, ledger, files, session, left>>

RefreshAt ==
    LET addresses == [n \in DOMAIN op.cmd.inputs |-> Resolve(session.book, op.cmd.inputs[n])]
    IN  /\ Is("refresh at")
        /\ op' = IF \E n \in DOMAIN addresses : addresses[n] = Refused THEN [op EXCEPT !.pc = AfterFailure]
                 ELSE Fetching(op, addresses)
        /\ UNCHANGED <<world, ledger, files, session, left>>

TrackCmd ==
    LET address == Resolve(session.book, op.cmd.inputs[1])
    IN  /\ Is("track")
        /\ IF address = Refused \/ TrackFails(session, op.cmd.label, address) THEN Fails
           ELSE session' = Track(session, op.cmd.label, address) /\ op' = Fetching(op, <<address>>)
        /\ UNCHANGED <<world, ledger, files, left>>

Untrack ==
    LET address == Resolve(session.book, op.cmd.inputs[1])
    IN  /\ Is("untrack")
        /\ IF address \in {Refused, Wallet} THEN Fails ELSE session' = Forget(session, address) /\ Succeeds
        /\ UNCHANGED <<world, ledger, files, left>>

WaitId ==
    /\ Is("wait")
    /\ op' = Fetching(op, <<Wallet>>)
    /\ UNCHANGED <<world, ledger, files, session, left>>

\* tip at, tip info and channels only read.
ReadTip ==
    /\ op.pc = "command" /\ op.cmd.name \in {"read", "channels"}
    /\ Succeeds
    /\ UNCHANGED <<world, ledger, files, session, left>>

\* The wallet of a session answers with what was last seen there.
WalletRows == session.tip[Wallet]
Scripts == {ref \in DOMAIN WalletRows : WalletRows[ref].script # "none"}
Fuel == DOMAIN WalletRows \ Scripts

Uploads   == {"upload", "konduit upload"}
Teardowns == {"teardown", "konduit teardown"}

Inputs ==
    CASE op.cmd.name = "empty" -> DOMAIN WalletRows
      [] op.cmd.name \in Uploads \cup {"send"} -> Fuel
      [] op.cmd.name \in Teardowns -> {ref \in Scripts : WalletRows[ref].script = "konduit"}

Lovelace == FoldSet(LAMBDA ref, sum : sum + WalletRows[ref].value[1], 0, Inputs)

\* Where the inputs go: to an address given in full, and back to the wallet.
Change == IF Lovelace = Amount THEN <<>> ELSE <<Output(Wallet, <<Lovelace - Amount>>, NoDatum, "none")>>
Outputs ==
    LET to == FromText(op.cmd.inputs[1])
    IN  CASE op.cmd.name = "send"  -> <<Output(to, <<Amount>>, NoDatum, "none")>> \o Change
          [] op.cmd.name = "empty" -> <<Output(to, <<Lovelace>>, NoDatum, "none")>>
          [] op.cmd.name \in Uploads -> <<Output(Wallet, <<Amount>>, NoDatum, "konduit")>> \o Change
          [] op.cmd.name \in Teardowns -> <<Output(Wallet, <<Lovelace>>, NoDatum, "none")>>

\* The ledger takes a transaction whose inputs are unspent.
Taken == Lovelace >= Amount /\ Inputs \subseteq ledger.unspent

Enter(l, inputs, outputs) ==
    LET n == Len(l.made)
    IN  [made    |-> l.made \o outputs,
         tx      |-> l.tx \o [k \in DOMAIN outputs |-> n + 1],
         unspent |-> (l.unspent \ inputs) \cup (n + 1)..(n + Len(outputs))]

\* sign_and_submit: the tip stays as it is.
SignAndSubmit ==
    IF Taken THEN ledger' = Enter(ledger, Inputs, Outputs) /\ session' = session /\ Succeeds
    ELSE ledger' = ledger /\ Fails

WalletCmd ==
    /\ op.pc = "command" /\ op.cmd.name \in {"send", "empty", "upload", "teardown"}
    /\ SignAndSubmit
    /\ UNCHANGED <<world, files, left>>

KonduitCmd ==
    /\ op.pc = "command" /\ op.cmd.name \in {"konduit upload", "konduit teardown"}
    /\ SignAndSubmit
    /\ UNCHANGED <<world, files, left>>

-----------------------------------------------------------------------------
(* Saving, and what goes wrong.                                            *)

SaveTip ==
    /\ op.pc = "save tip"
    /\ files' = [files EXCEPT !.tip = Written(session.tip)]
    /\ op' = [op EXCEPT !.pc = "save book"]
    /\ UNCHANGED <<world, ledger, session, left>>

SaveBook ==
    /\ op.pc = "save book"
    /\ files' = [files EXCEPT !.book = Written(session.book.entries)]
    /\ session' = NoSession /\ op' = Idle
    /\ UNCHANGED <<world, ledger, left>>

\* Neither file is written where a write fails; the run goes on.
SaveFails ==
    /\ op.pc \in {"save tip", "save book"} /\ left.events > 0
    /\ left' = [left EXCEPT !.events = @ - 1]
    /\ IF op.pc = "save tip" THEN op' = [op EXCEPT !.pc = "save book"] /\ session' = session
       ELSE op' = Idle /\ session' = NoSession
    /\ UNCHANGED <<world, ledger, files>>

Abort ==
    /\ op.pc = "abort"
    /\ session' = NoSession /\ op' = Idle
    /\ UNCHANGED <<world, ledger, files, left>>

\* A file being written may be left torn.
Crash ==
    /\ op.pc # "idle" /\ left.events > 0
    /\ files' \in {files} \cup (IF op.pc = "save tip" THEN {[files EXCEPT !.tip = Torn]} ELSE {})
                          \cup (IF op.pc = "save book" THEN {[files EXCEPT !.book = Torn]} ELSE {})
    /\ session' = NoSession /\ op' = Idle
    /\ left' = [left EXCEPT !.events = @ - 1]
    /\ UNCHANGED <<world, ledger>>

\* A torn file is taken away by hand.
Repair ==
    /\ op.pc = "idle"
    /\ \E name \in {"tip", "book"} :
          files[name] = Torn /\ files' = [files EXCEPT ![name] = Missing]
    /\ UNCHANGED <<world, ledger, session, op, left>>

\* The addressbook's own commands work on the file, and save it even when
\* they fail.
EditBook(cmd) ==
    LET book == BookOf(files.book.of)
        address == IF cmd.name = "list" THEN Refused
                   ELSE Resolve(IF cmd.name = "insert" THEN NoBook ELSE book, cmd.inputs[1])
        edited == CASE cmd.name = "insert" /\ address # Refused -> Insert(book, cmd.label, address)
                    [] cmd.name = "remove" /\ address # Refused -> RemoveByAddress(book, address)
                    [] OTHER -> book
    IN  /\ op.pc = "idle" /\ left.runs > 0 /\ cmd.name \in OfBook
        /\ BookLoads
        /\ cmd.name = "insert" => address # Refused
        /\ files' = [files EXCEPT !.book = Written(edited.entries)]
        /\ left' = [left EXCEPT !.runs = @ - 1]
        /\ UNCHANGED <<world, ledger, session, op>>

\* What others do.
Move ==
    /\ left.events > 0
    /\ left' = [left EXCEPT !.events = @ - 1]
    /\ \/ \E output \in Made(Here) : ledger' = Enter(ledger, {}, <<output>>)
       \/ \E ref \in ledger.unspent : ledger' = Enter(ledger, {ref}, <<>>)
    /\ op' = IF op.pc # "fetch" THEN op
             ELSE [op EXCEPT !.held = @ \cap ledger'.unspent, !.seen = @ \cup ledger'.unspent]
    /\ UNCHANGED <<world, files, session>>

-----------------------------------------------------------------------------
Init ==
    /\ world \in Worlds
    /\ ledger = Enter([made |-> <<>>, tx |-> <<>>, unspent |-> {}], {}, Chain(Here))
    /\ files = [tip |-> Missing, book |-> Missing]
    /\ session = NoSession
    /\ op = Idle
    /\ left = [runs |-> MaxRuns, events |-> MaxEvents]

Fetch == (\E ask \in DOMAIN op.asks : FetchPage(ask)) \/ FetchNext \/ Apply
Run == RefreshCmd \/ RefreshAt \/ TrackCmd \/ Untrack \/ WaitId \/ ReadTip \/ WalletCmd \/ KonduitCmd
Step == Open \/ Fetch \/ Run \/ SaveTip \/ SaveBook \/ Abort
Fault == FetchFails \/ SaveFails \/ Crash

Next ==
    \/ \E cmd \in Commands(Here), refresh \in BOOLEAN : Begin(cmd, refresh)
    \/ \E cmd \in Commands(Here) : EditBook(cmd)
    \/ Step \/ Fault \/ Repair \/ Move

Spec == Init /\ [][Next]_vars /\ WF_vars(Step)

-----------------------------------------------------------------------------
(* Properties.                                                             *)

OnChain(ref) == ledger.made[ref]

\* What is asked for: the payment credential, and the delegation if one is.
Wanted(output, ask) ==
    /\ output.address.payment = ask.payment
    /\ ask.delegation = NoPart \/ output.address.delegation = ask.delegation

\* An output as the ledger has it, but for a datum that was looked up.
SameOutput(read, output) ==
    [read EXCEPT !.datum = output.datum] = output
    /\ (read.datum = output.datum \/ (world.config.kind = "blockfrost" /\ output.datum = "hash"))

(* What a fetch gives of an address, however many pages it took and        *)
(* whatever happened meanwhile: every output at the address that stayed     *)
(* unspent all the while, only outputs that were there at some time under   *)
(* its payment credential (and delegation, where one is asked for), each as *)
(* the ledger has it.                                                       *)
SnapshotsHold ==
    \A address \in DOMAIN op.got :
        LET got == op.got[address]
            matching == {ref \in got.seen : \E ask \in AsksFor(address) : Wanted(OnChain(ref), ask)}
        IN  /\ {ref \in got.held : OnChain(ref).address = address} \subseteq DOMAIN got.rows
            /\ DOMAIN got.rows \subseteq matching
            /\ \A ref \in DOMAIN got.rows : SameOutput(got.rows[ref], OnChain(ref))

(* A session is of the network its outputs come from and counts slots as    *)
(* that network does; its wallet is watched and labelled whatever was       *)
(* loaded, tracked or forgotten; labels and addresses name each other; and  *)
(* an addressbook once saved can be loaded again.                           *)
SessionFits ==
    /\ session.open =>
          /\ NetworkOf(world.config, world.live) = world.live.network
          /\ SlotsOf(world.config, world.live) = SlotsOfNetwork(world.live.network)
          /\ Wallet \in DOMAIN session.tip
          /\ Text(Wallet) \in DOMAIN session.book.byAddress
          /\ \A l \in DOMAIN session.book.entries :
                LET text == Text(session.book.entries[l])
                IN  text \in DOMAIN session.book.byAddress /\ session.book.byAddress[text] = l
          /\ \A text \in DOMAIN session.book.byAddress :
                session.book.byAddress[text] \in DOMAIN session.book.entries
    /\ IsBook(files.book.of)

(* Every run comes to its end: no fetch asks for the same page for ever, no *)
(* wait goes on without its transaction.                                    *)
RunsEnd == op.pc # "idle" ~> op.pc = "idle"
=============================================================================
