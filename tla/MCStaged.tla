------------------------------ MODULE MCStaged ------------------------------
(***************************************************************************)
(* A consumer's channel, a provider's with a receipt of four cheques, and  *)
(* one to open.                                                            *)
(***************************************************************************)
EXTENDS KonduitStaged

CONSTANTS c1, c2, c3, a1, b1, a2, b2, w, s1, s2, s3, s4

Keys == (c1 :> [add |-> w, sub |-> b1]) @@ (c2 :> [add |-> a2, sub |-> b2])
        @@ (c3 :> [add |-> a1, sub |-> b1])

\* Cheques by the thousand lovelace: what they are worth does not carry them.
Cheque(index, secret, timeout) ==
    [index |-> index, amount |-> 1000 * index, timeout |-> timeout, latch |-> Sha2(secret)]
Known(cheque) == [body |-> [cheque EXCEPT !.latch = cheque.latch[2]], unlocked |-> TRUE]
Sent(cheque) == [body |-> cheque, unlocked |-> FALSE]

First == Cheque(1, s1, 4)
Rest == <<Cheque(2, s2, 4), Cheque(3, s3, 4), Cheque(4, s4, 3)>>
Cheques == (c1 :> {Cheque(1, s1, 3)}) @@ (c2 :> ({First} \cup Range(Rest))) @@ (c3 :> {})
Filing(cheques) == [squash |-> ZeroBody, cheques |-> cheques]
Files ==
    (c1 :> {Filing(<<Known(Cheque(1, s1, 3))>>)}) @@ (c3 :> {Filing(<<>>)})
    @@ (c2 :> {Filing(<<Known(First), Sent(Rest[1]), Sent(Rest[2]), Sent(Rest[3])>>),
               Filing(<<Known(First), Known(Rest[1]), Sent(Rest[2])>>)})

\* Wallets, and the stages that the channels may be in at first.
Gold(lovelace, gold) == [u \in Unit |-> IF u = Lovelace THEN lovelace ELSE gold]
Plain == <<WalletOutput(Coin(9000000))>>
Golden == <<WalletOutput(Gold(4200000, 5)), WalletOutput(Coin(3000000))>>
Pends(timeouts) ==
    [n \in DOMAIN timeouts |-> [amount |-> 3000, lock |-> Sha2(s3), timeout |-> timeouts[n]]]
Opened == <<OpenedWith(3000000, 0, <<>>), OpenedWith(1000, 0, <<>>)>>
Closed == <<ClosedWith(3000000, 0, <<>>, 2), ClosedWith(9000, 0, <<>>, 5)>>
Responded == <<RespondedWith(6000, Pends(<<1, 2>>)), RespondedWith(5000, <<PendOf(Rest[1])>>)>>
Chain(stages) == <<ChannelOutput(c1, stages[1]), ChannelOutput(c2, stages[2])>>
\* What anyone may have put at the validator's address.
Stray == <<OutputOf("konduit", Coin(2000000))>>
Begin == {<<ScriptOutput>> \o Chain(Opened) \o Plain, <<ScriptOutput>> \o Golden \o Chain(Opened) \o Stray,
          <<ScriptOutput>> \o Chain(Closed) \o Plain, <<ScriptOutput>> \o Chain(Responded) \o Plain}
Asked == {Coin(0), Coin(2000000), Coin(7000000), Coin(9000000), Gold(0, 2), Gold(3000000, 5), Gold(1, 6)}
=============================================================================
