------------------------------- MODULE MCBatch -------------------------------
(***************************************************************************)
(* Two channels, under different constants or the same.                    *)
(***************************************************************************)
EXTENDS KonduitBatch

CONSTANTS c1, c2, s1

\* One tag has a cheque: a channel of the other is closed and ended only.
OneCheque ==
    [c \in Channel |-> IF c = c1 THEN {[index |-> 1, amount |-> 1, timeout |-> 1, latch |-> Sha2(s1)]}
                       ELSE {}]

Layout(t1, t2, h1, h2) ==
    [tag |-> (c1 :> t1 @@ c2 :> t2), home |-> (c1 :> h1 @@ c2 :> h2)]
TwoLayouts == {Layout(c1, c2, "h", "h"), Layout(c1, c1, "h", "h"), Layout(c1, c1, "h", "g")}
=============================================================================
