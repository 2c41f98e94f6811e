------------------------------ MODULE MCAdaptor ------------------------------
(***************************************************************************)
(* Small instances of KonduitAdaptor.                                      *)
(***************************************************************************)
EXTENDS KonduitAdaptor, TLC

CONSTANTS s1, s2, p, q

Symmetry == Permutations(Slot) \cup Permutations(Secret)

\* A lovelace for a msat, and a price that moves to three for two.
Even == {<<1, 1>>}
Moving == {<<1, 1>>, <<3, 2>>}
=============================================================================
