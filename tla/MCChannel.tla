----------------------------- MODULE MCChannel -----------------------------
(***************************************************************************)
(* Small instances of KonduitChannel.                                      *)
(***************************************************************************)
EXTENDS KonduitChannel

CONSTANTS s1, s2

Cheque(i, a, t, s) == [index |-> i, amount |-> a, timeout |-> t, latch |-> Sha2(s)]

\* Two cheques, the first with the shorter timeout.
TwoOffers == {Cheque(1, 1, 1, s1), Cheque(2, 2, 3, s2)}

\* A payment and its retry to the same lock, which become equal pendings; the
\* interval's slack may straddle their timeout.
RetryOffers == {Cheque(1, 1, 1, s1), Cheque(2, 1, 1, s1)}
=============================================================================
