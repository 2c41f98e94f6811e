------------------------------- MODULE MCLnd -------------------------------
(* Two payments of receipts and one of the operator's own; a table of two;
   a margin of four block times, as in the server.                          *)
EXTENDS LndClient

CONSTANTS p1, p2, own

MCLock == {p1, p2, own}
MCOwn == {own}
=============================================================================
