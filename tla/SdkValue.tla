------------------------------- MODULE SdkValue -------------------------------
(***************************************************************************)
(* Quantities of lovelace and of assets (cardano/sdk's value.rs), and the  *)
(* two ways of choosing UTxOs that cover one: Value::cover, which a wallet *)
(* is asked with, and fuel::select of the transaction builder (tx2).       *)
(*                                                                         *)
(* A value has a quantity for every unit: what the maps of the code leave  *)
(* out, or prune, is zero.  UTxOs come in a sequence and a selection is    *)
(* the sequence of the positions chosen.                                   *)
(***************************************************************************)
EXTENDS Integers, Sequences, SequencesExt, FiniteSetsExt

CONSTANT Assets   \* how many units there are beside lovelace

ASSUME AssetsAssumption == Assets \in Nat

Lovelace == 0
Unit == 0..Assets

Coin(lovelace) == [u \in Unit |-> IF u = Lovelace THEN lovelace ELSE 0]
Nothing == Coin(0)

Plus(a, b) == [u \in Unit |-> a[u] + b[u]]
Covers(a, b) == \A u \in Unit : a[u] >= b[u]
\* checked_sub, where Covers(a, b); saturating_sub_value everywhere.
Minus(a, b) == [u \in Unit |-> a[u] - b[u]]
Shortfall(a, b) == [u \in Unit |-> IF a[u] < b[u] THEN 0 ELSE a[u] - b[u]]
Sum(values) == FoldSeq(Plus, Nothing, values)

-----------------------------------------------------------------------------
(* Value::cover.  Each turn serves the unit that the fewest UTxOs are left *)
(* for, with the smallest UTxO that is enough or else the largest.         *)

Holders(utxos, chosen, unit) ==
    {i \in DOMAIN utxos : ~Contains(chosen, i) /\ utxos[i][unit] > 0}

ScarcestUnit(remaining, utxos, chosen) ==
    LET Left(u) == Cardinality(Holders(utxos, chosen, u))
        Before(u, v) == \/ Left(u) < Left(v)
                        \/ Left(u) = Left(v) /\ remaining[u] > remaining[v]
                        \/ Left(u) = Left(v) /\ remaining[u] = remaining[v] /\ u <= v
        missing == {u \in Unit : remaining[u] > 0}
    IN  CHOOSE u \in missing : \A v \in missing : Before(u, v)

\* Mutant: only a UTxO that is enough by itself is a candidate.
FitsAlone(have, other, need) == have >= need /\ (other < need \/ have <= other)

\* Is have at least as good a fit as other?
Fits(have, other, need) ==
    IF have >= need THEN other < need \/ have <= other ELSE other <= have

CoverTurn(acc, utxos) ==
    LET unit    == ScarcestUnit(acc.remaining, utxos, acc.chosen)
        holders == Holders(utxos, acc.chosen, unit)
        best    == {i \in holders : \A j \in holders :
                       Fits(utxos[i][unit], utxos[j][unit], acc.remaining[unit])}
    IN  IF acc.remaining = Nothing \/ ~acc.ok THEN acc
        ELSE IF best = {} THEN [acc EXCEPT !.ok = FALSE]
        ELSE [acc EXCEPT !.chosen = Append(@, Min(best)),
                         !.remaining = Shortfall(@, utxos[Min(best)])]

Cover(target, utxos) ==
    LET end == FoldLeft(LAMBDA acc, turn : CoverTurn(acc, utxos),
                        [ok |-> TRUE, remaining |-> target, chosen |-> <<>>], utxos)
    IN  [ok |-> end.ok /\ end.remaining = Nothing, chosen |-> end.chosen]

-----------------------------------------------------------------------------
(* fuel::select.  Each turn takes the UTxO that has most of the assets     *)
(* needed, then most of the lovelace; of equals the last, and the last of  *)
(* those available moves to its place.                                     *)

Coverage(value, remaining) ==
    [hits |-> Cardinality({u \in Unit \ {Lovelace} : remaining[u] > 0 /\ value[u] > 0}),
     ada  |-> Min({value[Lovelace], remaining[Lovelace]})]
AtLeast(a, b) == a.hits > b.hits \/ (a.hits = b.hits /\ a.ada >= b.ada)

SwapRemove(list, n) ==
    IF n = Len(list) THEN Front(list) ELSE [Front(list) EXCEPT ![n] = Last(list)]

\* Mutant: the lovelace of an input that was taken for its assets is not counted.
LeftLessAssets(remaining, value) ==
    IF \E u \in Unit \ {Lovelace} : value[u] > 0
    THEN [Shortfall(remaining, value) EXCEPT ![Lovelace] = remaining[Lovelace]]
    ELSE Shortfall(remaining, value)

StillNeeded(remaining, value) == Shortfall(remaining, value)

SelectTurn(acc, utxos) ==
    LET Score(n) == Coverage(utxos[acc.available[n]], acc.remaining)
        best     == {n \in DOMAIN acc.available :
                        \A m \in DOMAIN acc.available : AtLeast(Score(n), Score(m))}
        n        == Max(best)
    IN  IF acc.remaining = Nothing \/ best = {} THEN acc
        ELSE [available |-> SwapRemove(acc.available, n),
              remaining |-> StillNeeded(acc.remaining, utxos[acc.available[n]]),
              chosen    |-> Append(acc.chosen, acc.available[n])]

Select(target, utxos) ==
    LET end == FoldLeft(LAMBDA acc, turn : SelectTurn(acc, utxos),
                        [available |-> [n \in DOMAIN utxos |-> n],
                         remaining |-> target, chosen |-> <<>>], utxos)
    IN  [ok |-> end.remaining = Nothing, chosen |-> end.chosen]

-----------------------------------------------------------------------------
\* A selection covers its target, takes no UTxO twice and none for nothing.
Chosen(selection, utxos) == [n \in DOMAIN selection.chosen |-> utxos[selection.chosen[n]]]
IsSelectionOf(target, utxos, selection) ==
    LET before(n) == Sum(SubSeq(Chosen(selection, utxos), 1, n - 1))
    IN  /\ IsInjective(selection.chosen)
        /\ Covers(Sum(Chosen(selection, utxos)), target)
        /\ \A n \in DOMAIN selection.chosen :
              \E u \in Unit : before(n)[u] < target[u] /\ utxos[selection.chosen[n]][u] > 0

\* There is a selection where all the UTxOs together suffice, and only there.
FindsSelection(target, utxos) ==
    \A selection \in {Cover(target, utxos), Select(target, utxos)} :
        IF Covers(Sum(utxos), target)
        THEN selection.ok /\ IsSelectionOf(target, utxos, selection)
        ELSE ~selection.ok
=============================================================================
