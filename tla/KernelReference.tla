-------------------------- MODULE KernelReference --------------------------
(***************************************************************************)
(* What the evidence of a step is meant to prove, stated over the lists as *)
(* a whole.  The validator of KonduitKernel walks the lists once, with an  *)
(* index and an exclude list as its only memory; MCKernel checks that the  *)
(* walk accepts exactly the evidence described here.                       *)
(***************************************************************************)
EXTENDS KonduitKernel

Ascending(list) == \A m, n \in DOMAIN list : m < n => list[m].index < list[n].index

IsSquashed(squash, index) ==
    index <= squash.index /\ ~Contains(squash.exclude, index)

\* Every used of the new datum is one the squash leaves out, once, and is
\* vouched for by the old datum or by the next unlocked cheque.
SubEvidence(signed, upper, usedsIn, usedsOut, squash, unlockeds) ==
    LET Old(used) == \E n \in DOMAIN usedsIn : usedsIn[n].index = used.index
        fresh == EntriesAt(usedsOut, {n \in DOMAIN usedsOut : ~Old(usedsOut[n])})
    IN  /\ squash \in signed
        /\ Ascending(usedsOut)
        /\ \A n \in DOMAIN usedsOut :
              /\ ~IsSquashed(squash, usedsOut[n].index)
              /\ Old(usedsOut[n]) => Contains(usedsIn, usedsOut[n])
        /\ Len(fresh) <= Len(unlockeds)
        /\ \A n \in DOMAIN fresh :
              /\ UsedOf(unlockeds[n]) = fresh[n]
              /\ LockedForm(unlockeds[n]) \in signed
              /\ upper <= unlockeds[n].timeout

\* The index of the last cheque: a response without cheques passes no used.
FinalIndex(cheques) == IF cheques = <<>> THEN -1 ELSE cheques[Len(cheques)].body.index

\* Every cheque of the response is one neither the squash nor the datum
\* accounts for; the locked ones, in order, are the pendings.
RespondEvidence(signed, upper, useds, squash, cheques, pendsAmount, pends) ==
    LET bodies == [n \in DOMAIN cheques |-> cheques[n].body]
        locked == EntriesAt(cheques, {n \in DOMAIN cheques : ~cheques[n].unlocked})
        passed == {n \in DOMAIN useds : useds[n].index <= FinalIndex(cheques)}
    IN  /\ squash \in signed
        /\ Ascending(bodies)
        /\ \A n \in DOMAIN bodies :
              /\ ~IsSquashed(squash, bodies[n].index)
              /\ \A m \in passed : useds[m].index # bodies[n].index
              /\ IF cheques[n].unlocked
                 THEN LockedForm(bodies[n]) \in signed /\ upper <= bodies[n].timeout
                 ELSE bodies[n] \in signed
        /\ \A m \in passed : ~IsSquashed(squash, useds[m].index)
        /\ pends = [n \in DOMAIN locked |-> PendOf(locked[n].body)]
        /\ pendsAmount = ListTotal(pends)

RespondOwed(useds, squash, cheques) ==
    LET passed   == {n \in DOMAIN useds : useds[n].index <= FinalIndex(cheques)}
        unlocked == {n \in DOMAIN cheques : cheques[n].unlocked}
    IN  squash.amount + MapThenSumSet(LAMBDA n : useds[n].amount, passed)
                      + MapThenSumSet(LAMBDA n : cheques[n].body.amount, unlocked)

\* The pendings that stay are the old ones without those settled, in order.
PendsEvidence(unpends, pendsIn, pendsOut, Settles(_, _)) ==
    LET settled == {n \in DOMAIN unpends : unpends[n] # Keep}
        kept    == {n \in DOMAIN pendsIn : n \notin settled}
    IN  /\ Len(unpends) <= Len(pendsIn)
        /\ \A n \in settled : Settles(pendsIn[n], unpends[n])
        /\ Len(pendsOut) = Cardinality(kept)
        /\ \A n \in kept :
              pendsOut[Cardinality({m \in kept : m <= n})] = pendsIn[n]

UnlockEvidence(upper, unpends, pendsIn, pendsOut) ==
    PendsEvidence(unpends, pendsIn, pendsOut, LAMBDA pend, secret : UnlockSettles(upper, pend, secret))
ExpireEvidence(lower, unpends, pendsIn, pendsOut) ==
    PendsEvidence(unpends, pendsIn, pendsOut, LAMBDA pend, unpend : ExpireSettles(lower, pend))
=============================================================================
