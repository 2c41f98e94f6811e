------------------------------ MODULE MCKernel ------------------------------
(***************************************************************************)
(* The validator's walks over the evidence of a Sub, a Respond, an Unlock  *)
(* and an Expire, against their reference over every input of a small      *)
(* instance: three signed cheques (the second out of time), one that the   *)
(* consumer never signed, every squash up to index 3 and one unsigned.     *)
(***************************************************************************)
EXTENDS KernelReference

CONSTANTS s1, s2, s3

Upper == 2
Lower == 2

Body(i) == [index   |-> i,
            amount  |-> <<1, 2, 4>>[i],
            timeout |-> <<2, 1, 3>>[i],
            latch   |-> <<s1, s2, s3>>[i]]
Forged == [Body(3) EXCEPT !.amount = 8]
Unlockeds == {Body(i) : i \in 1..3}
ListsOf(S, n) == UNION {[1..k -> S] : k \in 0..n}
Excludes(index) == {list \in ListsOf(1..(index - 1), index) :
                      \A m, n \in DOMAIN list : m < n => list[m] < list[n]}
Squashes == UNION {{[amount |-> 0, index |-> i, exclude |-> e] : e \in Excludes(i)} : i \in 0..3}
Unsigned == [amount |-> 9, index |-> 0, exclude |-> <<>>]
Signed == {LockedForm(u) : u \in Unlockeds} \cup Squashes

Useds == {UsedOf(u) : u \in Unlockeds}
UsedLists == {list \in ListsOf(Useds, 3) : Ascending(list)}

SubInputs ==
    [kind      : {"sub"},
     usedsIn   : UsedLists,
     usedsOut  : ListsOf(Useds, 3) \cup ListsOf({UsedOf(Forged), UsedOf(Body(2))}, 1),
     squash    : Squashes \cup {Unsigned},
     unlockeds : ListsOf(Unlockeds \cup {Forged}, 2)]

Cheques == [body : Unlockeds, unlocked : {TRUE}]
           \cup [body : {LockedForm(u) : u \in Unlockeds \cup {Forged}}, unlocked : {FALSE}]
PendsOf(cheques) ==
    LET locked == EntriesAt(cheques, {n \in DOMAIN cheques : ~cheques[n].unlocked})
    IN  [n \in DOMAIN locked |-> PendOf(locked[n].body)]

RespondInputs ==
    UNION {[kind        : {"respond"},
            useds       : UsedLists,
            squash      : Squashes \cup {Unsigned},
            cheques     : {cheques},
            pends       : {PendsOf(cheques), <<>>},
            pendsAmount : {ListTotal(PendsOf(cheques)), 4}] : cheques \in ListsOf(Cheques, 2)}

Pends == {PendOf(LockedForm(u)) : u \in Unlockeds}
PendsInputs == [kind     : {"unlock", "expire"},
                pendsIn  : ListsOf(Pends, 3),
                pendsOut : ListsOf(Pends, 2),
                unpends  : ListsOf({Keep, s1, s2, s3}, 3)]

VARIABLES input, verdict
vars == <<input, verdict>>

Init == /\ input \in SubInputs \cup RespondInputs \cup PendsInputs
        /\ verdict = [ok |-> FALSE, owed |-> -1]

VerifySub ==
    /\ input.kind = "sub" /\ verdict.owed = -1
    /\ LET account == SubAccount(Signed, Upper, input.usedsIn, input.usedsOut,
                                 input.squash, input.unlockeds)
       IN  verdict' = [ok |-> account.ok, owed |-> account.owed]
    /\ UNCHANGED input

VerifyRespond ==
    /\ input.kind = "respond" /\ verdict.owed = -1
    /\ LET account == RespondAccount(Signed, Upper, input.useds, input.squash,
                                     input.cheques, input.pendsAmount, input.pends)
       IN  verdict' = [ok |-> account.ok, owed |-> account.owed]
    /\ UNCHANGED input

VerifyUnlock ==
    /\ input.kind = "unlock" /\ verdict.owed = -1
    /\ LET account == UnlockAccount(Upper, input.unpends, input.pendsIn, input.pendsOut)
       IN  verdict' = [ok |-> account.ok, owed |-> account.total]
    /\ UNCHANGED input

VerifyExpire ==
    /\ input.kind = "expire" /\ verdict.owed = -1
    /\ LET account == ExpireAccount(Lower, input.unpends, input.pendsIn, input.pendsOut)
       IN  verdict' = [ok |-> account.ok, owed |-> account.total]
    /\ UNCHANGED input

Next == VerifySub \/ VerifyRespond \/ VerifyUnlock \/ VerifyExpire

Spec == Init /\ [][Next]_vars

-----------------------------------------------------------------------------
Verified(kind) == input.kind = kind /\ verdict.owed # -1

\* A list of useds: unaccounted for by the squash, each listed once, and
\* vouched for by the old datum or by a signed cheque unlocked in time.
SubCounts ==
    Verified("sub") =>
        /\ verdict.ok <=> SubEvidence(Signed, Upper, input.usedsIn, input.usedsOut,
                                      input.squash, input.unlockeds)
        /\ verdict.ok => verdict.owed = input.squash.amount + ListTotal(input.usedsOut)

\* A list of cheques: none of them in the squash or in the useds, and the
\* locked ones are the pendings of the datum; of the useds it owes those up to
\* the last cheque.
RespondCounts ==
    Verified("respond") =>
        /\ verdict.ok <=> RespondEvidence(Signed, Upper, input.useds, input.squash,
                                          input.cheques, input.pendsAmount, input.pends)
        /\ verdict.ok => verdict.owed = RespondOwed(input.useds, input.squash, input.cheques)

(* No cheque is owed twice, as squashed, used, unlocked or pending, and none is
   left out that the evidence holds: Sub and Respond accept exactly the lists
   in which each stands once, and owe exactly their sum. *)
CountsEachChequeOnce == SubCounts /\ RespondCounts

(* Unlock and Expire drop exactly the pendings with a valid unpend, keep the
   others in order, and account for the total of those dropped. *)
PendingsSettleOneByOne ==
    Verified("unlock") \/ Verified("expire") =>
        /\ verdict.ok <=> IF input.kind = "unlock"
                          THEN UnlockEvidence(Upper, input.unpends, input.pendsIn, input.pendsOut)
                          ELSE ExpireEvidence(Lower, input.unpends, input.pendsIn, input.pendsOut)
        /\ verdict.ok => verdict.owed = ListTotal(input.pendsIn) - ListTotal(input.pendsOut)
=============================================================================
