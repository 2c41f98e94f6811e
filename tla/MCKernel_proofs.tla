-------------------------- MODULE MCKernel_proofs ---------------------------
(***************************************************************************)
(* The invariants of MCKernel, from what KonduitKernel_proofs proves of    *)
(* the validator's walks over every evidence.                              *)
(***************************************************************************)
EXTENDS MCKernel, KonduitKernel_proofs

Inputs == SubInputs \cup RespondInputs \cup PendsInputs

\* What the validator says of an input.
VerdictOf(in) ==
    LET sub     == SubAccount(Signed, Upper, in.usedsIn, in.usedsOut, in.squash, in.unlockeds)
        respond == RespondAccount(Signed, Upper, in.useds, in.squash, in.cheques, in.pendsAmount, in.pends)
        unlock  == UnlockAccount(Upper, in.unpends, in.pendsIn, in.pendsOut)
        expire  == ExpireAccount(Lower, in.unpends, in.pendsIn, in.pendsOut)
    IN  CASE in.kind = "sub"     -> [ok |-> sub.ok, owed |-> sub.owed]
          [] in.kind = "respond" -> [ok |-> respond.ok, owed |-> respond.owed]
          [] in.kind = "unlock"  -> [ok |-> unlock.ok, owed |-> unlock.total]
          [] in.kind = "expire"  -> [ok |-> expire.ok, owed |-> expire.total]

Judged == input \in Inputs /\ (verdict.owed # -1 => verdict = VerdictOf(input))

LEMMA StaysJudged == Spec => []Judged
<1>1. Init => Judged
  BY DEF Init, Judged, Inputs
<1>2. Judged /\ [Next]_vars => Judged'
  <2>. SUFFICES ASSUME Judged, [Next]_vars PROVE Judged'
    OBVIOUS
  <2>. USE DEF Judged
  <2>1. CASE VerifySub
    BY <2>1, Zenon DEF VerifySub, VerdictOf
  <2>2. CASE VerifyRespond
    <3>1. input.kind = "respond" /\ "respond" # "sub"
      BY <2>2 DEF VerifyRespond
    <3>2. verdict' = VerdictOf(input)
      BY <2>2, <3>1 DEF VerifyRespond, VerdictOf
    <3>. QED
      BY <2>2, <3>2 DEF VerifyRespond
  <2>3. CASE VerifyUnlock
    <3>1. verdict' = VerdictOf(input)
      BY <2>3 DEF VerifyUnlock, VerdictOf
    <3>. QED
      BY <2>3, <3>1 DEF VerifyUnlock
  <2>4. CASE VerifyExpire
    <3>1. verdict' = VerdictOf(input)
      BY <2>4 DEF VerifyExpire, VerdictOf
    <3>. QED
      BY <2>4, <3>1 DEF VerifyExpire
  <2>5. CASE UNCHANGED vars
    BY <2>5 DEF vars
  <2>. QED
    BY <2>1, <2>2, <2>3, <2>4, <2>5 DEF Next
<1>. QED
  BY <1>1, <1>2, PTL DEF Spec

-----------------------------------------------------------------------------
(* The inputs are of the kinds KonduitKernel_proofs speaks of.             *)

Shown == Unlockeds \cup {Forged}

LEMMA ShownAre ==
    \A u \in Shown :
       /\ u.index \in Nat /\ u.amount \in Nat
       /\ LockedForm(u).index = u.index /\ LockedForm(u).amount = u.amount
<1>1. \A i \in 1..3 : /\ Body(i).index = i /\ Body(i).amount \in Nat
                      /\ LockedForm(Body(i)).index = Body(i).index /\ LockedForm(Body(i)).amount = Body(i).amount
  BY DEF Body, LockedForm
<1>2. /\ Forged.index = 3 /\ Forged.amount = 8
      /\ LockedForm(Forged).index = Forged.index /\ LockedForm(Forged).amount = Forged.amount
  BY DEF Body, LockedForm, Forged
<1>. QED
  BY <1>1, <1>2 DEF Shown, Unlockeds

LEMMA ListsAre ==
    ASSUME NEW S, NEW n \in Nat, NEW list \in ListsOf(S, n)
    PROVE  list \in Seq(S)
<1>1. PICK k \in 0..n : list \in [1..k -> S]
  BY DEF ListsOf
<1>2. k \in Nat
  OBVIOUS
<1>. QED
  BY <1>1, <1>2

LEMMA SquashesAre == \A squash \in Squashes \cup {Unsigned} : IsSquash(squash)
<1>1. IsSquash(Unsigned)
  BY DEF IsSquash, Unsigned
<1>2. ASSUME NEW squash \in Squashes PROVE IsSquash(squash)
  <2>1. PICK i \in 0..3 : squash \in {[amount |-> 0, index |-> i, exclude |-> e] : e \in Excludes(i)}
    BY DEF Squashes
  <2>2. PICK e \in Excludes(i) : squash = [amount |-> 0, index |-> i, exclude |-> e]
    BY <2>1
  <2>3. e \in Seq(1..(i - 1)) /\ \A m, n \in DOMAIN e : m < n => e[m] < e[n]
    <3>1. e \in ListsOf(1..(i - 1), i)
      BY DEF Excludes
    <3>2. i \in Nat
      BY <2>1
    <3>. QED
      BY <3>1, <3>2, ListsAre DEF Excludes
  <2>4. e \in Seq(Nat) /\ \A n \in DOMAIN e : e[n] <= i
    <3>1. Len(e) \in Nat /\ DOMAIN e = 1..Len(e) /\ \A n \in 1..Len(e) : e[n] \in 1..(i - 1)
      BY <2>3, ListEntries
    <3>2. \A n \in 1..Len(e) : e[n] \in Nat /\ e[n] <= i
      BY <3>1
    <3>. QED
      BY <2>3, <3>1, <3>2
  <2>. QED
    BY <2>2, <2>3, <2>4 DEF IsSquash
<1>. QED
  BY <1>1, <1>2

LEMMA UsedsAre ==
    /\ {UsedOf(u) : u \in Shown} \subseteq UsedRecords
    /\ \A list \in UsedLists : list \in Seq(UsedRecords) /\ Ascending(list)
<1>1. \A u \in Shown : UsedOf(u) \in UsedRecords
  BY ShownAre DEF UsedOf, UsedRecords
<1>2. \A list \in UsedLists : list \in Seq(Useds) /\ Ascending(list)
  BY ListsAre DEF UsedLists
<1>3. Useds \subseteq UsedRecords
  BY <1>1 DEF Useds, Shown
<1>. QED
  BY <1>1, <1>2, <1>3

PendRecords == {PendOf(LockedForm(u)) : u \in Shown}

LEMMA PendsAre == HaveAmounts(PendRecords) /\ Pends \subseteq PendRecords
<1>1. \A u \in Shown : PendOf(LockedForm(u)).amount \in Nat
  BY ShownAre DEF PendOf
<1>. QED
  BY <1>1 DEF HaveAmounts, PendRecords, Pends, Shown

LEMMA ChequesAre ==
    /\ ChequeRecords(Cheques)
    /\ \A c \in Cheques : ~c.unlocked => PendOf(c.body) \in PendRecords
<1>1. ASSUME NEW c \in Cheques
      PROVE  /\ c.unlocked \in BOOLEAN /\ c.body.index \in Nat /\ c.body.amount \in Nat
             /\ ~c.unlocked => PendOf(c.body) \in PendRecords
  <2>1. CASE c \in [body : Unlockeds, unlocked : {TRUE}]
    <3>1. c.unlocked = TRUE /\ c.body \in Shown
      BY <2>1 DEF Shown
    <3>2. c.body.index \in Nat /\ c.body.amount \in Nat
      BY <3>1, ShownAre
    <3>. QED
      BY <3>1, <3>2
  <2>2. CASE c \in [body : {LockedForm(u) : u \in Shown}, unlocked : {FALSE}]
    <3>1. c.unlocked = FALSE /\ c.body \in {LockedForm(u) : u \in Shown}
      BY <2>2
    <3>2. PICK u \in Shown : c.body = LockedForm(u)
      BY <3>1
    <3>3. LockedForm(u).index \in Nat /\ LockedForm(u).amount \in Nat
      BY ShownAre
    <3>4. PendOf(LockedForm(u)) \in PendRecords
      BY DEF PendRecords
    <3>. QED
      BY <3>1, <3>2, <3>3, <3>4
  <2>. QED
    BY <2>1, <2>2 DEF Cheques, Shown
<1>. QED
  BY <1>1 DEF ChequeRecords

LEMMA PendingsAre ==
    ASSUME NEW cheques \in Seq(Cheques)
    PROVE  PendsOf(cheques) \in Seq(PendRecords)
<1>. DEFINE places == {n \in DOMAIN cheques : ~cheques[n].unlocked}
            locked == EntriesAt(cheques, places)
            pends == [n \in DOMAIN locked |-> PendOf(locked[n].body)]
<1>1. \A n \in DOMAIN cheques : cheques[n] \in Cheques
  BY ListEntries
<1>2. /\ locked \in Seq(Cheques)
      /\ \A n \in places : RankIn(places, n) \in 1..Len(locked) /\ locked[RankIn(places, n)] = cheques[n]
      /\ \A k \in 1..Len(locked) : \E n \in places : RankIn(places, n) = k
  <2>1. places \in SUBSET DOMAIN cheques
    OBVIOUS
  <2>. HIDE DEF places
  <2>. QED
    BY <2>1, EntriesAtRanks
<1>3. Len(locked) \in Nat /\ DOMAIN locked = 1..Len(locked)
  BY <1>2, ListEntries
<1>4. ASSUME NEW k \in 1..Len(locked) PROVE PendOf(locked[k].body) \in PendRecords
  <2>1. PICK n \in places : RankIn(places, n) = k
    BY <1>2
  <2>2. locked[k] = cheques[n] /\ cheques[n] \in Cheques /\ ~cheques[n].unlocked
    BY <1>1, <1>2, <2>1
  <2>. QED
    BY <2>2, ChequesAre
<1>5. PendsOf(cheques) = pends
  BY DEF PendsOf
<1>. HIDE DEF locked
<1>6. pends \in [1..Len(locked) -> PendRecords]
  BY <1>3, <1>4
<1>. QED
  BY <1>3, <1>5, <1>6

LEMMA SubInputsAre ==
    ASSUME NEW in \in SubInputs
    PROVE  /\ in.kind = "sub"
           /\ in.usedsIn \in Seq(UsedRecords) /\ Ascending(in.usedsIn)
           /\ in.usedsOut \in Seq(UsedRecords)
           /\ IsSquash(in.squash) /\ in.unlockeds \in Seq(Shown)
<1>1. /\ in.kind = "sub" /\ in.usedsIn \in UsedLists
      /\ in.usedsOut \in ListsOf(Useds, 3) \cup ListsOf({UsedOf(Forged), UsedOf(Body(2))}, 1)
      /\ in.squash \in Squashes \cup {Unsigned} /\ in.unlockeds \in ListsOf(Shown, 2)
  BY DEF SubInputs, Shown
<1>2. Useds \subseteq UsedRecords /\ {UsedOf(Forged), UsedOf(Body(2))} \subseteq UsedRecords
  <2>1. Body(2) \in Unlockeds
    BY DEF Unlockeds
  <2>. QED
    BY <2>1, UsedsAre DEF Useds, Shown
<1>3. in.usedsOut \in Seq(Useds) \/ in.usedsOut \in Seq({UsedOf(Forged), UsedOf(Body(2))})
  BY <1>1, ListsAre
<1>4. in.usedsOut \in Seq(UsedRecords)
  BY <1>2, <1>3
<1>. QED
  BY <1>1, <1>4, UsedsAre, SquashesAre, ListsAre

LEMMA RespondInputsAre ==
    ASSUME NEW in \in RespondInputs
    PROVE  /\ in.kind = "respond"
           /\ in.useds \in Seq(UsedRecords) /\ Ascending(in.useds) /\ IsSquash(in.squash)
           /\ in.cheques \in Seq(Cheques) /\ in.pendsAmount \in Int /\ in.pends \in Seq(PendRecords)
<1>1. PICK cheques \in ListsOf(Cheques, 2) :
         in \in [kind        : {"respond"},
                 useds       : UsedLists,
                 squash      : Squashes \cup {Unsigned},
                 cheques     : {cheques},
                 pends       : {PendsOf(cheques), <<>>},
                 pendsAmount : {ListTotal(PendsOf(cheques)), 4}]
  BY DEF RespondInputs
<1>2. cheques \in Seq(Cheques)
  BY ListsAre
<1>3. PendsOf(cheques) \in Seq(PendRecords) /\ ListTotal(PendsOf(cheques)) \in Nat
  BY <1>2, PendingsAre, PendsAre, ListTotalTail
<1>4. /\ in.kind = "respond" /\ in.useds \in UsedLists /\ in.squash \in Squashes \cup {Unsigned}
      /\ in.cheques = cheques /\ in.pends \in {PendsOf(cheques), <<>>}
      /\ in.pendsAmount \in {ListTotal(PendsOf(cheques)), 4}
  BY <1>1
<1>5. in.pends \in Seq(PendRecords)
  <2>1. <<>> \in Seq(PendRecords)
    OBVIOUS
  <2>. QED
    BY <1>3, <1>4, <2>1
<1>6. in.pendsAmount \in Int
  BY <1>3, <1>4
<1>7. in.useds \in Seq(UsedRecords) /\ Ascending(in.useds) /\ IsSquash(in.squash)
  BY <1>4, UsedsAre, SquashesAre
<1>. QED
  BY <1>2, <1>4, <1>5, <1>6, <1>7

Unpends == {Keep, s1, s2, s3}

LEMMA PendsInputsAre ==
    ASSUME NEW in \in PendsInputs
    PROVE  /\ in.kind \in {"unlock", "expire"}
           /\ in.pendsIn \in Seq(PendRecords) /\ in.pendsOut \in Seq(PendRecords)
           /\ in.unpends \in Seq(Unpends)
<1>1. /\ in.kind \in {"unlock", "expire"} /\ in.pendsIn \in ListsOf(Pends, 3)
      /\ in.pendsOut \in ListsOf(Pends, 2) /\ in.unpends \in ListsOf(Unpends, 3)
  BY DEF PendsInputs, Unpends
<1>2. in.pendsIn \in Seq(Pends) /\ in.pendsOut \in Seq(Pends) /\ in.unpends \in Seq(Unpends)
  BY <1>1, ListsAre
<1>. QED
  BY <1>1, <1>2, PendsAre

-----------------------------------------------------------------------------

(* No cheque is owed twice, as squashed, used, unlocked or pending, and none is
   left out that the evidence holds (sub.ak and respond.ak), whatever the
   secrets are: the exactness of the two walks, for the inputs of the run. *)
THEOREM CountsEachChequeOnceAlways == Spec => []CountsEachChequeOnce
<1>1. Judged => CountsEachChequeOnce
  <2>. SUFFICES ASSUME Judged PROVE SubCounts /\ RespondCounts
    BY DEF CountsEachChequeOnce
  <2>1. SubCounts
    <3>. SUFFICES ASSUME input.kind = "sub", verdict.owed # -1 PROVE SubCounts
      BY DEF SubCounts, Verified
    <3>1. input \in SubInputs
      <4>1. input \notin RespondInputs /\ input \notin PendsInputs
        BY RespondInputsAre, PendsInputsAre
      <4>. QED
        BY <4>1 DEF Judged, Inputs
    <3>. DEFINE account == SubAccount(Signed, Upper, input.usedsIn, input.usedsOut, input.squash, input.unlockeds)
    <3>2. /\ account.ok <=> SubEvidence(Signed, Upper, input.usedsIn, input.usedsOut, input.squash, input.unlockeds)
          /\ account.ok => account.owed = input.squash.amount + ListTotal(input.usedsOut)
      BY <3>1, SubInputsAre, SubIsExact
    <3>3. verdict = [ok |-> account.ok, owed |-> account.owed]
      BY Zenon DEF Judged, VerdictOf
    <3>4. verdict.ok = account.ok /\ verdict.owed = account.owed
      BY <3>3
    <3>. HIDE DEF account
    <3>. QED
      BY <3>2, <3>4 DEF SubCounts
  <2>2. RespondCounts
    <3>. SUFFICES ASSUME input.kind = "respond", verdict.owed # -1 PROVE RespondCounts
      BY DEF RespondCounts, Verified
    <3>1. input \in RespondInputs
      <4>1. input \notin SubInputs /\ input \notin PendsInputs
        BY SubInputsAre, PendsInputsAre
      <4>. QED
        BY <4>1 DEF Judged, Inputs
    <3>. DEFINE account == RespondAccount(Signed, Upper, input.useds, input.squash,
                                          input.cheques, input.pendsAmount, input.pends)
    <3>2. /\ account.ok <=> RespondEvidence(Signed, Upper, input.useds, input.squash,
                                            input.cheques, input.pendsAmount, input.pends)
          /\ account.ok => account.owed = RespondOwed(input.useds, input.squash, input.cheques)
      BY <3>1, RespondInputsAre, PendsAre, ChequesAre, RespondIsExact
    <3>3. verdict = [ok |-> account.ok, owed |-> account.owed]
      <4>1. verdict = VerdictOf(input)
        BY DEF Judged
      <4>. QED
        BY <4>1 DEF VerdictOf
    <3>4. verdict.ok = account.ok /\ verdict.owed = account.owed
      BY <3>3
    <3>. HIDE DEF account
    <3>. QED
      BY <3>2, <3>4 DEF RespondCounts
  <2>. QED
    BY <2>1, <2>2
<1>. QED
  BY <1>1, StaysJudged, PTL

LEMMA TotalsAre ==
    ASSUME NEW unpends \in Seq(Unpends), NEW pendsIn \in Seq(PendRecords), NEW pendsOut \in Seq(PendRecords)
    PROVE  /\ UnlockAccount(Upper, unpends, pendsIn, pendsOut).ok =>
                 UnlockAccount(Upper, unpends, pendsIn, pendsOut).total = ListTotal(pendsIn) - ListTotal(pendsOut)
           /\ ExpireAccount(Lower, unpends, pendsIn, pendsOut).ok =>
                 ExpireAccount(Lower, unpends, pendsIn, pendsOut).total = ListTotal(pendsIn) - ListTotal(pendsOut)
<1>1. HaveAmounts(PendRecords)
  BY PendsAre
<1>. QED
  BY <1>1, UnlockSettlesOneByOne, ExpireSettlesOneByOne

(* Unlock and Expire drop exactly the pendings with a valid unpend, keep the
   others in order and account for the total of those dropped (unlock.ak and
   expire.ak), whatever the secrets are. *)
THEOREM PendingsSettleOneByOneAlways == Spec => []PendingsSettleOneByOne
<1>1. Judged => PendingsSettleOneByOne
  <2>. SUFFICES ASSUME Judged, input.kind \in {"unlock", "expire"}, verdict.owed # -1
                PROVE  PendingsSettleOneByOne
    BY DEF PendingsSettleOneByOne, Verified
  <2>1. input \in PendsInputs
    <3>1. input \notin SubInputs /\ input \notin RespondInputs
      BY SubInputsAre, RespondInputsAre
    <3>. QED
      BY <3>1 DEF Judged, Inputs
  <2>2. /\ input.pendsIn \in Seq(PendRecords) /\ input.pendsOut \in Seq(PendRecords)
        /\ input.unpends \in Seq(Unpends) /\ HaveAmounts(PendRecords)
    BY <2>1, PendsInputsAre, PendsAre
  <2>3. CASE input.kind = "unlock"
    <3>. DEFINE account == UnlockAccount(Upper, input.unpends, input.pendsIn, input.pendsOut)
    <3>1. account.ok <=> UnlockEvidence(Upper, input.unpends, input.pendsIn, input.pendsOut)
      BY <2>2, UnlockIsExact
    <3>2. account.ok => account.total = ListTotal(input.pendsIn) - ListTotal(input.pendsOut)
      BY <2>2, TotalsAre, Zenon
    <3>3. verdict = [ok |-> account.ok, owed |-> account.total]
      <4>1. verdict = VerdictOf(input)
        BY DEF Judged
      <4>. QED
        BY <2>3, <4>1 DEF VerdictOf
    <3>4. verdict.ok = account.ok /\ verdict.owed = account.total
      BY <3>3
    <3>. HIDE DEF account
    <3>. QED
      BY <2>3, <3>1, <3>2, <3>4 DEF PendingsSettleOneByOne
  <2>4. CASE input.kind = "expire"
    <3>. DEFINE account == ExpireAccount(Lower, input.unpends, input.pendsIn, input.pendsOut)
    <3>1. account.ok <=> ExpireEvidence(Lower, input.unpends, input.pendsIn, input.pendsOut)
      BY <2>2, ExpireIsExact
    <3>2. account.ok => account.total = ListTotal(input.pendsIn) - ListTotal(input.pendsOut)
      BY <2>2, TotalsAre, Zenon
    <3>3. verdict = [ok |-> account.ok, owed |-> account.total]
      <4>1. verdict = VerdictOf(input)
        BY DEF Judged
      <4>. QED
        BY <2>4, <4>1 DEF VerdictOf
    <3>4. verdict.ok = account.ok /\ verdict.owed = account.total
      BY <3>3
    <3>. HIDE DEF account
    <3>. QED
      BY <2>4, <3>1, <3>2, <3>4 DEF PendingsSettleOneByOne
  <2>. QED
    BY <2>3, <2>4
<1>. QED
  BY <1>1, StaysJudged, PTL
=============================================================================
