----------------------- MODULE KonduitReceipt_proofs -----------------------
(***************************************************************************)
(* Proofs about receipts: what is selected from a list, and what a         *)
(* proposal makes of a squash.                                             *)
(***************************************************************************)
EXTENDS KonduitReceipt, KonduitKernel_proofs

-----------------------------------------------------------------------------
(* Entries selected from a list.                                           *)

\* What is selected from a list of cheques is worth what stands at the places.
LEMMA SelectedTotal ==
    ASSUME NEW P, \A p \in P : p.body.amount \in Nat, NEW list \in Seq(P),
           NEW chosen, chosen \subseteq DOMAIN list,
           NEW w, \A n \in DOMAIN list : w[n] = list[n].body.amount
    PROVE  ListTotal(Bodies(EntriesAt(list, chosen))) = SumOver(chosen, w)
<1>. DEFINE out == EntriesAt(list, chosen)
            bodies == Bodies(out)
            v == [k \in DOMAIN bodies |-> bodies[k].amount]
<1>1. PICK places : IsSelection(out, list, chosen, Len(list), places)
  BY EntriesAtSelects DEF Selects
<1>2. out \in Seq(P)
  BY EntriesAtSelects
<1>. HIDE DEF out
<1>3. /\ DOMAIN list = 1..Len(list) /\ DOMAIN out = 1..Len(out) /\ Len(out) \in Nat
      /\ \A k \in 1..Len(out) : out[k] \in P
  BY <1>2, ListEntries
<1>4. DOMAIN bodies = DOMAIN out /\ \A k \in DOMAIN out : bodies[k] = out[k].body
  BY DEF Bodies
<1>. HIDE DEF bodies
<1>5. \A k \in DOMAIN out : v[k] = bodies[k].amount /\ v[k] \in Nat /\ v[k] = w[places[k]]
  <2>1. ASSUME NEW k \in DOMAIN out PROVE v[k] = bodies[k].amount /\ v[k] \in Nat /\ v[k] = w[places[k]]
    <3>1. out[k] \in P /\ v[k] = out[k].body.amount /\ v[k] = bodies[k].amount
      BY <1>3, <1>4, <2>1
    <3>2. out[k] = list[places[k]] /\ places[k] \in DOMAIN list
      BY <1>1, <1>3, <2>1 DEF IsSelection
    <3>. QED
      BY <3>1, <3>2
  <2>. QED
    BY <2>1
<1>. HIDE DEF v
<1>6. IsFiniteSet(DOMAIN out)
  BY <1>3, FS_Interval
<1>7. \A j, k \in DOMAIN out : places[j] = places[k] => j = k
  <2>1. ASSUME NEW j \in 1..Len(out), NEW k \in 1..Len(out), places[j] = places[k] PROVE j = k
    <3>1. places[j] \in 1..Len(list) /\ places[k] \in 1..Len(list)
      BY <1>1 DEF IsSelection
    <3>2. ~(j < k) /\ ~(k < j)
      BY <1>1, <2>1, <3>1 DEF IsSelection
    <3>. QED
      BY <1>3, <3>2
  <2>. QED
    BY <1>3, <2>1
<1>8. Image(places, DOMAIN out) = chosen
  <2>1. ASSUME NEW n \in chosen PROVE \E k \in DOMAIN out : places[k] = n
    BY <1>1, <1>3 DEF IsSelection
  <2>2. \A k \in DOMAIN out : places[k] \in chosen
    BY <1>1, <1>3 DEF IsSelection
  <2>. QED
    BY <2>1, <2>2 DEF Image
<1>9. ListTotal(bodies) = SumOver(DOMAIN bodies, v)
  BY <1>4, <1>5, ListTotalIsSum
<1>10. SumOver(DOMAIN out, v) = SumOver(Image(places, DOMAIN out), w)
  BY <1>5, <1>6, <1>7, SumMoved
<1>. QED
  BY <1>4, <1>8, <1>9, <1>10 DEF out, bodies

\* Two selections that share no place are worth what both are.
LEMMA SumOfBoth ==
    ASSUME NEW S, IsFiniteSet(S), NEW w, \A x \in S : w[x] \in Nat,
           NEW A \in SUBSET S, NEW B \in SUBSET S, A \cap B = {}
    PROVE  SumOver(A \cup B, w) = SumOver(A, w) + SumOver(B, w)
<1>. DEFINE D == {s \in SUBSET B : SumOver(A \cup s, w) = SumOver(A, w) + SumOver(s, w)}
<1>1. IsFiniteSet(B) /\ SumOver(A, w) \in Nat
  BY FS_Subset, SumType
<1>2. {} \in D
  <2>1. A \cup {} = A
    OBVIOUS
  <2>. QED
    BY <1>1, <2>1, SumPicks
<1>3. ASSUME NEW s \in SUBSET B, s # {}, \A x \in s : s \ {x} \in D PROVE s \in D
  <2>1. PICK x \in s : TRUE
    BY <1>3
  <2>2. SumOver(A \cup (s \ {x}), w) = SumOver(A, w) + SumOver(s \ {x}, w)
    BY <1>3, <2>1
  <2>3. (A \cup s) \ {x} = A \cup (s \ {x})
    BY <2>1
  <2>4. SumOver(A \cup s, w) = w[x] + SumOver((A \cup s) \ {x}, w)
    <3>1. x \in A \cup s /\ A \cup s \in SUBSET S
      BY <2>1
    <3>. QED
      BY <3>1, SumRemoves
  <2>5. SumOver(s, w) = w[x] + SumOver(s \ {x}, w)
    <3>1. s \in SUBSET S
      OBVIOUS
    <3>. QED
      BY <2>1, <3>1, SumRemoves
  <2>6. w[x] \in Nat /\ SumOver(s \ {x}, w) \in Nat
    <3>1. s \ {x} \in SUBSET S
      OBVIOUS
    <3>. QED
      BY <2>1, <3>1, SumType
  <2>7. SumOver(A \cup s, w) = w[x] + (SumOver(A, w) + SumOver(s \ {x}, w))
    BY <2>2, <2>3, <2>4
  <2>8. SumOver(A \cup s, w) = SumOver(A, w) + SumOver(s, w)
    <3>1. \A i, j, k \in Nat : i + (j + k) = j + (i + k)
      OBVIOUS
    <3>2. w[x] + (SumOver(A, w) + SumOver(s \ {x}, w)) = SumOver(A, w) + (w[x] + SumOver(s \ {x}, w))
      BY <1>1, <2>6, <3>1
    <3>. QED
      BY <2>5, <2>7, <3>2
  <2>. QED
    BY <2>8
<1>4. \A s \in SUBSET B : s \in D
  <2>. HIDE DEF D
  <2>. QED
    BY <1>1, <1>2, <1>3, Shrink
<1>. QED
  BY <1>4

-----------------------------------------------------------------------------
(* Squash bodies.                                                          *)

\* What a squash body leaves out lies below its index.
Squashes ==
    {b \in [amount : Nat, index : Nat, exclude : Seq(Nat)] :
        \A i \in Entries(b.exclude) : i < b.index}

Covered(body) == {i \in Nat : IsIndexSquashed(body, i)}

LEMMA ContainsIsEntry ==
    ASSUME NEW T, NEW list \in Seq(T), NEW x
    PROVE  Contains(list, x) <=> x \in Entries(list)
<1>1. DOMAIN list = 1..Len(list)
  BY ListEntries
<1>. QED
  BY <1>1 DEF Contains, Entries

LEMMA CoveredIs ==
    ASSUME NEW b \in Squashes
    PROVE  Covered(b) = {i \in Nat : i <= b.index /\ i \notin Entries(b.exclude)}
<1>1. b.exclude \in Seq(Nat) /\ b.index \in Nat /\ \A i \in Entries(b.exclude) : i < b.index
  BY DEF Squashes
<1>2. \A i \in Nat : Contains(b.exclude, i) <=> i \in Entries(b.exclude)
  BY <1>1, ContainsIsEntry
<1>. QED
  BY <1>1, <1>2 DEF Covered, IsIndexSquashed

LEMMA ZeroBodyCovers ==
    ZeroBody \in Squashes /\ ZeroBody.amount = 0 /\ Covered(ZeroBody) = {0}
<1>1. ZeroBody \in Squashes /\ ZeroBody.amount = 0 /\ ZeroBody.index = 0 /\ Entries(ZeroBody.exclude) = {}
  BY DEF ZeroBody, Squashes, Entries
<1>2. Covered(ZeroBody) = {i \in Nat : i <= 0 /\ i \notin {}}
  BY <1>1, CoveredIs
<1>. QED
  BY <1>1, <1>2

\* SquashBody::squash covers one index more, and no other.
LEMMA SquashedWithCovers ==
    ASSUME NEW b \in Squashes, NEW index \in Nat, NEW amount \in Nat, CanSquash(b, index)
    PROVE  /\ SquashedWith(b, index, amount) \in Squashes
           /\ SquashedWith(b, index, amount).amount = b.amount + amount
           /\ Covered(SquashedWith(b, index, amount)) = Covered(b) \cup {index}
<1>. DEFINE new == SquashedWith(b, index, amount)
<1>1. /\ b \in [amount : Nat, index : Nat, exclude : Seq(Nat)]
      /\ \A i \in Entries(b.exclude) : i < b.index
      /\ Contains(b.exclude, index) <=> index \in Entries(b.exclude)
  BY ContainsIsEntry DEF Squashes
<1>2. Covered(b) = {i \in Nat : i <= b.index /\ i \notin Entries(b.exclude)}
  BY CoveredIs
<1>3. CASE Contains(b.exclude, index)
  <2>. DEFINE chosen == {n \in DOMAIN b.exclude : b.exclude[n] # index}
              less == EntriesAt(b.exclude, chosen)
  <2>1. new = [b EXCEPT !.amount = @ + amount, !.exclude = less]
    <3>1. Where(b.exclude, LAMBDA i : i # index) = less
      BY DEF Where, The
    <3>. HIDE DEF less
    <3>. QED
      BY <1>3, <3>1 DEF SquashedWith
  <2>2. less \in Seq(Nat) /\ Entries(less) = {b.exclude[n] : n \in chosen}
    <3>1. chosen \subseteq DOMAIN b.exclude
      OBVIOUS
    <3>. HIDE DEF chosen
    <3>. QED
      BY <1>1, <3>1, EntriesAtSelects, EntriesAtAre
  <2>3. Entries(less) = Entries(b.exclude) \ {index}
    BY <2>2 DEF Entries
  <2>. HIDE DEF less
  <2>4. /\ new \in [amount : Nat, index : Nat, exclude : Seq(Nat)]
        /\ new.amount = b.amount + amount /\ new.index = b.index /\ new.exclude = less
    <3>. DEFINE sum == b.amount + amount
    <3>1. sum \in Nat /\ new = [b EXCEPT !.amount = sum, !.exclude = less]
      BY <1>1, <2>1
    <3>. HIDE DEF sum, new
    <3>2. new = [amount |-> sum, index |-> b.index, exclude |-> less]
      BY <1>1, <3>1
    <3>. QED
      BY <1>1, <2>2, <3>1, <3>2 DEF sum
  <2>. HIDE DEF new
  <2>5. new \in Squashes
    BY <1>1, <2>3, <2>4 DEF Squashes
  <2>6. Covered(new) = {i \in Nat : i <= b.index /\ i \notin Entries(b.exclude) \ {index}}
    BY <2>3, <2>4, <2>5, CoveredIs
  <2>7. index < b.index
    BY <1>1, <1>3
  <2>8. Covered(new) = Covered(b) \cup {index}
    BY <1>1, <1>2, <2>6, <2>7
  <2>. QED
    BY <2>4, <2>5, <2>8 DEF new
<1>4. CASE ~Contains(b.exclude, index)
  <2>. DEFINE more == Between(b.index + 1, index)
              all == b.exclude \o more
  <2>1. b.index < index /\ b.index \in Nat /\ b.amount \in Nat /\ b.exclude \in Seq(Nat)
    BY <1>1, <1>4 DEF CanSquash
  <2>2. more \in Seq(Nat) /\ Entries(more) = (b.index + 1)..(index - 1)
    <3>1. /\ DOMAIN more = 1..(index - (b.index + 1)) /\ index - (b.index + 1) \in Nat
          /\ \A n \in 1..(index - (b.index + 1)) : more[n] = b.index + n /\ more[n] \in Nat
      BY <2>1 DEF Between
    <3>2. more \in Seq(Nat)
      <4>. DEFINE k == index - (b.index + 1)
      <4>1. more = [n \in 1..k |-> more[n]]
        BY DEF Between
      <4>2. k \in Nat /\ \A n \in 1..k : more[n] \in Nat
        BY <3>1
      <4>. HIDE DEF more, k
      <4>. QED
        BY <4>1, <4>2
    <3>. HIDE DEF more
    <3>3. ASSUME NEW i \in (b.index + 1)..(index - 1) PROVE i \in Entries(more)
      <4>1. i - b.index \in 1..(index - (b.index + 1)) /\ b.index + (i - b.index) = i
        BY <2>1
      <4>. QED
        BY <3>1, <4>1 DEF Entries
    <3>4. \A n \in DOMAIN more : more[n] \in (b.index + 1)..(index - 1)
      BY <2>1, <3>1
    <3>. QED
      BY <3>2, <3>3, <3>4 DEF Entries
  <2>. HIDE DEF more
  <2>3. all \in Seq(Nat) /\ Entries(all) = Entries(b.exclude) \cup Entries(more)
    <3>1. /\ all \in Seq(Nat) /\ DOMAIN all = 1..(Len(b.exclude) + Len(more))
          /\ DOMAIN b.exclude = 1..Len(b.exclude) /\ DOMAIN more = 1..Len(more)
          /\ Len(b.exclude) \in Nat /\ Len(more) \in Nat
          /\ \A n \in 1..Len(b.exclude) : all[n] = b.exclude[n]
          /\ \A n \in 1..Len(more) : all[Len(b.exclude) + n] = more[n]
      BY <2>1, <2>2
    <3>. HIDE DEF all
    <3>2. \A n \in DOMAIN all : n \in 1..Len(b.exclude) \/ n - Len(b.exclude) \in 1..Len(more)
      BY <3>1
    <3>3. \A n \in DOMAIN all : all[n] \in Entries(b.exclude) \cup Entries(more)
      <4>1. ASSUME NEW n \in DOMAIN all PROVE all[n] \in Entries(b.exclude) \cup Entries(more)
        <5>1. CASE n \in 1..Len(b.exclude)
          BY <3>1, <5>1 DEF Entries
        <5>2. CASE n - Len(b.exclude) \in 1..Len(more)
          <6>1. Len(b.exclude) + (n - Len(b.exclude)) = n
            BY <3>1
          <6>2. all[n] = more[n - Len(b.exclude)]
            BY <3>1, <5>2, <6>1
          <6>. QED
            BY <3>1, <5>2, <6>2 DEF Entries
        <5>. QED
          BY <3>2, <5>1, <5>2
      <4>. QED
        BY <4>1
    <3>4. \A n \in DOMAIN b.exclude : b.exclude[n] \in Entries(all)
      BY <3>1 DEF Entries
    <3>5. \A n \in DOMAIN more : more[n] \in Entries(all)
      <4>1. ASSUME NEW n \in 1..Len(more) PROVE more[n] \in Entries(all)
        <5>1. Len(b.exclude) + n \in DOMAIN all
          BY <3>1
        <5>. QED
          BY <3>1, <5>1 DEF Entries
      <4>. QED
        BY <3>1, <4>1
    <3>. QED
      BY <3>1, <3>3, <3>4, <3>5 DEF Entries
  <2>4. new = [amount |-> b.amount + amount, index |-> index, exclude |-> all]
    BY <1>4 DEF SquashedWith, more
  <2>. HIDE DEF all
  <2>5. /\ new \in [amount : Nat, index : Nat, exclude : Seq(Nat)]
        /\ new.amount = b.amount + amount /\ new.index = index /\ new.exclude = all
    BY <2>1, <2>3, <2>4
  <2>. HIDE DEF new
  <2>6. new \in Squashes
    <3>1. \A i \in Entries(all) : i < index
      <4>1. Entries(b.exclude) \subseteq Nat
        BY <2>1, ListEntries DEF Entries
      <4>2. \A i \in Entries(b.exclude) : i < index
        BY <1>1, <2>1, <4>1
      <4>3. \A i \in Entries(more) : i < index
        BY <2>1, <2>2
      <4>. QED
        BY <2>3, <4>2, <4>3
    <3>. QED
      BY <2>5, <3>1 DEF Squashes
  <2>7. Covered(new) = {i \in Nat : i <= index /\ i \notin Entries(b.exclude) \cup (b.index + 1)..(index - 1)}
    BY <2>2, <2>3, <2>5, <2>6, CoveredIs
  <2>8. \A i \in Nat : i \in Covered(new) <=> i \in Covered(b) \/ i = index
    BY <1>1, <1>2, <2>1, <2>7
  <2>9. Covered(new) \subseteq Nat /\ Covered(b) \subseteq Nat
    BY DEF Covered
  <2>. QED
    BY <2>5, <2>6, <2>8, <2>9 DEF new
<1>. QED
  BY <1>3, <1>4

-----------------------------------------------------------------------------
(* Proposals.                                                              *)

\* The step of the fold in Proposal.
ProposalWith(acc, u) ==
    IF acc.ok /\ CanSquash(acc.body, u.index)
    THEN [acc EXCEPT !.body = SquashedWith(@, u.index, u.amount)]
    ELSE [acc EXCEPT !.ok = FALSE]

Proposals == [ok : BOOLEAN, body : Squashes]

\* Bodies of cheques, as far as a squash looks at them.
HaveIndexes(U) == \A u \in U : u.index \in Nat /\ u.amount \in Nat

SquashesOne(new, old, u) ==
    new.ok => /\ old.ok
              /\ new.body.amount = old.body.amount + u.amount
              /\ Covered(new.body) = Covered(old.body) \cup {u.index}

LEMMA ProposalWithKeeps ==
    ASSUME NEW acc \in Proposals, NEW U, HaveIndexes(U), NEW u \in U
    PROVE  /\ ProposalWith(acc, u) \in Proposals
           /\ SquashesOne(ProposalWith(acc, u), acc, u)
<1>. DEFINE body == SquashedWith(acc.body, u.index, u.amount)
<1>1. acc.ok \in BOOLEAN /\ acc.body \in Squashes /\ u.index \in Nat /\ u.amount \in Nat
  BY DEF Proposals, HaveIndexes
<1>2. CASE acc.ok /\ CanSquash(acc.body, u.index)
  <2>1. /\ body \in Squashes /\ body.amount = acc.body.amount + u.amount
        /\ Covered(body) = Covered(acc.body) \cup {u.index}
    BY <1>1, <1>2, SquashedWithCovers
  <2>2. ProposalWith(acc, u) = [acc EXCEPT !.body = body]
    BY <1>2 DEF ProposalWith
  <2>. HIDE DEF body
  <2>3. ProposalWith(acc, u) \in Proposals /\ ProposalWith(acc, u).body = body
    BY <2>1, <2>2 DEF Proposals
  <2>. QED
    BY <1>2, <2>1, <2>3 DEF SquashesOne
<1>3. CASE ~(acc.ok /\ CanSquash(acc.body, u.index))
  <2>1. ProposalWith(acc, u) = [acc EXCEPT !.ok = FALSE]
    BY <1>3 DEF ProposalWith
  <2>2. ProposalWith(acc, u) \in Proposals /\ ~ProposalWith(acc, u).ok
    BY <2>1 DEF Proposals
  <2>. QED
    BY <2>2 DEF SquashesOne
<1>. QED
  BY <1>2, <1>3

\* After k cheques the proposal covers them, for what they are worth.
ProposesFirst(acc, squash, list, w, k) ==
    acc.ok => /\ acc.body.amount = squash.amount + SumOver(1..k, w)
              /\ Covered(acc.body) = Covered(squash) \cup {list[j].index : j \in 1..k}
              /\ k = 0 => acc.body = squash

\* The proposals on the way: what the fold in Proposal goes through.
IsProposalWalk(h, n, receipt) ==
    /\ h[0] = [ok |-> TRUE, body |-> receipt.squash] /\ h[n] = Proposal(receipt)
    /\ \A k \in 0..n : h[k] \in Proposals
    /\ \A k \in 1..n : h[k] = ProposalWith(h[k - 1], Unlockeds(receipt)[k])

LEMMA ProposalSteps ==
    ASSUME NEW U, HaveIndexes(U), NEW receipt, receipt.squash \in Squashes,
           Unlockeds(receipt) \in Seq(U)
    PROVE  \E h : IsProposalWalk(h, Len(Unlockeds(receipt)), receipt)
<1>. DEFINE list == Unlockeds(receipt)
            n == Len(list)
            base == [ok |-> TRUE, body |-> receipt.squash]
            F(iter) == [s \in SUBSET (1..n) |->
                          IF s = {} THEN base
                          ELSE ProposalWith(iter[s \ {Max(s)}], list[Max(s)])]
            step == [q \in Proposals \X (1..n) |-> ProposalWith(q[1], list[q[2]])]
            it == CHOOSE iter : iter = F(iter)
            end == it[1..n]
<1>1. n \in Nat /\ DOMAIN list = 1..n /\ \A k \in 1..n : list[k] \in U
  BY ListEntries
<1>2. Proposal(receipt) = end
  <2>. HIDE DEF n
  <2>. QED
    BY <1>1 DEF Proposal, ProposalWith, FoldLeft, MapThenFoldSet
<1>3. base \in Proposals /\ base.ok /\ base.body = receipt.squash
  BY DEF Proposals
<1>. HIDE DEF base, list, n
<1>4. \A a \in Proposals : \A k \in 1..n : ProposalWith(a, list[k]) \in Proposals
  BY <1>1, ProposalWithKeeps
<1>5. step \in [Proposals \X (1..n) -> Proposals]
  <2>. HIDE DEF Proposals
  <2>. QED
    BY <1>4
<1>6. it = F(it)
  <2>1. PICK walk : IsWalk(walk, n, Proposals, base, step)
    <3>. HIDE DEF step
    <3>. QED
      BY <1>1, <1>3, <1>5, WalkExists
  <2>2. ASSUME NEW s \in SUBSET (1..n), s # {}
        PROVE  walk[s] = ProposalWith(walk[s \ {Max(s)}], list[Max(s)])
    <3>1. Max(s) \in 1..n /\ s \ {Max(s)} \in SUBSET (1..n)
      BY <1>1, <2>2, MaxIsIn
    <3>2. walk[s] = step[<<walk[s \ {Max(s)}], Max(s)>>] /\ walk[s \ {Max(s)}] \in Proposals
      <4>. HIDE DEF step
      <4>. QED
        BY <2>1, <2>2, <3>1 DEF IsWalk
    <3>. QED
      BY <3>1, <3>2
  <2>3. walk = F(walk)
    BY <2>1, <2>2 DEF IsWalk
  <2>. HIDE DEF F
  <2>. QED
    BY <2>3
<1>. HIDE DEF it
<1>7. it[{}] = base
  BY <1>6
<1>8. ASSUME NEW s \in SUBSET (1..n), s # {}, it[s \ {Max(s)}] \in Proposals
      PROVE  it[s] = step[<<it[s \ {Max(s)}], Max(s)>>]
  <2>1. Max(s) \in 1..n
    BY <1>1, <1>8, MaxIsIn
  <2>. QED
    BY <1>6, <1>8, <2>1
<1>9. PICK h : IsHistoryOf(h, it, n, Proposals, base, step)
  <2>1. IsFold(it, n, Proposals, base, step)
    BY <1>7, <1>8 DEF IsFold
  <2>. HIDE DEF step
  <2>. QED
    BY <1>1, <1>3, <1>5, <2>1, FoldIsHistory
<1>10. /\ h[0] = base /\ h[n] = end /\ \A k \in 0..n : h[k] \in Proposals
       /\ \A k \in 1..n : h[k] = ProposalWith(h[k - 1], list[k])
  <2>1. h \in [0..n -> Proposals] /\ h[0] = base /\ h[n] = it[1..n]
        /\ \A k \in 1..n : h[k] = step[<<h[k - 1], k>>]
    <3>. HIDE DEF step
    <3>. QED
      BY <1>9 DEF IsHistoryOf, IsHistory
  <2>2. \A k \in 1..n : k - 1 \in 0..n
    BY <1>1
  <2>3. ASSUME NEW k \in 1..n PROVE h[k] = ProposalWith(h[k - 1], list[k])
    <3>1. <<h[k - 1], k>> \in Proposals \X (1..n)
      BY <2>1, <2>2
    <3>. QED
      BY <2>1, <3>1
  <2>. QED
    BY <2>1, <2>3
<1>. HIDE DEF step, end, F
<1>11. IsProposalWalk(h, n, receipt)
  BY <1>2, <1>10 DEF IsProposalWalk, base, list
<1>. QED
  BY <1>11 DEF n, list

\* A proposal that does not fail covers what the squash covers and every
\* unlocked cheque, and is worth what they are together.
THEOREM ProposalCoversUnlocked ==
    ASSUME NEW U, HaveIndexes(U), NEW receipt, receipt.squash \in Squashes,
           Unlockeds(receipt) \in Seq(U), Proposal(receipt).ok
    PROVE  /\ Proposal(receipt).body \in Squashes
           /\ Proposal(receipt).body.amount = receipt.squash.amount + ListTotal(Unlockeds(receipt))
           /\ Covered(Proposal(receipt).body) =
                 Covered(receipt.squash) \cup {u.index : u \in Entries(Unlockeds(receipt))}
           /\ Unlockeds(receipt) = <<>> => Proposal(receipt).body = receipt.squash
<1>. DEFINE list == Unlockeds(receipt)
            n == Len(list)
            w == [k \in 1..n |-> list[k].amount]
            base == [ok |-> TRUE, body |-> receipt.squash]
            end == Proposal(receipt)
<1>1. n \in Nat /\ DOMAIN list = 1..n /\ \A k \in 1..n : list[k] \in U
  BY ListEntries
<1>3. base.ok /\ base.body = receipt.squash
  OBVIOUS
<1>a. end.ok
  OBVIOUS
<1>9. PICK h : IsProposalWalk(h, n, receipt)
  BY ProposalSteps
<1>10. /\ h[0] = base /\ h[n] = end /\ \A k \in 0..n : h[k] \in Proposals
       /\ \A k \in 1..n : h[k] = ProposalWith(h[k - 1], list[k])
  BY <1>9 DEF IsProposalWalk
<1>. HIDE DEF base, list, n, end
<1>11. IsFiniteSet(1..n) /\ \A k \in 1..n : w[k] = list[k].amount /\ w[k] \in Nat
  BY <1>1, FS_Interval DEF HaveIndexes
<1>. HIDE DEF w
<1>. DEFINE D == {k \in 0..n : ProposesFirst(h[k], receipt.squash, list, w, k)}
<1>12. 0 \in D
  <2>1. 1..0 = {} /\ SumOver({}, w) = 0 /\ receipt.squash.amount \in Nat
    BY <1>11, SumPicks DEF Squashes
  <2>2. {list[j].index : j \in 1..0} = {}
    BY <2>1
  <2>. QED
    BY <1>1, <1>3, <1>10, <2>1, <2>2 DEF ProposesFirst
<1>13. ASSUME NEW k \in 1..n, k - 1 \in D PROVE k \in D
  <2>. DEFINE old == h[k - 1] new == h[k]
  <2>1. ProposesFirst(old, receipt.squash, list, w, k - 1)
    BY <1>13
  <2>2. old \in Proposals /\ list[k] \in U /\ new = ProposalWith(old, list[k]) /\ k # 0
    BY <1>1, <1>10
  <2>. HIDE DEF old, new
  <2>3. ASSUME new.ok PROVE /\ new.body.amount = receipt.squash.amount + SumOver(1..k, w)
                           /\ Covered(new.body) = Covered(receipt.squash) \cup {list[j].index : j \in 1..k}
    <3>1. /\ old.ok /\ new.body.amount = old.body.amount + list[k].amount
          /\ Covered(new.body) = Covered(old.body) \cup {list[k].index}
      <4>1. SquashesOne(ProposalWith(old, list[k]), old, list[k])
        BY <2>2, ProposalWithKeeps
      <4>. QED
        BY <2>2, <2>3, <4>1 DEF SquashesOne
    <3>2. /\ old.body.amount = receipt.squash.amount + SumOver(1..(k - 1), w)
          /\ Covered(old.body) = Covered(receipt.squash) \cup {list[j].index : j \in 1..(k - 1)}
      BY <2>1, <3>1 DEF ProposesFirst
    <3>3. SumOver(1..k, w) = w[k] + SumOver(1..(k - 1), w) /\ SumOver(1..(k - 1), w) \in Nat
      <4>1. 1..k \in SUBSET (1..n) /\ k \in 1..k /\ (1..k) \ {k} = 1..(k - 1) /\ 1..(k - 1) \in SUBSET (1..n)
        BY <1>1
      <4>2. SumOver(1..k, w) = w[k] + SumOver((1..k) \ {k}, w) /\ SumOver(1..(k - 1), w) \in Nat
        BY <1>11, <4>1, SumRemoves, SumType
      <4>. QED
        BY <4>1, <4>2
    <3>4. receipt.squash.amount \in Nat /\ w[k] \in Nat /\ w[k] = list[k].amount
      BY <1>11 DEF Squashes
    <3>5. new.body.amount = receipt.squash.amount + SumOver(1..k, w)
      BY <3>1, <3>2, <3>3, <3>4
    <3>6. {list[j].index : j \in 1..k} = {list[j].index : j \in 1..(k - 1)} \cup {list[k].index}
      BY <1>1
    <3>7. Covered(new.body) = Covered(receipt.squash) \cup {list[j].index : j \in 1..k}
      BY <3>1, <3>2, <3>6
    <3>. QED
      BY <3>5, <3>7
  <2>4. ProposesFirst(new, receipt.squash, list, w, k)
    BY <2>2, <2>3 DEF ProposesFirst
  <2>. QED
    BY <2>4 DEF new
<1>14. \A k \in 0..n : k \in D
  <2>. HIDE DEF D
  <2>. QED
    BY <1>1, <1>12, <1>13, Climb
<1>15. ProposesFirst(end, receipt.squash, list, w, n)
  BY <1>1, <1>10, <1>14
<1>16. end.ok /\ end \in Proposals
  BY <1>1, <1>10, <1>a
<1>17. ListTotal(list) = SumOver(1..n, w)
  BY <1>1, <1>11, ListTotalIsSum
<1>18. {list[j].index : j \in 1..n} = {u.index : u \in Entries(list)}
  BY <1>1 DEF Entries
<1>19. list = <<>> => n = 0
  BY DEF n
<1>. QED
  BY <1>15, <1>16, <1>17, <1>18, <1>19 DEF ProposesFirst, Proposals, list, end

-----------------------------------------------------------------------------
(* A receipt accounts for cheques: it is made from them alone, each is in   *)
(* it or squashed and not both, and none has an index past it.             *)

Numbered(cheques) ==
    /\ Distinct(cheques)
    /\ \A a \in cheques :
          /\ a.index > 0 /\ a.amount > 0 /\ a.latch = Sha2(a.latch[2])
          /\ a = [index |-> a.index, amount |-> a.amount, timeout |-> a.timeout, latch |-> a.latch]

\* A cheque with its secret, and the cheques a receipt may hold.
Disclosed(a) == [a EXCEPT !.latch = @[2]]
Carries(cheques) ==
    [body : cheques, unlocked : {FALSE}] \cup [body : {Disclosed(a) : a \in cheques}, unlocked : {TRUE}]

ListsEach(list, cheques) ==
    /\ list \in Seq(Carries(cheques))
    /\ \A j, k \in DOMAIN list : list[j].body.index = list[k].body.index => j = k
Stands(list, index) == \E n \in DOMAIN list : list[n].body.index = index

Accounts(receipt, cheques) ==
    /\ receipt = [squash |-> receipt.squash, cheques |-> receipt.cheques]
    /\ receipt.squash \in Squashes /\ ListsEach(receipt.cheques, cheques)
    /\ \A n \in DOMAIN receipt.cheques : ~IsIndexSquashed(receipt.squash, receipt.cheques[n].body.index)
    /\ \A a \in cheques : IsIndexSquashed(receipt.squash, a.index) \/ Stands(receipt.cheques, a.index)
    /\ \A a \in cheques : a.index <= MaxIndex(receipt)

\* What a squash covers of the cheques, and what a receipt has unlocked.
CoveredOf(body, cheques) == {a \in cheques : IsIndexSquashed(body, a.index)}
AtPlaces(list, chosen, cheques) == {a \in cheques : \E n \in chosen : list[n].body.index = a.index}
UnlockedPlaces(receipt) == {n \in DOMAIN receipt.cheques : receipt.cheques[n].unlocked}
OpenOf(receipt, cheques) == AtPlaces(receipt.cheques, UnlockedPlaces(receipt), cheques)

\* A squash is worth the cheques it covers, and ends with one of them.
PaysFor(body, cheques) ==
    /\ body \in Squashes
    /\ body.amount = Total(CoveredOf(body, cheques))
    /\ body.index = 0 \/ \E a \in cheques : a.index = body.index

LEMMA NumberedAre ==
    ASSUME NEW cheques, Numbered(cheques), NEW a \in cheques
    PROVE  /\ a.index \in Nat /\ a.amount \in Nat /\ a.index > 0 /\ a.amount > 0
           /\ a.latch = Sha2(a.latch[2])
           /\ a = [index |-> a.index, amount |-> a.amount, timeout |-> a.timeout, latch |-> a.latch]
           /\ \A b \in cheques : b.index = a.index => b = a
  BY DEF Numbered, Distinct

LEMMA DisclosedIs ==
    ASSUME NEW cheques, Numbered(cheques), NEW a \in cheques
    PROVE  /\ Disclosed(a) = [index |-> a.index, amount |-> a.amount,
                             timeout |-> a.timeout, latch |-> a.latch[2]]
           /\ Disclosed(a).index = a.index /\ Disclosed(a).amount = a.amount
           /\ Disclosed(a).latch = a.latch[2]
<1>1. a = [index |-> a.index, amount |-> a.amount, timeout |-> a.timeout, latch |-> a.latch]
  BY NumberedAre
<1>. DEFINE secret == a.latch[2]
<1>2. Disclosed(a) = [a EXCEPT !.latch = secret]
  BY DEF Disclosed
<1>. HIDE DEF secret
<1>3. Disclosed(a) = [index |-> a.index, amount |-> a.amount, timeout |-> a.timeout, latch |-> secret]
  BY <1>1, <1>2
<1>. QED
  BY <1>3 DEF secret

\* A cheque of a receipt is one of those it was made from.
IsOf(c, a) ==
    /\ c = [body |-> c.body, unlocked |-> c.unlocked] /\ c.unlocked \in BOOLEAN
    /\ c.body = IF c.unlocked THEN Disclosed(a) ELSE a
    /\ c.body.index = a.index /\ c.body.amount = a.amount

LEMMA CarriesAre ==
    ASSUME NEW cheques, Numbered(cheques), NEW c \in Carries(cheques)
    PROVE  /\ \E a \in cheques : IsOf(c, a)
           /\ c.body.index \in Nat /\ c.body.amount \in Nat
<1>1. CASE c \in [body : cheques, unlocked : {FALSE}]
  <2>1. c.body \in cheques /\ c.unlocked = FALSE /\ c = [body |-> c.body, unlocked |-> c.unlocked]
    BY <1>1
  <2>2. IsOf(c, c.body)
    BY <2>1 DEF IsOf
  <2>. QED
    BY <2>1, <2>2, NumberedAre
<1>2. CASE c \in [body : {Disclosed(a) : a \in cheques}, unlocked : {TRUE}]
  <2>1. /\ c.body \in {Disclosed(a) : a \in cheques} /\ c.unlocked = TRUE
        /\ c = [body |-> c.body, unlocked |-> c.unlocked]
    BY <1>2
  <2>2. PICK a \in cheques : c.body = Disclosed(a)
    BY <2>1
  <2>3. c.body.index = a.index /\ c.body.amount = a.amount
    BY <2>2, DisclosedIs
  <2>4. IsOf(c, a)
    BY <2>1, <2>2, <2>3 DEF IsOf
  <2>. QED
    BY <2>2, <2>3, <2>4, NumberedAre
<1>. QED
  BY <1>1, <1>2 DEF Carries

LEMMA AccountsIs ==
    ASSUME NEW cheques, Numbered(cheques), NEW receipt, Accounts(receipt, cheques)
    PROVE  /\ receipt = [squash |-> receipt.squash, cheques |-> receipt.cheques]
           /\ receipt.squash \in Squashes /\ receipt.squash.index \in Nat
           /\ receipt.squash.amount \in Nat
           /\ receipt.cheques \in Seq(Carries(cheques))
           /\ Len(receipt.cheques) \in Nat /\ DOMAIN receipt.cheques = 1..Len(receipt.cheques)
           /\ \A n \in DOMAIN receipt.cheques :
                 /\ receipt.cheques[n] \in Carries(cheques)
                 /\ receipt.cheques[n].body.index \in Nat /\ receipt.cheques[n].body.amount \in Nat
<1>1. /\ receipt = [squash |-> receipt.squash, cheques |-> receipt.cheques]
      /\ receipt.squash \in Squashes /\ receipt.cheques \in Seq(Carries(cheques))
  BY DEF Accounts, ListsEach
<1>2. /\ Len(receipt.cheques) \in Nat /\ DOMAIN receipt.cheques = 1..Len(receipt.cheques)
      /\ \A n \in DOMAIN receipt.cheques : receipt.cheques[n] \in Carries(cheques)
  BY <1>1, ListEntries
<1>3. receipt.squash.index \in Nat /\ receipt.squash.amount \in Nat
  BY <1>1 DEF Squashes
<1>. QED
  BY <1>1, <1>2, <1>3, CarriesAre

-----------------------------------------------------------------------------
(* Totals of such cheques.                                                 *)

LEMMA TotalOfBoth ==
    ASSUME NEW E, Distinct(E), NEW A \in SUBSET E, NEW B \in SUBSET E, A \cap B = {}
    PROVE  Total(A \cup B) = Total(A) + Total(B) /\ Total(A) \in Nat /\ Total(B) \in Nat
<1>. DEFINE w == [r \in E |-> r.amount]
<1>1. IsFiniteSet(E) /\ \A r \in E : w[r] \in Nat /\ w[r] = r.amount
  BY DEF Distinct
<1>. HIDE DEF w
<1>2. \A s \in SUBSET E : Total(s) = SumOver(s, w)
  BY <1>1, TotalIsSum
<1>3. SumOver(A \cup B, w) = SumOver(A, w) + SumOver(B, w)
  BY <1>1, SumOfBoth
<1>4. \A s \in SUBSET E : Total(s) \in Nat
  BY <1>1, <1>2, SumType
<1>. QED
  BY <1>2, <1>3, <1>4

LEMMA DistinctPart ==
    ASSUME NEW E, Distinct(E), NEW A \in SUBSET E
    PROVE  Distinct(A)
  BY FS_Subset DEF Distinct

\* A part that is worth no less than the whole is the whole.
LEMMA WorthAll ==
    ASSUME NEW cheques, Numbered(cheques), NEW A \in SUBSET cheques, NEW B \in SUBSET A,
           Total(B) >= Total(A)
    PROVE  B = A
<1>1. Distinct(A)
  BY DistinctPart DEF Numbered
<1>2. ASSUME NEW a \in A \ B PROVE FALSE
  <2>1. /\ Total(B \cup {a}) = Total(B) + a.amount /\ Total(B) \in Nat /\ Total(A) \in Nat
    BY <1>1, TotalAdds
  <2>2. B \cup {a} \in SUBSET A
    BY <1>2
  <2>3. Total(B \cup {a}) <= Total(A)
    BY <1>1, <2>2, TotalAdds
  <2>4. a.amount \in Nat /\ a.amount > 0
    BY NumberedAre
  <2>. QED
    BY <2>1, <2>3, <2>4
<1>. QED
  BY <1>2

\* What is selected from a receipt is worth the cheques it was made from.
LEMMA ListTotalOf ==
    ASSUME NEW cheques, Numbered(cheques), NEW list, ListsEach(list, cheques),
           NEW chosen, chosen \subseteq DOMAIN list
    PROVE  ListTotal(Bodies(EntriesAt(list, chosen))) = Total(AtPlaces(list, chosen, cheques))
<1>. DEFINE w == [n \in DOMAIN list |-> list[n].body.amount]
            v == [a \in cheques |-> a.amount]
            f == [n \in DOMAIN list |-> CHOOSE a \in cheques : a.index = list[n].body.index]
<1>1. /\ list \in Seq(Carries(cheques)) /\ DOMAIN list = 1..Len(list) /\ Len(list) \in Nat
      /\ \A n \in DOMAIN list : list[n] \in Carries(cheques)
      /\ \A j, k \in DOMAIN list : list[j].body.index = list[k].body.index => j = k
  BY ListEntries DEF ListsEach
<1>2. \A c \in Carries(cheques) : c.body.amount \in Nat
  BY CarriesAre
<1>3. ListTotal(Bodies(EntriesAt(list, chosen))) = SumOver(chosen, w)
  <2>1. \A n \in DOMAIN list : w[n] = list[n].body.amount
    OBVIOUS
  <2>. HIDE DEF w
  <2>. QED
    BY <1>1, <1>2, <2>1, SelectedTotal
<1>4. ASSUME NEW n \in DOMAIN list
      PROVE  /\ f[n] \in cheques /\ f[n].index = list[n].body.index /\ f[n].amount = list[n].body.amount
             /\ \A a \in cheques : a.index = list[n].body.index => f[n] = a
  <2>1. PICK a \in cheques : IsOf(list[n], a)
    BY <1>1, CarriesAre
  <2>2. a.index = list[n].body.index /\ a.amount = list[n].body.amount
    BY <2>1 DEF IsOf
  <2>3. f[n] \in cheques /\ f[n].index = list[n].body.index
    BY <2>2
  <2>. HIDE DEF f
  <2>4. \A b \in cheques : b.index = list[n].body.index => f[n] = b
    BY <2>3, NumberedAre
  <2>. QED
    BY <2>2, <2>3, <2>4
<1>5. \A n \in chosen : w[n] = v[f[n]] /\ w[n] \in Nat
  <2>1. ASSUME NEW n \in chosen PROVE w[n] = v[f[n]] /\ w[n] \in Nat
    <3>1. n \in DOMAIN list /\ w[n] = list[n].body.amount /\ list[n].body.amount \in Nat
      BY <1>1, <1>2
    <3>2. f[n] \in cheques /\ f[n].amount = list[n].body.amount
      BY <1>4, <3>1
    <3>. HIDE DEF f, w
    <3>. QED
      BY <3>1, <3>2
  <2>. QED
    BY <2>1
<1>6. \A j, k \in chosen : f[j] = f[k] => j = k
  <2>. HIDE DEF f
  <2>. QED
    BY <1>1, <1>4
<1>7. Image(f, chosen) = AtPlaces(list, chosen, cheques)
  <2>. HIDE DEF f
  <2>1. \A a \in Image(f, chosen) : a \in AtPlaces(list, chosen, cheques)
    BY <1>4 DEF Image, AtPlaces
  <2>2. \A a \in AtPlaces(list, chosen, cheques) : a \in Image(f, chosen)
    BY <1>4 DEF Image, AtPlaces
  <2>. QED
    BY <2>1, <2>2
<1>8. IsFiniteSet(chosen)
  <2>1. IsFiniteSet(DOMAIN list)
    BY <1>1, FS_Interval
  <2>. QED
    BY ONLY <2>1, FS_Subset, chosen \subseteq DOMAIN list
<1>. HIDE DEF f, w
<1>9. SumOver(chosen, w) = SumOver(Image(f, chosen), v)
  BY <1>5, <1>6, <1>8, SumMoved
<1>10. \A a \in AtPlaces(list, chosen, cheques) : v[a] = a.amount
  BY DEF AtPlaces
<1>. HIDE DEF v
<1>11. Total(AtPlaces(list, chosen, cheques)) = SumOver(AtPlaces(list, chosen, cheques), v)
  BY <1>10, TotalIsSum
<1>. QED
  BY <1>3, <1>7, <1>9, <1>11

-----------------------------------------------------------------------------
(* Squashes a receipt takes.                                               *)

\* The cheques of a receipt that a squash covers, and those it leaves.
GonePlaces(receipt, squash) ==
    {n \in DOMAIN receipt.cheques : IsIndexSquashed(squash, receipt.cheques[n].body.index)}
LeftPlaces(receipt, squash) ==
    {n \in DOMAIN receipt.cheques : ~IsIndexSquashed(squash, receipt.cheques[n].body.index)}

LEMMA WithSquashIs ==
    ASSUME NEW receipt, NEW squash
    PROVE  /\ SquashedBy(receipt, squash) = EntriesAt(receipt.cheques, GonePlaces(receipt, squash))
           /\ WithSquash(receipt, squash) =
                 [squash |-> squash, cheques |-> EntriesAt(receipt.cheques, LeftPlaces(receipt, squash))]
<1>. DEFINE list == receipt.cheques
            out == EntriesAt(list, LeftPlaces(receipt, squash))
<1>1. SquashedBy(receipt, squash) = EntriesAt(list, GonePlaces(receipt, squash))
  BY DEF SquashedBy, GonePlaces, Where, The
<1>2. Where(list, LAMBDA c : ~IsIndexSquashed(squash, c.body.index)) = out
  BY DEF LeftPlaces, Where, The
<1>. HIDE DEF out
<1>3. WithSquash(receipt, squash) = [squash |-> squash, cheques |-> out]
  BY <1>2 DEF WithSquash
<1>. QED
  BY <1>1, <1>3 DEF out

\* Squashes are taken by their amount alone.  That is enough: one that pays for
\* what it covers, and for no less than the squash held, covers what that does.
LEMMA TakesCovers ==
    ASSUME NEW cheques, Numbered(cheques), NEW receipt, Accounts(receipt, cheques),
           PaysFor(receipt.squash, cheques), NEW squash, PaysFor(squash, cheques),
           TakesSquash(receipt, squash)
    PROVE  CoveredOf(receipt.squash, cheques) \subseteq CoveredOf(squash, cheques)
<1>. DEFINE held == receipt.squash
            list == receipt.cheques
            gone == GonePlaces(receipt, squash)
            B == CoveredOf(squash, cheques) \cap CoveredOf(held, cheques)
            G == AtPlaces(list, gone, cheques)
<1>1. ListTotal(Bodies(SquashedBy(receipt, squash))) = Total(G)
  <2>1. ListsEach(list, cheques) /\ gone \subseteq DOMAIN list
    BY DEF Accounts, GonePlaces
  <2>2. SquashedBy(receipt, squash) = EntriesAt(list, gone)
    BY WithSquashIs
  <2>. HIDE DEF gone, list
  <2>3. ListTotal(Bodies(EntriesAt(list, gone))) = Total(AtPlaces(list, gone, cheques))
    BY <2>1, ListTotalOf
  <2>. QED
    BY <2>2, <2>3
<1>2. B \cup G = CoveredOf(squash, cheques) /\ B \cap G = {}
  <2>1. \A n \in DOMAIN list : ~IsIndexSquashed(held, list[n].body.index)
    BY DEF Accounts
  <2>2. \A a \in cheques : IsIndexSquashed(held, a.index) \/ \E n \in DOMAIN list : list[n].body.index = a.index
    BY DEF Accounts, Stands
  <2>3. \A a \in G : a \in cheques /\ IsIndexSquashed(squash, a.index) /\ ~IsIndexSquashed(held, a.index)
    BY <2>1 DEF AtPlaces, GonePlaces
  <2>4. ASSUME NEW a \in cheques, IsIndexSquashed(squash, a.index), ~IsIndexSquashed(held, a.index)
        PROVE  a \in G
    BY <2>2, <2>4 DEF AtPlaces, GonePlaces
  <2>. QED
    BY <2>3, <2>4 DEF CoveredOf
<1>3. squash.amount >= held.amount + Total(G)
  BY <1>1 DEF TakesSquash
<1>4. squash.amount = Total(CoveredOf(squash, cheques)) /\ held.amount = Total(CoveredOf(held, cheques))
  BY DEF PaysFor
<1>5. B \in SUBSET cheques /\ G \in SUBSET cheques /\ B \in SUBSET CoveredOf(held, cheques)
      /\ CoveredOf(held, cheques) \in SUBSET cheques
  BY DEF CoveredOf, AtPlaces
<1>. HIDE DEF B, G
<1>6. /\ Total(B \cup G) = Total(B) + Total(G) /\ Total(B) \in Nat /\ Total(G) \in Nat
  <2>1. Distinct(cheques)
    BY DEF Numbered
  <2>. QED
    BY <1>2, <1>5, <2>1, TotalOfBoth
<1>7. held.amount \in Nat
  BY AccountsIs
<1>. HIDE DEF held
<1>8. Total(B) >= Total(CoveredOf(held, cheques))
  BY <1>2, <1>3, <1>4, <1>6, <1>7
<1>9. B = CoveredOf(held, cheques)
  BY <1>5, <1>8, WorthAll
<1>. QED
  BY <1>9 DEF B, held

\* If the last entry of a list is selected it is the last selected.
LEMMA LastSelected ==
    ASSUME NEW T, NEW list \in Seq(T), NEW chosen, Len(list) \in chosen, list # <<>>
    PROVE  LET out == EntriesAt(list, chosen) IN out # <<>> /\ Last(out) = Last(list)
<1>. DEFINE out == EntriesAt(list, chosen)
            n == Len(list)
            m == Len(out)
<1>1. PICK places : IsSelection(out, list, chosen, n, places)
  BY EntriesAtSelects DEF Selects
<1>2. n \in 1..n /\ n \in Nat
  OBVIOUS
<1>3. m \in Nat /\ (m # 0 => out # <<>>)
  BY EntriesAtSelects
<1>. HIDE DEF out, n, m
<1>4. PICK k \in 1..m : places[k] = n
  BY <1>1, <1>2 DEF IsSelection, n, m
<1>5. m \in 1..m /\ places[m] \in 1..n /\ out[m] = list[places[m]]
  BY <1>1, <1>3, <1>4 DEF IsSelection, m
<1>6. places[m] = n
  <2>1. ASSUME k < m PROVE FALSE
    <3>1. places[k] < places[m]
      BY <1>1, <1>5, <2>1 DEF IsSelection, m
    <3>. QED
      BY <1>2, <1>4, <1>5, <3>1
  <2>2. k = m
    BY <1>3, <1>4, <2>1
  <2>. QED
    BY <1>4, <2>2
<1>. QED
  BY <1>3, <1>5, <1>6 DEF Last, n, m, out

LEMMA MaxIndexAt ==
    ASSUME NEW cheques, Numbered(cheques), NEW receipt, Accounts(receipt, cheques)
    PROVE  /\ MaxIndex(receipt) \in Nat /\ receipt.squash.index <= MaxIndex(receipt)
           /\ receipt.cheques # <<>> => Last(receipt.cheques).body.index <= MaxIndex(receipt)
           /\ \/ MaxIndex(receipt) = receipt.squash.index
              \/ receipt.cheques # <<>> /\ MaxIndex(receipt) = Last(receipt.cheques).body.index
<1>. DEFINE list == receipt.cheques
            at == receipt.squash.index
            last == IF list = <<>> THEN 0 ELSE Last(list).body.index
<1>1. MaxIndex(receipt) = Greatest(at, last)
  BY DEF MaxIndex
<1>2. at \in Nat /\ list \in Seq(Carries(cheques))
  BY AccountsIs
<1>3. list # <<>> => Last(list).body.index \in Nat
  <2>1. ASSUME list # <<>> PROVE Last(list) = list[Len(list)] /\ Len(list) \in DOMAIN list
    BY <1>2, <2>1 DEF Last
  <2>. HIDE DEF list
  <2>. QED
    BY <2>1, AccountsIs DEF list
<1>4. last \in Nat
  BY <1>3
<1>5. list = <<>> => last = 0
  OBVIOUS
<1>6. list # <<>> => last = Last(list).body.index
  OBVIOUS
<1>. HIDE DEF list, at, last
<1>7. /\ Greatest(at, last) \in Nat /\ at <= Greatest(at, last) /\ last <= Greatest(at, last)
      /\ Greatest(at, last) = at \/ (Greatest(at, last) = last /\ last # 0)
  BY <1>2, <1>4 DEF Greatest
<1>. QED
  BY <1>1, <1>5, <1>6, <1>7 DEF list, at

-----------------------------------------------------------------------------
(* What an operation of the receipt makes of it.                           *)

LEMMA SeqOver ==
    ASSUME NEW S, NEW T, NEW list \in Seq(S), \A k \in DOMAIN list : list[k] \in T
    PROVE  list \in Seq(T)
<1>1. Len(list) \in Nat /\ DOMAIN list = 1..Len(list) /\ \A k \in 1..Len(list) : list[k] \in T
  BY ListEntries
<1>2. list = [k \in 1..Len(list) |-> list[k]]
  OBVIOUS
<1>. QED
  BY <1>1, <1>2

LEMMA SeqGrows ==
    ASSUME NEW S, NEW T, S \subseteq T, NEW list \in Seq(S)
    PROVE  list \in Seq(T)
<1>1. \A k \in DOMAIN list : list[k] \in T
  BY ListEntries
<1>. QED
  BY <1>1, SeqOver

LEMMA CoveredBelow ==
    ASSUME NEW squash \in Squashes, NEW index \in Nat, IsIndexSquashed(squash, index)
    PROVE  index <= squash.index /\ squash.index \in Nat
  BY DEF IsIndexSquashed, Squashes

LEMMA SquashedAccounts ==
    ASSUME NEW cheques, Numbered(cheques), NEW receipt, Accounts(receipt, cheques),
           PaysFor(receipt.squash, cheques), NEW squash, PaysFor(squash, cheques),
           TakesSquash(receipt, squash)
    PROVE  /\ Accounts(WithSquash(receipt, squash), cheques)
           /\ WithSquash(receipt, squash).squash = squash
           /\ OpenOf(WithSquash(receipt, squash), cheques) \subseteq OpenOf(receipt, cheques)
           /\ Entries(WithSquash(receipt, squash).cheques) \subseteq Entries(receipt.cheques)
<1>. DEFINE new == WithSquash(receipt, squash)
            held == receipt.squash
            list == receipt.cheques
            left == LeftPlaces(receipt, squash)
            out == EntriesAt(list, left)
<1>1. new = [squash |-> squash, cheques |-> out]
  BY WithSquashIs
<1>2. new.squash = squash /\ new.cheques = out /\ squash \in Squashes /\ squash.index \in Nat
  BY <1>1 DEF PaysFor, Squashes
<1>3. /\ list \in Seq(Carries(cheques)) /\ Len(list) \in Nat /\ DOMAIN list = 1..Len(list)
      /\ \A j, k \in DOMAIN list : list[j].body.index = list[k].body.index => j = k
      /\ \A n \in DOMAIN list : list[n].body.index \in Nat
      /\ left \subseteq DOMAIN list
  BY AccountsIs DEF Accounts, ListsEach, LeftPlaces
<1>4. PICK places : IsSelection(out, list, left, Len(list), places)
  BY <1>3, EntriesAtSelects DEF Selects
<1>5. out \in Seq(Carries(cheques)) /\ Entries(out) = {list[n] : n \in left}
  BY <1>3, EntriesAtSelects, EntriesAtAre
<1>6. Len(out) \in Nat /\ DOMAIN out = 1..Len(out)
  BY <1>5, ListEntries
<1>a. \A n \in DOMAIN list : n \in left <=> ~IsIndexSquashed(squash, list[n].body.index)
  BY DEF LeftPlaces
<1>. HIDE DEF out, left, new
<1>7. \A k \in DOMAIN out : places[k] \in left /\ places[k] \in DOMAIN list /\ out[k] = list[places[k]]
  BY <1>3, <1>4, <1>6 DEF IsSelection
<1>8. ListsEach(out, cheques)
  <2>1. ASSUME NEW j \in DOMAIN out, NEW k \in DOMAIN out, out[j].body.index = out[k].body.index
        PROVE  j = k
    <3>1. places[j] = places[k]
      BY <1>3, <1>7, <2>1
    <3>2. ~(j < k) /\ ~(k < j)
      <4>1. places[j] \in 1..Len(list) /\ j \in 1..Len(out) /\ k \in 1..Len(out)
        BY <1>3, <1>6, <1>7, <2>1
      <4>. QED
        BY <1>4, <3>1, <4>1 DEF IsSelection
    <3>. QED
      BY <1>6, <3>2
  <2>. QED
    BY <1>5, <2>1 DEF ListsEach
<1>9. \A k \in DOMAIN out : ~IsIndexSquashed(squash, out[k].body.index)
  BY <1>7, <1>a
<1>10. ASSUME NEW a \in cheques, ~IsIndexSquashed(squash, a.index)
       PROVE  Stands(out, a.index)
  <2>1. ~IsIndexSquashed(held, a.index)
    BY <1>10, TakesCovers DEF CoveredOf
  <2>2. PICK n \in DOMAIN list : list[n].body.index = a.index
    BY <2>1 DEF Accounts, Stands
  <2>3. list[n] \in Entries(out)
    BY <1>5, <1>10, <1>a, <2>2
  <2>. QED
    BY <2>2, <2>3 DEF Entries, Stands
<1>11. held.index <= squash.index /\ held.index \in Nat
  <2>1. held.index \in Nat
    BY AccountsIs
  <2>2. ASSUME NEW a \in cheques, a.index = held.index PROVE held.index <= squash.index
    <3>1. a \in CoveredOf(held, cheques)
      BY <2>2 DEF CoveredOf, IsIndexSquashed
    <3>2. IsIndexSquashed(squash, a.index) /\ a.index \in Nat
      BY <3>1, TakesCovers, NumberedAre DEF CoveredOf
    <3>. QED
      BY <1>2, <2>2, <3>2, CoveredBelow
  <2>. QED
    BY <1>2, <2>1, <2>2 DEF PaysFor
<1>12. /\ squash.index <= MaxIndex(new) /\ MaxIndex(new) \in Nat
       /\ out # <<>> => Last(out).body.index <= MaxIndex(new)
  <2>. DEFINE last == IF out = <<>> THEN 0 ELSE Last(out).body.index
  <2>1. MaxIndex(new) = Greatest(squash.index, last)
    BY <1>2 DEF MaxIndex
  <2>2. last \in Nat
    <3>1. ASSUME out # <<>> PROVE Last(out).body.index \in Nat
      <4>1. Len(out) \in DOMAIN out /\ Last(out) = out[Len(out)]
        BY <1>5, <1>6, <3>1 DEF Last
      <4>. QED
        BY <1>3, <1>7, <4>1
    <3>. QED
      BY <3>1
  <2>3. out # <<>> => last = Last(out).body.index
    OBVIOUS
  <2>. HIDE DEF last
  <2>. QED
    BY <1>2, <2>1, <2>2, <2>3 DEF Greatest
<1>13. MaxIndex(receipt) <= MaxIndex(new) /\ MaxIndex(receipt) \in Nat
  <2>1. MaxIndex(receipt) \in Nat
    BY MaxIndexAt
  <2>2. CASE MaxIndex(receipt) = held.index
    BY <1>2, <1>11, <1>12, <2>2
  <2>3. CASE list # <<>> /\ MaxIndex(receipt) = Last(list).body.index
    <3>1. Len(list) \in DOMAIN list /\ Last(list) = list[Len(list)]
      BY <1>3, <2>3 DEF Last
    <3>2. CASE Len(list) \in left
      <4>1. out # <<>> /\ Last(out) = Last(list)
        BY <1>3, <2>3, <3>2, LastSelected DEF out
      <4>2. Last(list).body.index <= MaxIndex(new)
        BY <1>12, <4>1
      <4>. QED
        BY <2>1, <2>3, <4>2
    <3>3. CASE Len(list) \notin left
      <4>1. MaxIndex(receipt) <= squash.index
        BY <1>2, <1>3, <1>a, <2>3, <3>1, <3>3, CoveredBelow
      <4>. QED
        BY <1>2, <1>12, <2>1, <4>1
    <3>. QED
      BY <3>2, <3>3
  <2>. QED
    BY <2>1, <2>2, <2>3, MaxIndexAt
<1>14. \A a \in cheques : a.index <= MaxIndex(new)
  <2>1. \A a \in cheques : a.index \in Nat /\ a.index <= MaxIndex(receipt)
    BY NumberedAre DEF Accounts
  <2>. QED
    BY <1>12, <1>13, <2>1
<1>15. Accounts(new, cheques)
  BY <1>1, <1>2, <1>8, <1>9, <1>10, <1>14 DEF Accounts
<1>16. OpenOf(new, cheques) \subseteq OpenOf(receipt, cheques)
  BY <1>2, <1>7 DEF OpenOf, AtPlaces, UnlockedPlaces
<1>17. Entries(out) \subseteq Entries(list)
  BY <1>3, <1>5 DEF Entries
<1>18. Entries(new.cheques) \subseteq Entries(receipt.cheques) /\ new.squash = squash
  BY ONLY <1>2, <1>17
<1>. QED
  BY ONLY <1>15, <1>16, <1>18 DEF new

\* A new cheque has an index that no squash signed so far covers.
LEMMA NotCovered ==
    ASSUME NEW cheques, Numbered(cheques), NEW receipt, Accounts(receipt, cheques),
           NEW body, PaysFor(body, cheques), NEW index \in Nat, index > MaxIndex(receipt)
    PROVE  ~IsIndexSquashed(body, index)
<1>1. body \in Squashes /\ body.index \in Nat /\ MaxIndex(receipt) \in Nat
  BY MaxIndexAt DEF PaysFor, Squashes
<1>2. body.index <= MaxIndex(receipt)
  <2>1. \A a \in cheques : a.index <= MaxIndex(receipt)
    BY DEF Accounts
  <2>. QED
    BY <1>1, <2>1 DEF PaysFor
<1>. QED
  BY <1>1, <1>2, CoveredBelow

LEMMA NewPays ==
    ASSUME NEW cheques, Numbered(cheques), NEW receipt, Accounts(receipt, cheques),
           NEW locked, locked.index \in Nat, locked.index > MaxIndex(receipt),
           NEW body, PaysFor(body, cheques)
    PROVE  /\ PaysFor(body, cheques \cup {locked})
           /\ CoveredOf(body, cheques \cup {locked}) = CoveredOf(body, cheques)
<1>1. ~IsIndexSquashed(body, locked.index)
  BY NotCovered
<1>2. CoveredOf(body, cheques \cup {locked}) = CoveredOf(body, cheques)
  BY <1>1 DEF CoveredOf
<1>. QED
  BY <1>2 DEF PaysFor

LEMMA LockedAccounts ==
    ASSUME NEW cheques, Numbered(cheques), NEW receipt, Accounts(receipt, cheques),
           PaysFor(receipt.squash, cheques),
           NEW locked, locked.index = MaxIndex(receipt) + 1,
           locked.amount \in Nat, locked.amount > 0, locked.latch = Sha2(locked.latch[2]),
           locked = [index |-> locked.index, amount |-> locked.amount,
                     timeout |-> locked.timeout, latch |-> locked.latch]
    PROVE  LET new == WithLocked(receipt, locked) all == cheques \cup {locked}
           IN  /\ Numbered(all) /\ Accounts(new, all) /\ new.squash = receipt.squash
               /\ OpenOf(new, all) = OpenOf(receipt, cheques)
               /\ Entries(new.cheques) = Entries(receipt.cheques) \cup {[body |-> locked, unlocked |-> FALSE]}
<1>. DEFINE new == WithLocked(receipt, locked)
            all == cheques \cup {locked}
            list == receipt.cheques
            c == [body |-> locked, unlocked |-> FALSE]
            out == Append(list, c)
            n == Len(list)
<1>1. /\ MaxIndex(receipt) \in Nat /\ receipt.squash.index <= MaxIndex(receipt)
      /\ \A a \in cheques : a.index <= MaxIndex(receipt) /\ a.index \in Nat
  BY MaxIndexAt, NumberedAre DEF Accounts
<1>2. locked.index \in Nat /\ locked.index > 0 /\ locked.index > MaxIndex(receipt)
      /\ \A a \in cheques : a.index # locked.index
  BY <1>1
<1>3. Numbered(all)
  <2>1. IsFiniteSet(all)
    BY FS_AddElement DEF Numbered, Distinct
  <2>2. Distinct(all)
    BY <1>2, <2>1 DEF Numbered, Distinct
  <2>. QED
    BY <1>2, <2>2 DEF Numbered
<1>4. /\ new = [squash |-> receipt.squash, cheques |-> out]
      /\ receipt.squash \in Squashes
  <2>1. WithLocked(receipt, locked) = [receipt EXCEPT !.cheques = out]
    BY DEF WithLocked
  <2>2. receipt = [squash |-> receipt.squash, cheques |-> receipt.cheques] /\ receipt.squash \in Squashes
    BY DEF Accounts
  <2>. HIDE DEF out
  <2>. QED
    BY ONLY <2>1, <2>2
<1>5. /\ list \in Seq(Carries(cheques)) /\ n \in Nat /\ DOMAIN list = 1..n
      /\ \A k \in DOMAIN list : list[k] \in Carries(cheques) /\ list[k].body.index \in Nat
      /\ \A j, k \in DOMAIN list : list[j].body.index = list[k].body.index => j = k
  BY AccountsIs DEF Accounts, ListsEach
<1>6. c \in Carries(all) /\ Carries(cheques) \subseteq Carries(all)
  BY DEF Carries
<1>7. c.body = locked /\ c.unlocked = FALSE
  OBVIOUS
<1>. HIDE DEF c
<1>8. /\ out \in Seq(Carries(all)) /\ DOMAIN out = 1..(n + 1) /\ out # <<>>
      /\ out[n + 1] = c /\ Last(out) = c /\ \A k \in 1..n : out[k] = list[k]
  <2>1. list \in Seq(Carries(all))
    <3>1. \A k \in DOMAIN list : list[k] \in Carries(all)
      BY <1>5, <1>6
    <3>. QED
      BY ONLY <1>5, <3>1, SeqOver
  <2>. HIDE DEF list
  <2>. QED
    BY <1>5, <1>6, <2>1 DEF Last
<1>. HIDE DEF out, list, n, new, all
<1>9. \A k \in 1..n : list[k].body.index # locked.index
  <2>1. ASSUME NEW k \in 1..n PROVE list[k].body.index # locked.index
    <3>1. PICK a \in cheques : IsOf(list[k], a)
      BY <1>5, <2>1, CarriesAre
    <3>. QED
      BY <1>2, <3>1 DEF IsOf
  <2>. QED
    BY <2>1
<1>a. \A k \in 1..(n + 1) : k \in 1..n \/ k = n + 1
  BY <1>5
<1>10. ListsEach(out, all)
  <2>1. ASSUME NEW j \in DOMAIN out, NEW k \in DOMAIN out, out[j].body.index = out[k].body.index
        PROVE  j = k
    BY <1>5, <1>7, <1>8, <1>9, <1>a, <2>1
  <2>. QED
    BY <1>8, <2>1 DEF ListsEach
<1>11. ~IsIndexSquashed(receipt.squash, locked.index)
  BY <1>2, NotCovered
<1>12. \A k \in DOMAIN out : ~IsIndexSquashed(receipt.squash, out[k].body.index)
  <2>1. \A k \in 1..n : ~IsIndexSquashed(receipt.squash, list[k].body.index)
    BY <1>5 DEF Accounts, list
  <2>. QED
    BY <1>7, <1>8, <1>11, <1>a, <2>1
<1>13. \A a \in all : IsIndexSquashed(receipt.squash, a.index) \/ Stands(out, a.index)
  <2>1. n + 1 \in DOMAIN out /\ \A k \in DOMAIN list : k \in DOMAIN out /\ out[k] = list[k]
    BY <1>5, <1>8
  <2>2. Stands(out, locked.index)
    BY <1>7, <1>8, <2>1 DEF Stands
  <2>3. \A a \in cheques : IsIndexSquashed(receipt.squash, a.index) \/ Stands(list, a.index)
    BY DEF Accounts, list
  <2>4. \A a \in cheques : IsIndexSquashed(receipt.squash, a.index) \/ Stands(out, a.index)
    BY <2>1, <2>3 DEF Stands
  <2>. QED
    BY <2>2, <2>4 DEF all
<1>14. MaxIndex(new) = locked.index
  <2>1. MaxIndex(new) = Greatest(receipt.squash.index, locked.index)
    BY <1>4, <1>7, <1>8 DEF MaxIndex
  <2>. QED
    BY <1>1, <1>2, <2>1, AccountsIs DEF Greatest
<1>15. \A a \in all : a.index <= MaxIndex(new)
  <2>1. \A a \in cheques : a.index <= locked.index
    BY <1>1, <1>2
  <2>. QED
    BY <1>2, <1>14, <2>1 DEF all
<1>16. Accounts(new, all)
  BY <1>4, <1>10, <1>12, <1>13, <1>15 DEF Accounts
<1>17. OpenOf(new, all) = OpenOf(receipt, cheques)
  <2>1. UnlockedPlaces(new) = UnlockedPlaces(receipt)
    <3>1. \A k : k \in UnlockedPlaces(new) <=> k \in DOMAIN out /\ out[k].unlocked
      BY <1>4 DEF UnlockedPlaces
    <3>2. \A k : k \in UnlockedPlaces(receipt) <=> k \in DOMAIN list /\ list[k].unlocked
      BY DEF UnlockedPlaces, list
    <3>3. \A k \in DOMAIN out : out[k].unlocked => k \in DOMAIN list
      BY <1>5, <1>7, <1>8, <1>a
    <3>4. \A k \in DOMAIN list : k \in DOMAIN out /\ out[k] = list[k]
      BY <1>5, <1>8
    <3>. QED
      BY <3>1, <3>2, <3>3, <3>4
  <2>2. \A k \in UnlockedPlaces(receipt) : k \in 1..n /\ out[k] = list[k] /\ list[k].body.index # locked.index
    BY <1>5, <1>8, <1>9 DEF UnlockedPlaces, list
  <2>3. new.cheques = out
    BY <1>4
  <2>. QED
    BY <2>1, <2>2, <2>3 DEF OpenOf, AtPlaces, list, all
<1>18. Entries(out) = Entries(list) \cup {c}
  <2>1. \A k \in DOMAIN out : out[k] \in Entries(list) \cup {c}
    BY <1>5, <1>8, <1>a DEF Entries
  <2>2. c \in Entries(out) /\ \A k \in DOMAIN list : list[k] \in Entries(out)
    BY <1>5, <1>8 DEF Entries
  <2>. QED
    BY <2>1, <2>2 DEF Entries
<1>. QED
  BY <1>3, <1>4, <1>16, <1>17, <1>18 DEF new, all, list, c

\* The cheques a receipt holds locked.
LockedOf(receipt) ==
    {receipt.cheques[n].body : n \in {m \in DOMAIN receipt.cheques : ~receipt.cheques[m].unlocked}}

\* What a secret makes of a cheque.
OpenedBy(c, secret) ==
    IF Opens(c, secret) THEN [body |-> [c.body EXCEPT !.latch = secret], unlocked |-> TRUE] ELSE c

LEMMA OpenedCarried ==
    ASSUME NEW cheques, Numbered(cheques), NEW c \in Carries(cheques), NEW secret
    PROVE  /\ OpenedBy(c, secret) \in Carries(cheques)
           /\ OpenedBy(c, secret).body.index = c.body.index
           /\ ~OpenedBy(c, secret).unlocked => OpenedBy(c, secret) = c
           /\ OpenedBy(c, secret).unlocked =>
                 c.unlocked \/ \A a \in cheques : a.index = c.body.index => a.latch = Sha2(secret)
<1>1. CASE ~Opens(c, secret)
  <2>1. OpenedBy(c, secret) = c
    BY <1>1 DEF OpenedBy
  <2>. QED
    BY <2>1
<1>2. CASE Opens(c, secret)
  <2>1. PICK a \in cheques : IsOf(c, a)
    BY CarriesAre
  <2>2. ~c.unlocked /\ c.body = a /\ a.latch = Sha2(secret)
    BY <1>2, <2>1 DEF IsOf, Opens
  <2>3. a.latch[2] = secret
    BY <2>2 DEF Sha2
  <2>4. [a EXCEPT !.latch = secret] = Disclosed(a)
    BY <2>3 DEF Disclosed
  <2>5. OpenedBy(c, secret) = [body |-> Disclosed(a), unlocked |-> TRUE]
    BY <1>2, <2>2, <2>4 DEF OpenedBy
  <2>6. Disclosed(a).index = a.index
    BY DisclosedIs
  <2>7. OpenedBy(c, secret) \in Carries(cheques)
    BY <2>5 DEF Carries
  <2>8. \A b \in cheques : b.index = a.index => b = a
    BY NumberedAre
  <2>. QED
    BY <2>2, <2>5, <2>6, <2>7, <2>8
<1>. QED
  BY <1>1, <1>2

\* A secret opens cheques of its lock, and moves none.
LEMMA SecretAccounts ==
    ASSUME NEW cheques, Numbered(cheques), NEW receipt, Accounts(receipt, cheques), NEW secret
    PROVE  /\ Accounts(WithSecretOf(receipt, secret), cheques)
           /\ WithSecretOf(receipt, secret).squash = receipt.squash
           /\ \A a \in OpenOf(WithSecretOf(receipt, secret), cheques) :
                 a \in OpenOf(receipt, cheques) \/ a.latch = Sha2(secret)
           /\ LockedOf(WithSecretOf(receipt, secret)) \subseteq LockedOf(receipt)
<1>. DEFINE new == WithSecretOf(receipt, secret)
            list == receipt.cheques
            out == [n \in DOMAIN list |-> OpenedBy(list[n], secret)]
<1>1. new = [squash |-> receipt.squash, cheques |-> out]
  <2>1. new = [receipt EXCEPT !.cheques = out]
    BY DEF WithSecretOf, OpenedBy
  <2>2. receipt = [squash |-> receipt.squash, cheques |-> receipt.cheques]
    BY DEF Accounts
  <2>. HIDE DEF out, new
  <2>. QED
    BY ONLY <2>1, <2>2
<1>2. new.squash = receipt.squash /\ new.cheques = out
  BY <1>1
<1>3. /\ list \in Seq(Carries(cheques)) /\ Len(list) \in Nat /\ DOMAIN list = 1..Len(list)
      /\ \A n \in DOMAIN list : list[n] \in Carries(cheques)
      /\ \A j, k \in DOMAIN list : list[j].body.index = list[k].body.index => j = k
  BY AccountsIs DEF Accounts, ListsEach
<1>4. DOMAIN out = DOMAIN list /\ \A n \in DOMAIN list : out[n] = OpenedBy(list[n], secret)
  OBVIOUS
<1>5. \A n \in DOMAIN list : /\ out[n] \in Carries(cheques)
                             /\ out[n].body.index = list[n].body.index
                             /\ ~out[n].unlocked => out[n] = list[n]
                             /\ out[n].unlocked =>
                                   list[n].unlocked \/ \A a \in cheques : a.index = list[n].body.index => a.latch = Sha2(secret)
  <2>1. ASSUME NEW n \in DOMAIN list
        PROVE  /\ out[n] \in Carries(cheques)
               /\ out[n].body.index = list[n].body.index
               /\ ~out[n].unlocked => out[n] = list[n]
               /\ out[n].unlocked =>
                     list[n].unlocked \/ \A a \in cheques : a.index = list[n].body.index => a.latch = Sha2(secret)
    <3>1. list[n] \in Carries(cheques) /\ out[n] = OpenedBy(list[n], secret)
      BY <1>3, <1>4
    <3>. HIDE DEF out, list
    <3>. QED
      BY <3>1, OpenedCarried
  <2>. QED
    BY <2>1
<1>6. out \in Seq(Carries(cheques)) /\ Len(out) = Len(list)
  <2>1. out \in [1..Len(list) -> Carries(cheques)]
    BY <1>3, <1>5
  <2>. HIDE DEF out
  <2>. QED
    BY <1>3, <2>1
<1>. HIDE DEF out, new
<1>7. ListsEach(out, cheques)
  BY <1>3, <1>4, <1>5, <1>6 DEF ListsEach
<1>8. MaxIndex(new) = MaxIndex(receipt)
  <2>1. out = <<>> <=> list = <<>>
    BY <1>3, <1>6
  <2>2. ASSUME list # <<>> PROVE Last(out).body.index = Last(list).body.index
    <3>1. Len(list) \in DOMAIN list
      BY <1>3, <2>2
    <3>2. Last(out) = out[Len(list)] /\ Last(list) = list[Len(list)]
      BY <1>6 DEF Last
    <3>. QED
      BY <1>5, <3>1, <3>2
  <2>. QED
    BY <1>2, <2>1, <2>2 DEF MaxIndex
<1>9. Accounts(new, cheques)
  <2>1. \A n \in DOMAIN out : ~IsIndexSquashed(receipt.squash, out[n].body.index)
    BY <1>4, <1>5 DEF Accounts
  <2>2. \A a \in cheques : Stands(list, a.index) => Stands(out, a.index)
    BY <1>4, <1>5 DEF Stands
  <2>3. \A a \in cheques : IsIndexSquashed(receipt.squash, a.index) \/ Stands(out, a.index)
    BY <2>2 DEF Accounts
  <2>4. receipt.squash \in Squashes /\ \A a \in cheques : a.index <= MaxIndex(new)
    BY <1>8 DEF Accounts
  <2>. QED
    BY <1>1, <1>2, <1>7, <2>1, <2>3, <2>4 DEF Accounts
<1>10. ASSUME NEW a \in OpenOf(new, cheques)
       PROVE  a \in OpenOf(receipt, cheques) \/ a.latch = Sha2(secret)
  <2>1. PICK n \in DOMAIN out : out[n].unlocked /\ out[n].body.index = a.index /\ a \in cheques
    BY <1>2, <1>10 DEF OpenOf, AtPlaces, UnlockedPlaces
  <2>2. n \in DOMAIN list /\ list[n].body.index = a.index
    BY <1>4, <1>5, <2>1
  <2>3. list[n].unlocked => a \in OpenOf(receipt, cheques)
    BY <2>1, <2>2 DEF OpenOf, AtPlaces, UnlockedPlaces
  <2>. QED
    BY <1>5, <2>1, <2>2, <2>3
<1>11. LockedOf(new) \subseteq LockedOf(receipt)
  <2>1. ASSUME NEW b \in LockedOf(new) PROVE b \in LockedOf(receipt)
    <3>1. PICK n \in DOMAIN out : ~out[n].unlocked /\ out[n].body = b
      BY <1>2 DEF LockedOf
    <3>2. n \in DOMAIN list /\ ~list[n].unlocked /\ list[n].body = b
      BY <1>4, <1>5, <3>1
    <3>. QED
      BY <3>2 DEF LockedOf
  <2>. QED
    BY <2>1
<1>. QED
  BY <1>2, <1>9, <1>10, <1>11 DEF new

\* A receipt begins with a squash, and no cheque.
LEMMA NewAccounts ==
    ASSUME NEW squash, PaysFor(squash, {})
    PROVE  /\ Accounts(NewReceipt(squash), {}) /\ NewReceipt(squash).squash = squash
           /\ OpenOf(NewReceipt(squash), {}) = {} /\ LockedOf(NewReceipt(squash)) = {}
<1>1. squash \in Squashes
  BY DEF PaysFor
<1>2. /\ NewReceipt(squash) = [squash |-> squash, cheques |-> <<>>]
      /\ NewReceipt(squash).squash = squash /\ NewReceipt(squash).cheques = <<>>
  BY DEF NewReceipt
<1>3. DOMAIN <<>> = {} /\ <<>> \in Seq(Carries({}))
  OBVIOUS
<1>4. Accounts(NewReceipt(squash), {})
  BY <1>1, <1>2, <1>3 DEF Accounts, ListsEach
<1>. QED
  BY <1>2, <1>3, <1>4 DEF OpenOf, AtPlaces, LockedOf

\* A selection has each cheque once, and is no longer than the list.
LEMMA SelectedEach ==
    ASSUME NEW cheques, NEW list, ListsEach(list, cheques), NEW chosen
    PROVE  /\ ListsEach(EntriesAt(list, chosen), cheques)
           /\ Len(EntriesAt(list, chosen)) <= Len(list)
<1>. DEFINE out == EntriesAt(list, chosen)
            m == Len(out)
            n == Len(list)
<1>1. list \in Seq(Carries(cheques)) /\ \A j, k \in DOMAIN list : list[j].body.index = list[k].body.index => j = k
  BY DEF ListsEach
<1>2. out \in Seq(Carries(cheques)) /\ Selects(out, list, chosen, n)
  BY <1>1, EntriesAtSelects
<1>3. PICK places : IsSelection(out, list, chosen, n, places)
  BY <1>2 DEF Selects
<1>. HIDE DEF out
<1>4. m \in Nat /\ DOMAIN out = 1..m /\ n \in Nat /\ DOMAIN list = 1..n
  BY <1>1, <1>2, ListEntries
<1>5. \A k \in 1..m : places[k] \in 1..n /\ out[k] = list[places[k]]
  BY <1>3 DEF IsSelection
<1>6. ASSUME NEW j \in 1..m, NEW k \in 1..m, places[j] = places[k] PROVE j = k
  <2>1. ~(j < k) /\ ~(k < j)
    BY <1>3, <1>5, <1>6 DEF IsSelection
  <2>. QED
    BY <1>4, <2>1
<1>7. ASSUME NEW j \in DOMAIN out, NEW k \in DOMAIN out, out[j].body.index = out[k].body.index PROVE j = k
  <2>1. list[places[j]].body.index = list[places[k]].body.index /\ places[j] \in DOMAIN list /\ places[k] \in DOMAIN list
    BY <1>4, <1>5, <1>7
  <2>2. places[j] = places[k]
    BY <1>1, <2>1
  <2>. QED
    BY <1>4, <1>6, <2>2
<1>8. m <= n
  BY <1>4, <1>5, <1>6, NoMore
<1>. QED
  BY <1>2, <1>7, <1>8 DEF ListsEach, out

\* The unlocked cheques, each once, are those of OpenOf with their secrets.
LEMMA UnlockedsAre ==
    ASSUME NEW cheques, Numbered(cheques), NEW receipt, Accounts(receipt, cheques)
    PROVE  /\ Unlockeds(receipt) = Bodies(EntriesAt(receipt.cheques, UnlockedPlaces(receipt)))
           /\ Unlockeds(receipt) \in Seq({Disclosed(a) : a \in OpenOf(receipt, cheques)})
           /\ \A j, k \in DOMAIN Unlockeds(receipt) :
                 Unlockeds(receipt)[j].index = Unlockeds(receipt)[k].index => j = k
           /\ {u.index : u \in Entries(Unlockeds(receipt))} = {a.index : a \in OpenOf(receipt, cheques)}
           /\ ListTotal(Unlockeds(receipt)) = Total(OpenOf(receipt, cheques))
<1>. DEFINE list == receipt.cheques
            chosen == UnlockedPlaces(receipt)
            open == EntriesAt(list, chosen)
            us == Unlockeds(receipt)
            A == OpenOf(receipt, cheques)
            U == {Disclosed(a) : a \in A}
<1>1. us = Bodies(open)
  <2>1. Where(list, LAMBDA c : c.unlocked) = open
    BY DEF Where, The, UnlockedPlaces
  <2>. HIDE DEF open
  <2>. QED
    BY <2>1 DEF Unlockeds
<1>2. /\ ListsEach(list, cheques) /\ list \in Seq(Carries(cheques)) /\ chosen \subseteq DOMAIN list
      /\ \A n \in DOMAIN list : list[n] \in Carries(cheques)
      /\ \A n \in chosen : list[n].unlocked
  BY AccountsIs DEF Accounts, UnlockedPlaces
<1>3. open \in Seq(Carries(cheques)) /\ Entries(open) = {list[n] : n \in chosen}
  BY <1>2, EntriesAtSelects, EntriesAtAre
<1>4. /\ Len(open) \in Nat /\ DOMAIN open = 1..Len(open)
      /\ \A j, k \in DOMAIN open : open[j].body.index = open[k].body.index => j = k
  <2>1. ListsEach(open, cheques)
    BY <1>2, SelectedEach
  <2>. HIDE DEF open
  <2>. QED
    BY <1>3, <2>1, ListEntries DEF ListsEach
<1>a. ListTotal(Bodies(open)) = Total(A)
  <2>1. ListTotal(Bodies(EntriesAt(list, chosen))) = Total(AtPlaces(list, chosen, cheques))
    BY <1>2, ListTotalOf
  <2>. QED
    BY <2>1 DEF OpenOf
<1>b. \A a \in cheques : a \in A <=> \E n \in chosen : list[n].body.index = a.index
  BY DEF OpenOf, AtPlaces
<1>c. A \subseteq cheques
  BY DEF OpenOf, AtPlaces
<1>. HIDE DEF open, chosen, A, list
<1>5. ASSUME NEW n \in chosen
      PROVE  \E a \in A : list[n].body = Disclosed(a) /\ list[n].body.index = a.index
  <2>1. list[n] \in Carries(cheques) /\ list[n].unlocked
    BY <1>2
  <2>2. PICK a \in cheques : IsOf(list[n], a)
    BY <2>1, CarriesAre
  <2>3. list[n].body = Disclosed(a) /\ list[n].body.index = a.index
    BY <2>1, <2>2 DEF IsOf
  <2>. QED
    BY <1>b, <2>3
<1>6. ASSUME NEW n \in DOMAIN open
      PROVE  open[n].body \in U /\ \E a \in A : open[n].body.index = a.index
  <2>1. PICK k \in chosen : open[n] = list[k]
    BY <1>3 DEF Entries
  <2>. QED
    BY <1>5, <2>1
<1>. HIDE DEF U
<1>7. us \in Seq(U) /\ DOMAIN us = DOMAIN open /\ \A n \in DOMAIN open : us[n] = open[n].body
  <2>1. us = [n \in 1..Len(open) |-> open[n].body]
    BY <1>1, <1>4 DEF Bodies
  <2>2. \A n \in 1..Len(open) : open[n].body \in U
    BY <1>4, <1>6
  <2>. HIDE DEF us
  <2>3. us \in [1..Len(open) -> U] /\ DOMAIN us = 1..Len(open)
    BY <2>1, <2>2
  <2>4. us \in Seq(U)
    BY <1>4, <2>3
  <2>. QED
    BY <1>4, <2>1, <2>3, <2>4
<1>. HIDE DEF us
<1>8. \A j, k \in DOMAIN us : us[j].index = us[k].index => j = k
  BY <1>4, <1>7
<1>9. {u.index : u \in Entries(us)} = {a.index : a \in A}
  <2>1. ASSUME NEW u \in Entries(us) PROVE u.index \in {a.index : a \in A}
    <3>1. PICK n \in DOMAIN open : u = open[n].body
      BY <1>7, <2>1 DEF Entries
    <3>. QED
      BY <1>6, <3>1
  <2>2. ASSUME NEW a \in A PROVE \E u \in Entries(us) : u.index = a.index
    <3>1. PICK k \in chosen : list[k].body.index = a.index
      BY <1>b, <1>c, <2>2
    <3>2. PICK n \in DOMAIN open : open[n] = list[k]
      BY <1>3, <3>1 DEF Entries
    <3>3. us[n] \in Entries(us) /\ us[n].index = a.index
      BY <1>7, <3>1, <3>2 DEF Entries
    <3>. QED
      BY <3>3
  <2>. QED
    BY <2>1, <2>2
<1>. QED
  BY <1>1, <1>7, <1>8, <1>9, <1>a DEF us, A, U, open, list, chosen

\* A cheque is squashed or in the receipt, and not both.
LEMMA Disjoint ==
    ASSUME NEW cheques, NEW receipt, Accounts(receipt, cheques)
    PROVE  CoveredOf(receipt.squash, cheques) \cap OpenOf(receipt, cheques) = {}
<1>1. \A n \in UnlockedPlaces(receipt) : ~IsIndexSquashed(receipt.squash, receipt.cheques[n].body.index)
  BY DEF Accounts, UnlockedPlaces
<1>. QED
  BY <1>1 DEF CoveredOf, OpenOf, AtPlaces

\* What is owed is the worth of what is squashed and what is unlocked.
LEMMA OwedIs ==
    ASSUME NEW cheques, Numbered(cheques), NEW receipt, Accounts(receipt, cheques),
           PaysFor(receipt.squash, cheques)
    PROVE  Owed(receipt) = Total(CoveredOf(receipt.squash, cheques) \cup OpenOf(receipt, cheques))
<1>1. ListTotal(Unlockeds(receipt)) = Total(OpenOf(receipt, cheques))
  BY UnlockedsAre
<1>2. receipt.squash.amount = Total(CoveredOf(receipt.squash, cheques))
  BY DEF PaysFor
<1>3. CoveredOf(receipt.squash, cheques) \in SUBSET cheques /\ OpenOf(receipt, cheques) \in SUBSET cheques
  BY DEF CoveredOf, OpenOf, AtPlaces
<1>. QED
  BY <1>1, <1>2, <1>3, Disjoint, TotalOfBoth DEF Owed, Numbered

\* A proposal pays for what it covers: what the squash of the receipt covers,
\* and the cheques the receipt has unlocked.
LEMMA ProposalPays ==
    ASSUME NEW cheques, Numbered(cheques), NEW receipt, Accounts(receipt, cheques),
           PaysFor(receipt.squash, cheques), Proposal(receipt).ok
    PROVE  /\ PaysFor(Proposal(receipt).body, cheques)
           /\ CoveredOf(Proposal(receipt).body, cheques) =
                 CoveredOf(receipt.squash, cheques) \cup OpenOf(receipt, cheques)
<1>. DEFINE list == receipt.cheques
            us == Unlockeds(receipt)
            A == OpenOf(receipt, cheques)
            U == {Disclosed(a) : a \in A}
            held == receipt.squash
            body == Proposal(receipt).body
<1>1. /\ us \in Seq(U) /\ {u.index : u \in Entries(us)} = {a.index : a \in A}
      /\ ListTotal(us) = Total(A)
  BY UnlockedsAre
<1>2. HaveIndexes(U)
  <2>1. ASSUME NEW a \in A PROVE Disclosed(a).index \in Nat /\ Disclosed(a).amount \in Nat
    <3>1. a \in cheques
      BY DEF OpenOf, AtPlaces
    <3>. QED
      BY <3>1, NumberedAre, DisclosedIs
  <2>. QED
    BY <2>1 DEF HaveIndexes
<1>8. held \in Squashes /\ held.index \in Nat /\ held.amount \in Nat
  BY AccountsIs
<1>. HIDE DEF U
<1>9. /\ body \in Squashes
      /\ body.amount = held.amount + Total(A)
      /\ Covered(body) = Covered(held) \cup {a.index : a \in A}
  BY <1>1, <1>2, <1>8, ProposalCoversUnlocked
<1>. HIDE DEF us, body, held, list, A
<1>11. \A i \in Nat : IsIndexSquashed(body, i) <=>
                        IsIndexSquashed(held, i) \/ \E a \in A : a.index = i
  BY <1>9 DEF Covered
<1>a. A \subseteq cheques
  BY DEF A, OpenOf, AtPlaces
<1>12. CoveredOf(body, cheques) = CoveredOf(held, cheques) \cup A
  <2>1. \A a \in cheques : a.index \in Nat /\ \A b \in cheques : b.index = a.index => b = a
    BY NumberedAre
  <2>. QED
    BY <1>11, <1>a, <2>1 DEF CoveredOf
<1>13. CoveredOf(held, cheques) \cap A = {}
  BY Disjoint DEF held, A
<1>14. body.amount = Total(CoveredOf(body, cheques))
  <2>1. CoveredOf(held, cheques) \in SUBSET cheques /\ A \in SUBSET cheques
    BY <1>a DEF CoveredOf
  <2>2. held.amount = Total(CoveredOf(held, cheques))
    BY DEF PaysFor, held
  <2>. QED
    BY <1>9, <1>12, <1>13, <2>1, <2>2, TotalOfBoth DEF Numbered
<1>15. body.index = 0 \/ \E a \in cheques : a.index = body.index
  <2>1. body.index \in Nat /\ IsIndexSquashed(body, body.index)
    BY <1>9 DEF Squashes, IsIndexSquashed
  <2>2. CASE \E a \in A : a.index = body.index
    BY <1>a, <2>2
  <2>3. CASE IsIndexSquashed(held, body.index)
    <3>1. IsIndexSquashed(held, held.index)
      BY DEF IsIndexSquashed
    <3>2. IsIndexSquashed(body, held.index)
      BY <1>8, <1>11, <3>1
    <3>3. held.index <= body.index /\ body.index <= held.index
      BY <1>8, <1>9, <2>1, <2>3, <3>2, CoveredBelow
    <3>4. held.index = body.index
      BY <1>8, <2>1, <3>3
    <3>. QED
      BY <3>4 DEF PaysFor, held
  <2>. QED
    BY <1>11, <2>1, <2>2, <2>3
<1>16. PaysFor(body, cheques)
  BY <1>9, <1>14, <1>15 DEF PaysFor
<1>. QED
  BY <1>12, <1>16 DEF body, held, A

-----------------------------------------------------------------------------
(* What a Sub brings along.                                                *)

LEMMA PutStays ==
    ASSUME NEW T, NEW list \in Seq(T), NEW used \in T
    PROVE  Put(list, used) \in Seq(T)
<1>. DEFINE before == EntriesAt(list, {n \in DOMAIN list : list[n].index <= used.index})
            after == EntriesAt(list, {n \in DOMAIN list : list[n].index > used.index})
<1>1. Where(list, LAMBDA u : u.index <= used.index) = before
  BY DEF Where, The
<1>2. Where(list, LAMBDA u : u.index > used.index) = after
  BY DEF Where, The
<1>3. before \in Seq(T) /\ after \in Seq(T)
  BY EntriesAtSelects
<1>. HIDE DEF before, after
<1>4. before \o <<used>> \in Seq(T)
  BY <1>3
<1>5. (before \o <<used>>) \o after \in Seq(T)
  BY <1>3, <1>4
<1>. QED
  BY <1>1, <1>2, <1>5 DEF Put

\* The lists on the way to the sorted one.
IsSorting(h, list, T) ==
    /\ h[0] = <<>> /\ h[Len(list)] = ByIndex(list)
    /\ \A k \in 0..Len(list) : h[k] \in Seq(T)
    /\ \A k \in 1..Len(list) : h[k] = Put(h[k - 1], list[k])

LEMMA SortSteps ==
    ASSUME NEW T, NEW list \in Seq(T)
    PROVE  \E h : IsSorting(h, list, T)
<1>. DEFINE n == Len(list)
            State == Seq(T)
            F(iter) == [s \in SUBSET (1..n) |->
                          IF s = {} THEN <<>> ELSE Put(iter[s \ {Max(s)}], list[Max(s)])]
            step == [q \in State \X (1..n) |-> Put(q[1], list[q[2]])]
            it == CHOOSE iter : iter = F(iter)
            end == it[1..n]
<1>1. n \in Nat /\ DOMAIN list = 1..n /\ \A k \in 1..n : list[k] \in T
  BY ListEntries
<1>2. ByIndex(list) = end
  <2>. HIDE DEF n
  <2>. QED
    BY <1>1 DEF ByIndex, FoldLeft, MapThenFoldSet
<1>3. <<>> \in State
  OBVIOUS
<1>4. \A a \in State : \A k \in 1..n : Put(a, list[k]) \in State
  BY <1>1, PutStays
<1>. HIDE DEF State, n
<1>5. step \in [State \X (1..n) -> State]
  BY <1>4
<1>6. it = F(it)
  <2>1. PICK walk : IsWalk(walk, n, State, <<>>, step)
    <3>. HIDE DEF step
    <3>. QED
      BY <1>1, <1>3, <1>5, WalkExists
  <2>2. ASSUME NEW s \in SUBSET (1..n), s # {}
        PROVE  walk[s] = Put(walk[s \ {Max(s)}], list[Max(s)])
    <3>1. Max(s) \in 1..n /\ s \ {Max(s)} \in SUBSET (1..n)
      BY <1>1, <2>2, MaxIsIn
    <3>2. walk[s] = step[<<walk[s \ {Max(s)}], Max(s)>>] /\ walk[s \ {Max(s)}] \in State
      <4>. HIDE DEF step
      <4>. QED
        BY <2>1, <2>2, <3>1 DEF IsWalk
    <3>. QED
      BY <3>1, <3>2
  <2>3. walk = F(walk)
    BY <2>1, <2>2 DEF IsWalk
  <2>. HIDE DEF F
  <2>. QED
    BY <2>3
<1>. HIDE DEF it
<1>7. it[{}] = <<>>
  BY <1>6
<1>8. ASSUME NEW s \in SUBSET (1..n), s # {}, it[s \ {Max(s)}] \in State
      PROVE  it[s] = step[<<it[s \ {Max(s)}], Max(s)>>]
  <2>1. Max(s) \in 1..n
    BY <1>1, <1>8, MaxIsIn
  <2>. QED
    BY <1>6, <1>8, <2>1
<1>9. IsFold(it, n, State, <<>>, step)
  BY <1>7, <1>8 DEF IsFold
<1>10. PICK h : IsHistoryOf(h, it, n, State, <<>>, step)
  <2>. HIDE DEF step
  <2>. QED
    BY <1>1, <1>3, <1>5, <1>9, FoldIsHistory
<1>11. /\ h[0] = <<>> /\ h[n] = it[1..n] /\ \A k \in 0..n : h[k] \in State
       /\ \A k \in 1..n : h[k] = step[<<h[k - 1], k>>]
  BY <1>10 DEF IsHistoryOf, IsHistory
<1>12. \A k \in 1..n : h[k] = Put(h[k - 1], list[k])
  <2>1. \A k \in 1..n : k - 1 \in 0..n
    BY <1>1
  <2>. QED
    BY <1>11, <2>1
<1>. QED
  BY <1>2, <1>11, <1>12 DEF State, n, IsSorting

LEMMA ByIndexStays ==
    ASSUME NEW T, NEW list \in Seq(T)
    PROVE  ByIndex(list) \in Seq(T)
<1>1. Len(list) \in Nat
  OBVIOUS
<1>2. Len(list) \in 0..Len(list)
  BY <1>1
<1>. QED
  BY <1>2, SortSteps DEF IsSorting

\* The useds a Sub leaves are of those there were and of unlocked cheques.
LEMMA PrepSubStays ==
    ASSUME NEW U, NEW R, NEW receipt, Unlockeds(receipt) \in Seq(R), NEW useds \in Seq(U),
           \A r \in R : UsedOf(r) \in U, NEW upper
    PROVE  /\ PrepSub(receipt, useds, upper).useds \in Seq(U)
           /\ PrepSub(receipt, useds, upper).unlockeds \in Seq(R)
<1>. DEFINE bodies == Unlockeds(receipt)
            fresh == EntriesAt(bodies, {n \in DOMAIN bodies : IsFresh(useds, upper, bodies[n])})
            later == [n \in DOMAIN fresh |-> UsedOf(fresh[n])]
            kept == EntriesAt(useds, {n \in DOMAIN useds : ~IsIndexSquashed(receipt.squash, useds[n].index)})
<1>. HIDE DEF bodies
<1>1. Where(bodies, LAMBDA u : IsFresh(useds, upper, u)) = fresh
  BY DEF Where, The
<1>2. fresh \in Seq(R)
  BY EntriesAtSelects DEF bodies
<1>. HIDE DEF fresh
<1>3. later \in Seq(U)
  <2>1. Len(fresh) \in Nat /\ DOMAIN fresh = 1..Len(fresh) /\ \A k \in 1..Len(fresh) : fresh[k] \in R
    BY <1>2, ListEntries
  <2>2. later = [k \in 1..Len(fresh) |-> UsedOf(fresh[k])] /\ \A k \in 1..Len(fresh) : UsedOf(fresh[k]) \in U
    BY <2>1
  <2>. QED
    BY <2>1, <2>2
<1>4. Unsquashed(receipt, useds) = kept
  BY DEF Unsquashed, Where, The
<1>5. kept \in Seq(U)
  BY EntriesAtSelects
<1>. HIDE DEF kept
<1>6. /\ PrepSub(receipt, useds, upper).useds = ByIndex(kept \o later)
      /\ PrepSub(receipt, useds, upper).unlockeds = fresh
  BY <1>1, <1>4 DEF PrepSub, bodies
<1>. HIDE DEF later
<1>7. kept \o later \in Seq(U)
  BY <1>3, <1>5
<1>. QED
  BY <1>2, <1>6, <1>7, ByIndexStays

-----------------------------------------------------------------------------
(* Lists in order.                                                         *)

\* What is selected comes from ascending places.
PlacedBy(places, out, list, chosen) ==
    /\ \A k \in DOMAIN out : places[k] \in DOMAIN list /\ places[k] \in chosen /\ out[k] = list[places[k]]
    /\ \A j, k \in DOMAIN out : j < k => places[j] < places[k]

LEMMA SelectedInOrder ==
    ASSUME NEW T, NEW list \in Seq(T), NEW chosen
    PROVE  \E places : PlacedBy(places, EntriesAt(list, chosen), list, chosen)
<1>. DEFINE out == EntriesAt(list, chosen)
<1>1. out \in Seq(T) /\ Selects(out, list, chosen, Len(list))
  BY EntriesAtSelects
<1>. HIDE DEF out
<1>2. PICK places : IsSelection(out, list, chosen, Len(list), places)
  BY <1>1 DEF Selects
<1>3. DOMAIN out = 1..Len(out) /\ DOMAIN list = 1..Len(list)
  BY <1>1, ListEntries
<1>4. PlacedBy(places, out, list, chosen)
  BY <1>2, <1>3 DEF IsSelection, PlacedBy
<1>. QED
  BY <1>4 DEF out

LEMMA SelectionAscends ==
    ASSUME NEW T, NEW list \in Seq(T), NEW chosen, Ascending(list)
    PROVE  Ascending(EntriesAt(list, chosen))
<1>1. PICK places : PlacedBy(places, EntriesAt(list, chosen), list, chosen)
  BY SelectedInOrder
<1>. QED
  BY <1>1 DEF PlacedBy, Ascending

\* An ascending list has each index once.
LEMMA AscendsOnce ==
    ASSUME NEW T, \A x \in T : x.index \in Nat, NEW list \in Seq(T), Ascending(list)
    PROVE  \A m, n \in DOMAIN list :
              /\ list[m].index = list[n].index => m = n
              /\ list[m].index < list[n].index => m < n
<1>1. DOMAIN list = 1..Len(list) /\ Len(list) \in Nat /\ \A n \in DOMAIN list : list[n].index \in Nat
  BY ListEntries
<1>2. ASSUME NEW m \in DOMAIN list, NEW n \in DOMAIN list
      PROVE  /\ list[m].index = list[n].index => m = n
             /\ list[m].index < list[n].index => m < n
  <2>1. m \in Nat /\ n \in Nat /\ list[m].index \in Nat /\ list[n].index \in Nat
    BY <1>1
  <2>2. m < n => list[m].index < list[n].index
    BY DEF Ascending
  <2>3. n < m => list[n].index < list[m].index
    BY DEF Ascending
  <2>. QED
    BY <2>1, <2>2, <2>3
<1>. QED
  BY <1>2

\* Two ascending lists of the same entries are the same list: an entry stands
\* in neither before its place in the other.
FindsIn(f, a, b) ==
    /\ \A k \in DOMAIN a : f[k] \in DOMAIN b /\ b[f[k]] = a[k]
    /\ \A k \in DOMAIN a : k <= f[k]

LEMMA NoEarlier ==
    ASSUME NEW T, \A x \in T : x.index \in Nat, NEW a \in Seq(T), NEW b \in Seq(T),
           Ascending(a), Ascending(b), Entries(a) \subseteq Entries(b)
    PROVE  \E f : FindsIn(f, a, b)
<1>. DEFINE f == [k \in DOMAIN a |-> CHOOSE n \in DOMAIN b : b[n] = a[k]]
            n == Len(a)
            D == {k \in 0..n : k = 0 \/ k <= f[k]}
<1>1. /\ n \in Nat /\ DOMAIN a = 1..n /\ \A k \in 1..n : a[k] \in T /\ a[k] \in Entries(a)
      /\ DOMAIN b = 1..Len(b) /\ Len(b) \in Nat
  BY ListEntries DEF Entries
<1>2. \A k \in 1..n : f[k] \in DOMAIN b /\ b[f[k]] = a[k]
  BY <1>1 DEF Entries
<1>. HIDE DEF f, n
<1>3. 0 \in D
  BY <1>1
<1>4. ASSUME NEW k \in 1..n, k - 1 \in D PROVE k \in D
  <2>1. f[k] \in Nat /\ f[k] >= 1
    BY <1>1, <1>2
  <2>2. CASE k = 1
    BY <1>1, <2>1, <2>2
  <2>3. CASE k # 1
    <3>1. k - 1 \in 1..n /\ k \in 1..n /\ k - 1 < k
      BY <1>1, <2>3
    <3>2. a[k - 1].index < a[k].index
      BY <1>1, <3>1 DEF Ascending
    <3>3. f[k - 1] \in DOMAIN b /\ f[k] \in DOMAIN b /\ b[f[k - 1]].index < b[f[k]].index
      BY <1>2, <3>1, <3>2
    <3>4. f[k - 1] < f[k]
      BY <3>3, AscendsOnce
    <3>5. k - 1 <= f[k - 1]
      BY <1>4, <3>1
    <3>6. f[k - 1] \in Nat
      BY <1>1, <3>3
    <3>. QED
      BY <1>1, <2>1, <3>1, <3>4, <3>5, <3>6
  <2>. QED
    BY <2>2, <2>3
<1>5. \A k \in 0..n : k \in D
  <2>. HIDE DEF D
  <2>. QED
    BY <1>1, <1>3, <1>4, Climb
<1>6. \A k \in 1..n : k <= f[k]
  BY <1>1, <1>5
<1>. QED
  BY <1>1, <1>2, <1>6 DEF FindsIn

LEMMA SameWhenSorted ==
    ASSUME NEW T, \A x \in T : x.index \in Nat, NEW a \in Seq(T), NEW b \in Seq(T),
           Ascending(a), Ascending(b), Entries(a) = Entries(b)
    PROVE  a = b
<1>1. PICK f : FindsIn(f, a, b)
  BY NoEarlier
<1>2. PICK g : FindsIn(g, b, a)
  BY NoEarlier
<1>3. /\ DOMAIN a = 1..Len(a) /\ Len(a) \in Nat /\ DOMAIN b = 1..Len(b) /\ Len(b) \in Nat
  BY ListEntries
<1>4. ASSUME NEW k \in DOMAIN a PROVE f[k] = k /\ k \in DOMAIN b /\ a[k] = b[k]
  <2>1. f[k] \in DOMAIN b /\ b[f[k]] = a[k] /\ k <= f[k]
    BY <1>1 DEF FindsIn
  <2>2. g[f[k]] \in DOMAIN a /\ a[g[f[k]]] = b[f[k]] /\ f[k] <= g[f[k]]
    BY <1>2, <2>1 DEF FindsIn
  <2>3. g[f[k]] = k
    BY <2>1, <2>2, AscendsOnce
  <2>4. f[k] = k
    BY <1>3, <2>1, <2>2, <2>3
  <2>. QED
    BY <2>1, <2>4
<1>5. ASSUME NEW k \in DOMAIN b PROVE k \in DOMAIN a
  <2>1. g[k] \in DOMAIN a /\ a[g[k]] = b[k] /\ k <= g[k]
    BY <1>2 DEF FindsIn
  <2>2. k \in Nat /\ k >= 1 /\ g[k] \in 1..Len(a)
    BY <1>3, <2>1
  <2>. QED
    BY <1>3, <2>1, <2>2
<1>6. Len(a) = Len(b)
  <2>1. \A k \in 1..Len(a) : k \in 1..Len(b)
    BY <1>3, <1>4
  <2>2. \A k \in 1..Len(b) : k \in 1..Len(a)
    BY <1>3, <1>5
  <2>3. Len(a) \in 1..Len(a) \/ Len(a) = 0
    BY <1>3
  <2>4. Len(b) \in 1..Len(b) \/ Len(b) = 0
    BY <1>3
  <2>5. Len(a) <= Len(b)
    BY <1>3, <2>1, <2>3
  <2>6. Len(b) <= Len(a)
    BY <1>3, <2>2, <2>4
  <2>7. Len(a) \in Nat /\ Len(b) \in Nat
    BY <1>3
  <2>. QED
    BY ONLY <2>5, <2>6, <2>7
<1>. QED
  BY <1>3, <1>4, <1>6

\* Two lists one after the other.
LEMMA JoinIs ==
    ASSUME NEW T, NEW a \in Seq(T), NEW b \in Seq(T)
    PROVE  /\ a \o b \in Seq(T) /\ Len(a) \in Nat /\ Len(b) \in Nat
           /\ DOMAIN (a \o b) = 1..(Len(a) + Len(b))
           /\ \A n \in 1..Len(a) : n \in DOMAIN a /\ (a \o b)[n] = a[n]
           /\ \A n \in (Len(a) + 1)..(Len(a) + Len(b)) :
                 n - Len(a) \in DOMAIN b /\ (a \o b)[n] = b[n - Len(a)]
           /\ Entries(a \o b) = Entries(a) \cup Entries(b)
<1>. DEFINE all == a \o b
            p == Len(a)
            q == Len(b)
<1>1. /\ all \in Seq(T) /\ Len(all) = p + q
      /\ \A n \in 1..p : all[n] = a[n]
      /\ \A n \in 1..q : all[p + n] = b[n]
  OBVIOUS
<1>2. p \in Nat /\ q \in Nat /\ DOMAIN a = 1..p /\ DOMAIN b = 1..q
  BY ListEntries
<1>. HIDE DEF all, p, q
<1>3. DOMAIN all = 1..(p + q)
  BY <1>1, ListEntries
<1>4. ASSUME NEW n \in (p + 1)..(p + q) PROVE n - p \in 1..q /\ all[n] = b[n - p]
  <2>1. n - p \in 1..q /\ p + (n - p) = n
    BY <1>2
  <2>. QED
    BY <1>1, <2>1
<1>5. \A x \in Entries(all) : x \in Entries(a) \cup Entries(b)
  <2>1. \A n \in DOMAIN all : n \in 1..p \/ n \in (p + 1)..(p + q)
    BY <1>2, <1>3
  <2>. QED
    BY <1>1, <1>2, <1>4, <2>1 DEF Entries
<1>6. ASSUME NEW x \in Entries(a) \cup Entries(b) PROVE x \in Entries(all)
  <2>1. CASE x \in Entries(a)
    <3>1. PICK n \in 1..p : x = a[n]
      BY <1>2, <2>1 DEF Entries
    <3>2. n \in DOMAIN all /\ all[n] = x
      BY <1>1, <1>2, <1>3, <3>1
    <3>. QED
      BY <3>2 DEF Entries
  <2>2. CASE x \in Entries(b)
    <3>1. PICK n \in 1..q : x = b[n]
      BY <1>2, <2>2 DEF Entries
    <3>2. p + n \in DOMAIN all /\ all[p + n] = x
      BY <1>1, <1>2, <1>3, <3>1
    <3>. QED
      BY <3>2 DEF Entries
  <2>. QED
    BY <2>1, <2>2
<1>7. Entries(all) = Entries(a) \cup Entries(b)
  BY <1>5, <1>6
<1>. QED
  BY <1>1, <1>2, <1>3, <1>4, <1>7 DEF all, p, q

LEMMA JoinAscends ==
    ASSUME NEW T, NEW a \in Seq(T), NEW b \in Seq(T), Ascending(a), Ascending(b),
           \A x \in Entries(a), y \in Entries(b) : x.index < y.index
    PROVE  Ascending(a \o b)
<1>. DEFINE all == a \o b
            p == Len(a)
            q == Len(b)
<1>1. /\ p \in Nat /\ q \in Nat /\ DOMAIN all = 1..(p + q)
      /\ \A n \in 1..p : n \in DOMAIN a /\ all[n] = a[n]
      /\ \A n \in (p + 1)..(p + q) : n - p \in DOMAIN b /\ all[n] = b[n - p]
  BY JoinIs
<1>. HIDE DEF all, p, q
<1>2. ASSUME NEW m \in DOMAIN all, NEW n \in DOMAIN all, m < n PROVE all[m].index < all[n].index
  <2>1. CASE m \in 1..p /\ n \in 1..p
    BY <1>1, <1>2, <2>1 DEF Ascending
  <2>2. CASE m \in 1..p /\ n \in (p + 1)..(p + q)
    <3>1. all[m] \in Entries(a) /\ all[n] \in Entries(b)
      BY <1>1, <2>2 DEF Entries
    <3>. QED
      BY <3>1
  <2>3. CASE m \in (p + 1)..(p + q) /\ n \in (p + 1)..(p + q)
    <3>1. m - p < n - p
      BY <1>1, <1>2, <2>3
    <3>. QED
      BY <1>1, <2>3, <3>1 DEF Ascending
  <2>. QED
    BY <1>1, <1>2, <2>1, <2>2, <2>3
<1>. QED
  BY <1>2 DEF Ascending, all

\* A used takes its place in an ascending list that has none of its index.
LEMMA PutAscends ==
    ASSUME NEW T, \A x \in T : x.index \in Nat, NEW list \in Seq(T), Ascending(list), NEW used \in T,
           \A x \in Entries(list) : x.index # used.index
    PROVE  Ascending(Put(list, used)) /\ Entries(Put(list, used)) = Entries(list) \cup {used}
<1>. DEFINE L == {n \in DOMAIN list : list[n].index <= used.index}
            H == {n \in DOMAIN list : list[n].index > used.index}
            low == EntriesAt(list, L)
            high == EntriesAt(list, H)
            one == <<used>>
<1>1. Put(list, used) = (low \o one) \o high
  <2>1. Where(list, LAMBDA u : u.index <= used.index) = low
    BY DEF Where, The
  <2>2. Where(list, LAMBDA u : u.index > used.index) = high
    BY DEF Where, The
  <2>. HIDE DEF low, high
  <2>. QED
    BY <2>1, <2>2 DEF Put
<1>2. /\ DOMAIN list = 1..Len(list) /\ used.index \in Nat
      /\ \A n \in DOMAIN list : list[n].index \in Nat /\ list[n] \in Entries(list)
  BY ListEntries DEF Entries
<1>3. L \subseteq DOMAIN list /\ H \subseteq DOMAIN list
  OBVIOUS
<1>4. \A n \in L : list[n].index < used.index
  BY <1>2
<1>5. \A n \in DOMAIN list : n \in L \/ n \in H
  BY <1>2
<1>6. \A n \in H : used.index < list[n].index
  BY <1>2
<1>. HIDE DEF L, H
<1>7. /\ low \in Seq(T) /\ high \in Seq(T) /\ Ascending(low) /\ Ascending(high)
      /\ Entries(low) = {list[n] : n \in L} /\ Entries(high) = {list[n] : n \in H}
  BY <1>3, EntriesAtSelects, EntriesAtAre, SelectionAscends
<1>. HIDE DEF low, high
<1>8. one \in Seq(T) /\ Entries(one) = {used} /\ Ascending(one)
  BY DEF Entries, Ascending
<1>. HIDE DEF one
<1>9. /\ low \o one \in Seq(T) /\ Ascending(low \o one)
      /\ Entries(low \o one) = Entries(low) \cup {used}
  <2>1. \A x \in Entries(low), y \in Entries(one) : x.index < y.index
    BY <1>4, <1>7, <1>8
  <2>. QED
    BY <1>7, <1>8, <2>1, JoinIs, JoinAscends
<1>10. \A x \in Entries(low \o one), y \in Entries(high) : x.index < y.index
  <2>1. \A x \in Entries(low) : x.index \in Nat /\ x.index < used.index
    BY <1>2, <1>3, <1>4, <1>7
  <2>2. \A y \in Entries(high) : y.index \in Nat /\ used.index < y.index
    BY <1>2, <1>3, <1>6, <1>7
  <2>3. \A x \in Entries(low \o one) : x.index \in Nat /\ x.index <= used.index
    BY <1>2, <1>9, <2>1
  <2>. QED
    BY <1>2, <2>2, <2>3
<1>11. Ascending((low \o one) \o high)
  BY <1>7, <1>9, <1>10, JoinAscends
<1>12. Entries((low \o one) \o high) = (Entries(low) \cup {used}) \cup Entries(high)
  <2>. DEFINE lower == low \o one
  <2>1. lower \in Seq(T) /\ high \in Seq(T)
    BY <1>7, <1>9
  <2>. HIDE DEF lower
  <2>2. Entries(lower \o high) = Entries(lower) \cup Entries(high)
    BY <2>1, JoinIs
  <2>. QED
    BY <1>9, <2>2 DEF lower
<1>13. Entries(list) = Entries(low) \cup Entries(high)
  BY <1>3, <1>5, <1>7 DEF Entries
<1>. QED
  BY <1>1, <1>11, <1>12, <1>13

\* Useds of different indexes are sorted, and none gets lost.
LEMMA ByIndexSorts ==
    ASSUME NEW T, \A x \in T : x.index \in Nat, NEW list \in Seq(T),
           \A m, n \in DOMAIN list : list[m].index = list[n].index => m = n
    PROVE  Ascending(ByIndex(list)) /\ Entries(ByIndex(list)) = Entries(list)
<1>. DEFINE n == Len(list)
            Upto(k) == {list[j] : j \in 1..k}
<1>1. n \in Nat /\ DOMAIN list = 1..n /\ \A k \in 1..n : list[k] \in T
  BY ListEntries
<1>2. PICK h : IsSorting(h, list, T)
  BY SortSteps
<1>. DEFINE D == {k \in 0..n : Ascending(h[k]) /\ Entries(h[k]) = Upto(k)}
<1>. HIDE DEF n
<1>3. 0 \in D
  <2>1. Ascending(<<>>) /\ Entries(<<>>) = {} /\ Upto(0) = {}
    BY DEF Ascending, Entries
  <2>. QED
    BY <1>1, <1>2, <2>1 DEF IsSorting
<1>4. ASSUME NEW k \in 1..n, k - 1 \in D PROVE k \in D
  <2>1. h[k - 1] \in Seq(T) /\ h[k] = Put(h[k - 1], list[k]) /\ list[k] \in T
    <3>1. k - 1 \in 0..n
      BY <1>1
    <3>. QED
      BY <1>1, <1>2, <3>1 DEF IsSorting, n
  <2>2. Ascending(h[k - 1]) /\ Entries(h[k - 1]) = Upto(k - 1)
    BY <1>4
  <2>3. \A x \in Entries(h[k - 1]) : x.index # list[k].index
    <3>1. \A j \in 1..(k - 1) : j \in DOMAIN list /\ k \in DOMAIN list /\ j # k
      BY <1>1
    <3>2. \A j \in 1..(k - 1) : list[j].index # list[k].index
      BY <3>1
    <3>. QED
      BY <2>2, <3>2
  <2>4. Ascending(h[k]) /\ Entries(h[k]) = Entries(h[k - 1]) \cup {list[k]}
    BY <2>1, <2>2, <2>3, PutAscends
  <2>5. Upto(k) = Upto(k - 1) \cup {list[k]}
    <3>1. 1..k = 1..(k - 1) \cup {k}
      BY <1>1
    <3>. QED
      BY <3>1
  <2>. QED
    BY <1>1, <2>2, <2>4, <2>5
<1>5. \A k \in 0..n : k \in D
  <2>. HIDE DEF D
  <2>. QED
    BY <1>1, <1>3, <1>4, Climb
<1>6. Ascending(h[n]) /\ Entries(h[n]) = Upto(n)
  BY <1>1, <1>5
<1>7. h[n] = ByIndex(list)
  BY <1>2 DEF IsSorting, n
<1>8. Entries(list) = Upto(n)
  BY <1>1 DEF Entries
<1>. QED
  BY <1>6, <1>7, <1>8

\* The bodies of cheques selected from a list in order are in order.
LEMMA BodiesAscend ==
    ASSUME NEW T, NEW list \in Seq(T), NEW chosen, Ascending(Bodies(list))
    PROVE  Ascending(Bodies(EntriesAt(list, chosen)))
<1>. DEFINE out == EntriesAt(list, chosen)
<1>1. PICK places : PlacedBy(places, out, list, chosen)
  BY SelectedInOrder
<1>. HIDE DEF out
<1>2. \A j, k \in DOMAIN out : j < k => out[j].body.index < out[k].body.index
  BY <1>1 DEF PlacedBy, Ascending, Bodies
<1>. QED
  BY <1>2 DEF Ascending, Bodies, out

\* The useds of a Sub and the unlocked cheques shown with it: sorted, of what
\* the datum listed and the squash leaves out and of fresh cheques, and the
\* fresh ones in the order they are shown.
SubIsSorted(prep, receipt, useds, upper) ==
    LET new == {n \in DOMAIN prep.useds : ~IsUsed(useds, prep.useds[n].index)}
    IN  /\ Ascending(prep.useds)
        /\ \A x \in Entries(prep.useds) :
              \/ x \in Entries(useds) /\ ~IsIndexSquashed(receipt.squash, x.index)
              \/ \E u \in Entries(prep.unlockeds) : x = UsedOf(u)
        /\ \A u \in Entries(prep.unlockeds) : u \in Entries(Unlockeds(receipt)) /\ IsFresh(useds, upper, u)
        /\ EntriesAt(prep.useds, new) = [n \in DOMAIN prep.unlockeds |-> UsedOf(prep.unlockeds[n])]

LEMMA PrepSubSorts ==
    ASSUME NEW U, \A u \in U : u.index \in Nat, NEW R, \A r \in R : UsedOf(r) \in U,
           NEW receipt, Unlockeds(receipt) \in Seq(R), Ascending(Unlockeds(receipt)),
           NEW useds \in Seq(U), Ascending(useds), NEW upper
    PROVE  SubIsSorted(PrepSub(receipt, useds, upper), receipt, useds, upper)
<1>. DEFINE bodies == Unlockeds(receipt)
            F == {n \in DOMAIN bodies : IsFresh(useds, upper, bodies[n])}
            fresh == EntriesAt(bodies, F)
            later == [n \in DOMAIN fresh |-> UsedOf(fresh[n])]
            K == {n \in DOMAIN useds : ~IsIndexSquashed(receipt.squash, useds[n].index)}
            kept == EntriesAt(useds, K)
            all == kept \o later
            sorted == ByIndex(all)
            new == {n \in DOMAIN sorted : ~IsUsed(useds, sorted[n].index)}
<1>. HIDE DEF bodies
<1>1. Where(bodies, LAMBDA u : IsFresh(useds, upper, u)) = fresh
  BY DEF Where, The
<1>2. Unsquashed(receipt, useds) = kept
  BY DEF Unsquashed, Where, The
<1>3. F \subseteq DOMAIN bodies /\ K \subseteq DOMAIN useds
  OBVIOUS
<1>4. /\ fresh \in Seq(R) /\ Ascending(fresh) /\ Entries(fresh) = {bodies[n] : n \in F}
      /\ kept \in Seq(U) /\ Ascending(kept) /\ Entries(kept) = {useds[n] : n \in K}
  <2>. HIDE DEF F, K
  <2>. QED
    BY <1>3, EntriesAtSelects, EntriesAtAre, SelectionAscends DEF bodies
<1>5. \A u \in Entries(fresh) : u \in Entries(bodies) /\ IsFresh(useds, upper, u)
  BY <1>4 DEF Entries
<1>6. \A x \in Entries(kept) :
         x \in Entries(useds) /\ ~IsIndexSquashed(receipt.squash, x.index) /\ IsUsed(useds, x.index)
  BY <1>4 DEF Entries, IsUsed
<1>7. PrepSub(receipt, useds, upper).useds = sorted /\ PrepSub(receipt, useds, upper).unlockeds = fresh
  <2>. HIDE DEF fresh, kept
  <2>. QED
    BY <1>1, <1>2 DEF PrepSub, bodies
<1>. HIDE DEF fresh, kept, F, K
<1>8. /\ DOMAIN fresh = 1..Len(fresh) /\ Len(fresh) \in Nat /\ DOMAIN kept = 1..Len(kept)
      /\ \A n \in DOMAIN fresh : fresh[n] \in R /\ fresh[n] \in Entries(fresh)
      /\ \A n \in DOMAIN kept : kept[n] \in Entries(kept)
  BY <1>4, ListEntries DEF Entries
<1>9. \A r : UsedOf(r).index = r.index
  BY DEF UsedOf
<1>10. /\ DOMAIN later = DOMAIN fresh /\ \A n \in DOMAIN fresh : later[n] = UsedOf(fresh[n])
       /\ later \in Seq(U) /\ Ascending(later)
       /\ Entries(later) = {UsedOf(u) : u \in Entries(fresh)}
  <2>1. DOMAIN later = DOMAIN fresh /\ \A n \in DOMAIN fresh : later[n] = UsedOf(fresh[n])
    OBVIOUS
  <2>2. later \in Seq(U)
    <3>1. later = [k \in 1..Len(fresh) |-> UsedOf(fresh[k])] /\ \A k \in 1..Len(fresh) : UsedOf(fresh[k]) \in U
      BY <1>8
    <3>. QED
      BY <1>8, <3>1
  <2>. HIDE DEF later
  <2>3. Ascending(later)
    BY <1>4, <1>9, <2>1 DEF Ascending
  <2>4. Entries(later) = {UsedOf(u) : u \in Entries(fresh)}
    BY <2>1 DEF Entries
  <2>. QED
    BY <2>1, <2>2, <2>3, <2>4
<1>. HIDE DEF later
<1>11. \A x \in Entries(later) : ~IsUsed(useds, x.index) /\ \E u \in Entries(fresh) : x = UsedOf(u)
  BY <1>5, <1>9, <1>10 DEF IsFresh
<1>12. \A m, n \in DOMAIN all : all[m].index = all[n].index => m = n
  <2>. DEFINE p == Len(kept)
              q == Len(later)
  <2>1. /\ p \in Nat /\ q \in Nat /\ DOMAIN all = 1..(p + q)
        /\ \A n \in 1..p : n \in DOMAIN kept /\ all[n] = kept[n]
        /\ \A n \in (p + 1)..(p + q) : n - p \in DOMAIN later /\ all[n] = later[n - p]
    BY <1>4, <1>10, JoinIs
  <2>2. \A n \in DOMAIN later : later[n] \in Entries(later)
    BY DEF Entries
  <2>3. /\ \A m, n \in DOMAIN kept : kept[m].index = kept[n].index => m = n
        /\ \A m, n \in DOMAIN later : later[m].index = later[n].index => m = n
    BY <1>4, <1>10, AscendsOnce
  <2>. HIDE DEF all, p, q
  <2>4. ASSUME NEW m \in DOMAIN all, NEW n \in DOMAIN all, all[m].index = all[n].index PROVE m = n
    <3>1. CASE m \in 1..p /\ n \in 1..p
      BY <2>1, <2>3, <2>4, <3>1
    <3>2. CASE m \in (p + 1)..(p + q) /\ n \in (p + 1)..(p + q)
      <4>1. m - p = n - p
        BY <2>1, <2>3, <2>4, <3>2
      <4>. QED
        BY <2>1, <3>2, <4>1
    <3>3. CASE m \in 1..p /\ n \in (p + 1)..(p + q)
      <4>1. IsUsed(useds, all[m].index) /\ ~IsUsed(useds, all[n].index)
        BY <1>6, <1>8, <1>11, <2>1, <2>2, <3>3
      <4>. QED
        BY <2>4, <4>1
    <3>4. CASE n \in 1..p /\ m \in (p + 1)..(p + q)
      <4>1. IsUsed(useds, all[n].index) /\ ~IsUsed(useds, all[m].index)
        BY <1>6, <1>8, <1>11, <2>1, <2>2, <3>4
      <4>. QED
        BY <2>4, <4>1
    <3>. QED
      BY <2>1, <3>1, <3>2, <3>3, <3>4
  <2>. QED
    BY <2>4
<1>13. all \in Seq(U) /\ Entries(all) = Entries(kept) \cup Entries(later)
  BY <1>4, <1>10, JoinIs
<1>. HIDE DEF all
<1>14. sorted \in Seq(U) /\ Ascending(sorted) /\ Entries(sorted) = Entries(kept) \cup Entries(later)
  BY <1>12, <1>13, ByIndexStays, ByIndexSorts
<1>. HIDE DEF sorted
<1>15. new \subseteq DOMAIN sorted
  OBVIOUS
<1>16. EntriesAt(sorted, new) = later
  <2>. DEFINE out == EntriesAt(sorted, new)
  <2>1. out \in Seq(U) /\ Ascending(out) /\ Entries(out) = {sorted[n] : n \in new}
    <3>. HIDE DEF new
    <3>. QED
      BY <1>14, <1>15, EntriesAtSelects, EntriesAtAre, SelectionAscends
  <2>2. Entries(out) = {x \in Entries(sorted) : ~IsUsed(useds, x.index)}
    <3>. HIDE DEF out
    <3>. QED
      BY <2>1 DEF Entries
  <2>3. Entries(out) = Entries(later)
    <3>. HIDE DEF out
    <3>. QED
      BY <1>6, <1>11, <1>14, <2>2
  <2>. HIDE DEF out
  <2>4. out = later
    BY <1>10, <2>1, <2>3, SameWhenSorted
  <2>. QED
    BY <2>4 DEF out
<1>17. \A x \in Entries(sorted) :
          \/ x \in Entries(useds) /\ ~IsIndexSquashed(receipt.squash, x.index)
          \/ \E u \in Entries(fresh) : x = UsedOf(u)
  BY <1>6, <1>11, <1>14
<1>18. later = [n \in DOMAIN fresh |-> UsedOf(fresh[n])]
  BY DEF later
<1>. DEFINE prep == PrepSub(receipt, useds, upper)
<1>. HIDE DEF prep
<1>19. prep.useds = sorted /\ prep.unlockeds = fresh
  BY <1>7 DEF prep
<1>20. SubIsSorted(prep, receipt, useds, upper)
  BY <1>5, <1>14, <1>16, <1>17, <1>18, <1>19 DEF SubIsSorted, bodies, new
<1>. QED
  BY <1>20 DEF prep
=============================================================================
