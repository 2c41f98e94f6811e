---------------------- MODULE KonduitSettlement_proofs ----------------------
(***************************************************************************)
(* Proofs about a payment channel from its first cheque to its end: what   *)
(* the provider is owed is what it has earned, no transaction of its       *)
(* wallet takes more, a squash that pays for it can always be formed, and  *)
(* the validator accepts the transactions the wallets build.               *)
(***************************************************************************)
EXTENDS KonduitSettlement, KonduitReceipt_proofs

-----------------------------------------------------------------------------
(* Squash bodies that leave out no index twice, and not 0.                 *)

Neat(body) ==
    body \in Squashes /\ StartOf(body) \in Points /\ 0 \notin Entries(body.exclude)

LEMMA NeatIs ==
    ASSUME NEW body
    PROVE  Neat(body) <=>
              /\ body \in Squashes
              /\ \A m, n \in DOMAIN body.exclude : body.exclude[m] = body.exclude[n] => m = n
              /\ 0 \notin Entries(body.exclude)
<1>1. StartOf(body).index = body.index /\ StartOf(body).exclude = body.exclude
      /\ StartOf(body) = [index |-> body.index, exclude |-> body.exclude]
  BY DEF StartOf
<1>2. ASSUME body \in Squashes
      PROVE  StartOf(body) \in Points <=>
                \A m, n \in DOMAIN body.exclude : body.exclude[m] = body.exclude[n] => m = n
  <2>1. body.index \in Nat /\ body.exclude \in Seq(Nat) /\ \A i \in Entries(body.exclude) : i < body.index
    BY <1>2 DEF Squashes
  <2>2. \A n \in DOMAIN body.exclude : body.exclude[n] <= body.index
    <3>1. \A n \in DOMAIN body.exclude : body.exclude[n] \in Nat /\ body.exclude[n] < body.index
      BY <2>1, ListEntries DEF Entries
    <3>. QED
      BY <2>1, <3>1
  <2>3. StartOf(body) \in [index : Nat, exclude : Seq(Nat)]
    BY <1>1, <2>1
  <2>. QED
    BY <1>1, <2>2, <2>3 DEF Points
<1>. QED
  BY <1>2 DEF Neat

LEMMA ZeroIsNeat == Neat(ZeroBody)
<1>1. ZeroBody \in Squashes /\ ZeroBody.exclude = <<>> /\ Entries(ZeroBody.exclude) = {}
  BY ZeroBodyCovers DEF ZeroBody, Entries
<1>. QED
  BY <1>1, NeatIs

\* The indexes left out when a squash is extended to index.
Longer(body, index) == body.exclude \o Between(body.index + 1, index)

LEMMA LongerIs ==
    ASSUME NEW body, Neat(body), NEW index \in Nat, body.index < index
    PROVE  /\ Longer(body, index) \in Seq(Nat)
           /\ Len(Longer(body, index)) = Len(body.exclude) + (index - (body.index + 1))
           /\ \A m, n \in DOMAIN Longer(body, index) :
                 Longer(body, index)[m] = Longer(body, index)[n] => m = n
           /\ \A i \in Entries(Longer(body, index)) :
                 i \in 1..(index - 1) /\ (i \in Entries(body.exclude) \/ i > body.index)
<1>. DEFINE left == body.exclude
            at == body.index
            gap == index - (at + 1)
            more == Between(at + 1, index)
            L == Len(left)
            all == left \o more
<1>1. /\ left \in Seq(Nat) /\ at \in Nat /\ L \in Nat /\ DOMAIN left = 1..L /\ gap \in Nat
      /\ \A n \in 1..L : left[n] \in Nat /\ left[n] < at /\ left[n] # 0 /\ left[n] \in Entries(left)
      /\ \A m, n \in 1..L : left[m] = left[n] => m = n
  <2>1. /\ left \in Seq(Nat) /\ at \in Nat /\ \A i \in Entries(left) : i < at
        /\ \A m, n \in DOMAIN left : left[m] = left[n] => m = n
        /\ 0 \notin Entries(left)
    BY NeatIs DEF Squashes
  <2>2. L \in Nat /\ DOMAIN left = 1..L /\ \A n \in 1..L : left[n] \in Nat
    BY <2>1, ListEntries
  <2>3. \A n \in 1..L : left[n] \in Entries(left)
    BY <2>2 DEF Entries
  <2>4. gap \in Nat
    BY <2>1
  <2>. HIDE DEF left, at, L, gap
  <2>. QED
    BY <2>1, <2>2, <2>3, <2>4
<1>2. more \in Seq(Nat) /\ Len(more) = gap /\ \A n \in 1..gap : more[n] = at + n
  <2>1. more = [n \in 1..gap |-> at + 1 + n - 1]
    BY DEF Between
  <2>2. \A n \in 1..gap : at + 1 + n - 1 = at + n /\ at + n \in Nat
    BY <1>1
  <2>. HIDE DEF more, gap
  <2>3. gap \in Nat /\ more \in [1..gap -> Nat] /\ \A n \in 1..gap : more[n] = at + n
    BY <1>1, <2>1, <2>2
  <2>4. more \in Seq(Nat)
    BY <2>3
  <2>5. Len(more) = gap
    BY <2>3, <2>4
  <2>. QED
    BY <2>3, <2>4, <2>5
<1>. HIDE DEF more, left, at, L
<1>3. /\ all \in Seq(Nat) /\ Len(all) = L + gap /\ DOMAIN all = 1..(L + gap)
      /\ \A n \in 1..L : all[n] = left[n]
      /\ \A n \in (L + 1)..(L + gap) : all[n] = at + (n - L)
  <2>. HIDE DEF gap
  <2>1. /\ all \in Seq(Nat) /\ Len(all) = Len(left) + Len(more) /\ DOMAIN all = 1..Len(all)
        /\ \A n \in 1..Len(left) : all[n] = left[n]
        /\ \A n \in 1..Len(more) : all[Len(left) + n] = more[n]
    <3>1. left \in Seq(Nat) /\ more \in Seq(Nat)
      BY <1>1, <1>2
    <3>. QED
      BY ONLY <3>1
  <2>. HIDE DEF all
  <2>2. \A n \in (L + 1)..(L + gap) : n - L \in 1..gap /\ L + (n - L) = n
    BY <1>1
  <2>3. \A n \in (L + 1)..(L + gap) : all[n] = more[n - L]
    BY <1>2, <2>1, <2>2 DEF L
  <2>. QED
    BY <1>2, <2>1, <2>2, <2>3 DEF L
<1>4. \A n \in DOMAIN all : n \in 1..L \/ n \in (L + 1)..(L + gap)
  BY <1>1, <1>3
<1>5. \A n \in (L + 1)..(L + gap) : at + (n - L) \in 1..(index - 1) /\ at + (n - L) > at
  BY <1>1
<1>. HIDE DEF all, gap
<1>6. ASSUME NEW m \in DOMAIN all, NEW n \in DOMAIN all, all[m] = all[n] PROVE m = n
  <2>1. CASE m \in 1..L /\ n \in 1..L
    BY <1>1, <1>3, <1>6, <2>1
  <2>2. CASE m \in 1..L /\ n \in (L + 1)..(L + gap)
    <3>1. left[m] = at + (n - L) /\ left[m] < at /\ left[m] \in Nat
      BY <1>1, <1>3, <1>6, <2>2
    <3>. QED
      BY <1>1, <1>5, <2>2, <3>1
  <2>3. CASE m \in (L + 1)..(L + gap) /\ n \in 1..L
    <3>1. left[n] = at + (m - L) /\ left[n] < at /\ left[n] \in Nat
      BY <1>1, <1>3, <1>6, <2>3
    <3>. QED
      BY <1>1, <1>5, <2>3, <3>1
  <2>4. CASE m \in (L + 1)..(L + gap) /\ n \in (L + 1)..(L + gap)
    <3>1. at + (m - L) = at + (n - L)
      BY <1>3, <1>6, <2>4
    <3>. QED
      BY <1>1, <2>4, <3>1
  <2>. QED
    BY <1>4, <2>1, <2>2, <2>3, <2>4
<1>7. ASSUME NEW i \in Entries(all)
      PROVE  i \in 1..(index - 1) /\ (i \in Entries(left) \/ i > at)
  <2>1. PICK n \in DOMAIN all : i = all[n]
    BY <1>7 DEF Entries
  <2>2. CASE n \in 1..L
    <3>1. i = left[n] /\ i \in Nat /\ i # 0 /\ i < at /\ i \in Entries(left)
      BY <1>1, <1>3, <2>1, <2>2
    <3>2. at < index
      BY DEF at
    <3>. QED
      BY <1>1, <3>1, <3>2
  <2>3. CASE n \in (L + 1)..(L + gap)
    BY <1>3, <1>5, <2>1, <2>3
  <2>. QED
    BY <1>4, <2>1, <2>2, <2>3
<1>8. Longer(body, index) = all
  BY DEF Longer, all, left, more, at
<1>. QED
  BY <1>3, <1>6, <1>7, <1>8 DEF L, gap, at, left

\* A selection from a list without repetitions has none.
LEMMA SelectedOnce ==
    ASSUME NEW T, NEW list \in Seq(T), NEW chosen,
           \A m, n \in DOMAIN list : list[m] = list[n] => m = n
    PROVE  \A j, k \in DOMAIN EntriesAt(list, chosen) :
              EntriesAt(list, chosen)[j] = EntriesAt(list, chosen)[k] => j = k
<1>. DEFINE out == EntriesAt(list, chosen)
<1>1. out \in Seq(T)
  BY EntriesAtSelects
<1>2. PICK places : IsSelection(out, list, chosen, Len(list), places)
  BY EntriesAtSelects DEF Selects
<1>. HIDE DEF out
<1>3. DOMAIN out = 1..Len(out) /\ Len(out) \in Nat /\ DOMAIN list = 1..Len(list) /\ Len(list) \in Nat
  BY <1>1, ListEntries
<1>4. \A k \in DOMAIN out : places[k] \in DOMAIN list /\ out[k] = list[places[k]]
  BY <1>2, <1>3 DEF IsSelection
<1>5. ASSUME NEW j \in DOMAIN out, NEW k \in DOMAIN out, out[j] = out[k] PROVE j = k
  <2>1. places[j] = places[k]
    BY <1>4, <1>5
  <2>2. ~(j < k) /\ ~(k < j)
    BY <1>2, <1>3, <1>4, <2>1 DEF IsSelection
  <2>. QED
    BY <1>3, <2>2
<1>. QED
  BY <1>5 DEF out

\* SquashBody::squash leaves a body neat.
LEMMA SquashedWithNeat ==
    ASSUME NEW body, Neat(body), NEW index \in Nat, NEW amount \in Nat, CanSquash(body, index)
    PROVE  Neat(SquashedWith(body, index, amount))
<1>. DEFINE new == SquashedWith(body, index, amount)
<1>1. body \in Squashes /\ new \in Squashes
  BY NeatIs, SquashedWithCovers
<1>2. /\ body.exclude \in Seq(Nat) /\ 0 \notin Entries(body.exclude)
      /\ \A m, n \in DOMAIN body.exclude : body.exclude[m] = body.exclude[n] => m = n
      /\ body = [amount |-> body.amount, index |-> body.index, exclude |-> body.exclude]
  BY <1>1, NeatIs DEF Squashes
<1>3. CASE Contains(body.exclude, index)
  <2>. DEFINE chosen == {n \in DOMAIN body.exclude : body.exclude[n] # index}
              less == EntriesAt(body.exclude, chosen)
  <2>1. new.exclude = less
    <3>1. Where(body.exclude, LAMBDA i : i # index) = less
      BY DEF Where, The
    <3>. HIDE DEF less
    <3>2. new = [body EXCEPT !.amount = @ + amount, !.exclude = less]
      BY <1>3, <3>1 DEF SquashedWith
    <3>. HIDE DEF new
    <3>. QED
      BY ONLY <1>2, <3>2
  <2>2. Entries(less) = {body.exclude[n] : n \in chosen}
    <3>1. chosen \subseteq DOMAIN body.exclude
      OBVIOUS
    <3>. HIDE DEF chosen
    <3>. QED
      BY <1>2, <3>1, EntriesAtAre
  <2>3. \A j, k \in DOMAIN less : less[j] = less[k] => j = k
    <3>. HIDE DEF chosen
    <3>. QED
      BY <1>2, SelectedOnce
  <2>4. 0 \notin Entries(less)
    <3>. HIDE DEF less
    <3>. QED
      BY <1>2, <2>2 DEF Entries
  <2>. HIDE DEF less, new
  <2>. QED
    BY <1>1, <2>1, <2>3, <2>4, NeatIs DEF new
<1>4. CASE ~Contains(body.exclude, index)
  <2>1. body.index < index
    BY <1>4 DEF CanSquash
  <2>2. new.exclude = Longer(body, index)
    BY <1>4 DEF SquashedWith, Longer
  <2>. HIDE DEF new
  <2>3. \A i \in Entries(new.exclude) : i \in 1..(index - 1)
    BY <2>1, <2>2, LongerIs
  <2>4. 0 \notin Entries(new.exclude)
    BY <2>3
  <2>5. \A m, n \in DOMAIN new.exclude : new.exclude[m] = new.exclude[n] => m = n
    BY <2>1, <2>2, LongerIs
  <2>. QED
    BY <1>1, <2>4, <2>5, NeatIs DEF new
<1>. QED
  BY <1>3, <1>4

\* A squash can be extended to a cheque of a list if whatever it then leaves
\* out stands in the list too, and the list is no longer than MaxExclude.
LEMMA CanExtend ==
    ASSUME NEW body, Neat(body), NEW index \in Nat, ~IsIndexSquashed(body, index),
           NEW list, DOMAIN list = 1..Len(list), Len(list) \in Nat, Len(list) <= MaxExclude,
           \A i \in 1..index : IsIndexSquashed(body, i) \/ Stands(list, i)
    PROVE  CanSquash(body, index)
<1>1. /\ body \in Squashes /\ body.index \in Nat /\ body.exclude \in Seq(Nat)
      /\ \A i \in Entries(body.exclude) : i < body.index
      /\ \A i \in Nat : Contains(body.exclude, i) <=> i \in Entries(body.exclude)
  BY NeatIs, ContainsIsEntry DEF Squashes
<1>2. CASE index <= body.index
  <2>1. index # body.index /\ index < body.index
    BY <1>1, <1>2 DEF IsIndexSquashed
  <2>2. Contains(body.exclude, index)
    BY <2>1 DEF IsIndexSquashed
  <2>. QED
    BY <2>2 DEF CanSquash
<1>3. CASE body.index < index
  <2>. DEFINE all == Longer(body, index)
              m == Len(all)
              f == [k \in 1..m |-> CHOOSE n \in DOMAIN list : list[n].body.index = all[k]]
  <2>1. /\ m \in Nat /\ DOMAIN all = 1..m
        /\ m = Len(body.exclude) + (index - (body.index + 1))
        /\ \A j, k \in 1..m : all[j] = all[k] => j = k
        /\ \A i \in Entries(all) :
              i \in 1..(index - 1) /\ (i \in Entries(body.exclude) \/ i > body.index)
    <3>. HIDE DEF all
    <3>1. all \in Seq(Nat)
      BY <1>3, LongerIs DEF all
    <3>2. m \in Nat /\ DOMAIN all = 1..m
      BY <3>1, ListEntries
    <3>. QED
      BY <1>3, <3>2, LongerIs DEF all
  <2>. HIDE DEF all, m
  <2>2. ASSUME NEW k \in 1..m PROVE f[k] \in DOMAIN list /\ list[f[k]].body.index = all[k]
    <3>1. all[k] \in Entries(all)
      BY <2>1 DEF Entries
    <3>2. all[k] \in 1..index /\ all[k] \in Nat
      BY <2>1, <3>1
    <3>3. ~IsIndexSquashed(body, all[k])
      <4>1. all[k] \in Entries(body.exclude) \/ all[k] > body.index
        BY <2>1, <3>1
      <4>. QED
        BY <1>1, <3>2, <4>1 DEF IsIndexSquashed
    <3>4. Stands(list, all[k])
      BY <3>2, <3>3
    <3>. QED
      BY <3>4 DEF Stands
  <2>3. \A k \in 1..m : f[k] \in 1..Len(list)
    BY <2>2
  <2>4. \A j, k \in 1..m : f[j] = f[k] => j = k
    <3>. HIDE DEF f
    <3>. QED
      BY <2>1, <2>2
  <2>5. m <= Len(list)
    <3>. HIDE DEF f
    <3>. QED
      BY <2>1, <2>3, <2>4, NoMore
  <2>6. Len(body.exclude) + (index - (body.index + 1)) <= MaxExclude
    BY <2>1, <2>5, MaxExcludeAssumption
  <2>7. body.exclude # <<>> => Last(body.exclude) < body.index + 1
    <3>1. ASSUME body.exclude # <<>> PROVE Last(body.exclude) \in Entries(body.exclude)
      <4>1. Len(body.exclude) \in DOMAIN body.exclude /\ Last(body.exclude) = body.exclude[Len(body.exclude)]
        BY <1>1, <3>1 DEF Last
      <4>. QED
        BY <4>1 DEF Entries
    <3>2. \A i \in Entries(body.exclude) : i \in Nat /\ i < body.index
      BY <1>1, ListEntries DEF Entries
    <3>. QED
      BY <1>1, <3>1, <3>2
  <2>8. Extends(body.exclude, body.index + 1, index)
    BY <1>1, <1>3, <2>6, <2>7 DEF Extends
  <2>. QED
    BY <1>3, <2>8 DEF CanSquash
<1>. QED
  BY <1>1, <1>2, <1>3

-----------------------------------------------------------------------------
(* The provider's book: the cheques it has accepted, and its receipt.      *)

\* Cheques are numbered from 1 on.
NoGaps(cs) == \A a \in cs : \A i \in 1..a.index : \E b \in cs : b.index = i

\* The receipt accounts for all of the cheques, its squash pays for those it
\* covers, and it holds no more than it has room for.
Books(book, cs) ==
    /\ Numbered(cs) /\ NoGaps(cs)
    /\ Accounts(book, cs) /\ PaysFor(book.squash, cs) /\ Neat(book.squash)
    /\ Len(book.cheques) <= MaxUnsquashed

\* What the provider has earned.
EarnedOf(book, cs) == CoveredOf(book.squash, cs) \cup OpenOf(book, cs)

LEMMA EarnedIs ==
    ASSUME NEW cs, NEW book
    PROVE  /\ CoveredOf(book.squash, cs) \in SUBSET cs /\ OpenOf(book, cs) \in SUBSET cs
           /\ EarnedOf(book, cs) \in SUBSET cs
  BY DEF EarnedOf, CoveredOf, OpenOf, AtPlaces

\* An index up to a cheque's is covered by the squash or stands in the receipt.
LEMMA NothingMissing ==
    ASSUME NEW cs, NEW book, Books(book, cs), NEW a \in cs, NEW i \in 1..a.index
    PROVE  IsIndexSquashed(book.squash, i) \/ Stands(book.cheques, i)
<1>1. PICK b \in cs : b.index = i
  BY DEF Books, NoGaps
<1>. QED
  BY <1>1 DEF Books, Accounts

\* One more unlocked cheque in a proposal.
ProposesNeatly(acc, squash, us, k) ==
    /\ acc.ok /\ Neat(acc.body)
    /\ Covered(acc.body) = Covered(squash) \cup {us[j].index : j \in 1..k}

\* The proposal can be formed.
LEMMA ProposalForms ==
    ASSUME NEW cs, NEW book, Books(book, cs)
    PROVE  Proposal(book).ok /\ Neat(Proposal(book).body)
<1>. DEFINE us == Unlockeds(book)
            n == Len(us)
            U == {Disclosed(a) : a \in OpenOf(book, cs)}
            held == book.squash
            list == book.cheques
<1>1. /\ Numbered(cs) /\ Accounts(book, cs) /\ PaysFor(held, cs) /\ Neat(held)
      /\ Len(list) <= MaxUnsquashed
  BY DEF Books
<1>2. /\ us \in Seq(U) /\ \A j, k \in DOMAIN us : us[j].index = us[k].index => j = k
      /\ n \in Nat /\ DOMAIN us = 1..n /\ \A k \in 1..n : us[k] \in U
  BY <1>1, UnlockedsAre, ListEntries
<1>3. held \in Squashes /\ Len(list) \in Nat /\ DOMAIN list = 1..Len(list)
  BY <1>1, AccountsIs
<1>4. ASSUME NEW k \in 1..n
      PROVE  /\ us[k].index \in Nat /\ us[k].amount \in Nat
             /\ \E a \in cs : a.index = us[k].index /\ ~IsIndexSquashed(held, us[k].index)
  <2>1. PICK a \in OpenOf(book, cs) : us[k] = Disclosed(a)
    BY <1>2
  <2>2. a \in cs
    BY EarnedIs
  <2>3. us[k].index = a.index /\ us[k].amount = a.amount /\ a.index \in Nat /\ a.amount \in Nat
    BY <1>1, <2>1, <2>2, DisclosedIs, NumberedAre
  <2>4. ~IsIndexSquashed(held, a.index)
    BY <1>1, <2>2, Disjoint DEF CoveredOf
  <2>. QED
    BY <2>2, <2>3, <2>4
<1>5. HaveIndexes(U)
  <2>1. ASSUME NEW a \in OpenOf(book, cs) PROVE Disclosed(a).index \in Nat /\ Disclosed(a).amount \in Nat
    <3>1. a \in cs
      BY EarnedIs
    <3>. QED
      BY <1>1, <3>1, DisclosedIs, NumberedAre
  <2>. QED
    BY <2>1 DEF HaveIndexes
<1>. HIDE DEF U
<1>6. PICK h : IsProposalWalk(h, n, book)
  BY <1>2, <1>3, <1>5, ProposalSteps
<1>. HIDE DEF us, n, held, list
<1>. DEFINE D == {k \in 0..n : ProposesNeatly(h[k], held, us, k)}
<1>7. 0 \in D
  <2>1. h[0].ok /\ h[0].body = held
    BY <1>6 DEF IsProposalWalk, held
  <2>2. {us[j].index : j \in 1..0} = {}
    OBVIOUS
  <2>3. ProposesNeatly(h[0], held, us, 0)
    BY <1>1, <2>1, <2>2 DEF ProposesNeatly
  <2>. QED
    BY <1>2, <2>3
<1>8. ASSUME NEW k \in 1..n, k - 1 \in D PROVE k \in D
  <2>. DEFINE old == h[k - 1]
              u == us[k]
              body == SquashedWith(old.body, u.index, u.amount)
  <2>1. old \in Proposals /\ h[k] = ProposalWith(old, u)
    <3>1. k - 1 \in 0..n
      BY <1>2
    <3>. QED
      BY <1>6, <3>1 DEF IsProposalWalk, us
  <2>2. old.ok /\ Neat(old.body) /\ Covered(old.body) = Covered(held) \cup {us[j].index : j \in 1..(k - 1)}
    BY <1>8 DEF ProposesNeatly
  <2>3. PICK a \in cs : a.index = u.index /\ ~IsIndexSquashed(held, u.index)
    BY <1>4
  <2>4. u.index \in Nat /\ u.amount \in Nat
    BY <1>4
  <2>5. ~IsIndexSquashed(old.body, u.index)
    <3>1. \A j \in 1..(k - 1) : us[j].index # u.index
      <4>1. \A j \in 1..(k - 1) : j \in DOMAIN us /\ k \in DOMAIN us /\ j # k
        BY <1>2
      <4>. QED
        BY <1>2, <4>1
    <3>2. u.index \notin Covered(held)
      BY <2>3 DEF Covered
    <3>. HIDE DEF old, u
    <3>3. u.index \notin Covered(old.body)
      BY <2>2, <3>1, <3>2
    <3>. QED
      BY <2>4, <3>3 DEF Covered
  <2>. HIDE DEF old, u
  <2>6. CanSquash(old.body, u.index)
    <3>1. \A i \in 1..u.index : IsIndexSquashed(old.body, i) \/ Stands(list, i)
      <4>1. ASSUME NEW i \in 1..u.index PROVE IsIndexSquashed(old.body, i) \/ Stands(list, i)
        <5>1. IsIndexSquashed(held, i) \/ Stands(list, i)
          BY <2>3, NothingMissing DEF held, list
        <5>2. i \in Nat
          BY <2>4
        <5>3. IsIndexSquashed(held, i) => i \in Covered(old.body)
          BY <2>2, <5>2 DEF Covered
        <5>. QED
          BY <5>1, <5>2, <5>3 DEF Covered
      <4>. QED
        BY <4>1
    <3>2. Len(list) <= MaxExclude
      BY <1>1, <1>3, CapacityAssumption, MaxExcludeAssumption, MaxUnsquashedAssumption
    <3>. QED
      BY <1>3, <2>2, <2>4, <2>5, <3>1, <3>2, CanExtend
  <2>7. Neat(body) /\ Covered(body) = Covered(old.body) \cup {u.index}
    <3>1. old.body \in Squashes
      BY <2>2, NeatIs
    <3>. HIDE DEF body
    <3>. QED
      BY <2>2, <2>4, <2>6, <3>1, SquashedWithNeat, SquashedWithCovers DEF body
  <2>. HIDE DEF body
  <2>8. h[k].ok /\ h[k].body = body
    <3>1. h[k] = [old EXCEPT !.body = body]
      BY <2>1, <2>2, <2>6 DEF ProposalWith, body
    <3>. QED
      BY <2>1, <2>2, <3>1 DEF Proposals
  <2>9. {us[j].index : j \in 1..k} = {us[j].index : j \in 1..(k - 1)} \cup {u.index}
    BY <1>2 DEF u
  <2>10. ProposesNeatly(h[k], held, us, k)
    BY <2>2, <2>7, <2>8, <2>9 DEF ProposesNeatly
  <2>. QED
    BY <1>2, <2>10
<1>9. \A k \in 0..n : k \in D
  <2>. HIDE DEF D
  <2>. QED
    BY <1>2, <1>7, <1>8, Climb
<1>10. ProposesNeatly(Proposal(book), held, us, n)
  BY <1>2, <1>6, <1>9 DEF IsProposalWalk
<1>. QED
  BY <1>10 DEF ProposesNeatly

\* It covers the unlocked cheques of the receipt and no others, and the
\* receipt takes it.
LEMMA ProposalTaken ==
    ASSUME NEW cs, NEW book, Books(book, cs)
    PROVE  /\ TakesSquash(book, Proposal(book).body)
           /\ PaysFor(Proposal(book).body, cs)
           /\ CoveredOf(Proposal(book).body, cs) = EarnedOf(book, cs)
           /\ \A n \in DOMAIN book.cheques :
                 IsIndexSquashed(Proposal(book).body, book.cheques[n].body.index) <=> book.cheques[n].unlocked
<1>. DEFINE body == Proposal(book).body
            list == book.cheques
<1>1. Numbered(cs) /\ Accounts(book, cs) /\ PaysFor(book.squash, cs) /\ Proposal(book).ok
  BY ProposalForms DEF Books
<1>2. PaysFor(body, cs) /\ CoveredOf(body, cs) = EarnedOf(book, cs)
  BY <1>1, ProposalPays DEF EarnedOf
<1>3. ASSUME NEW n \in DOMAIN list
      PROVE  IsIndexSquashed(body, list[n].body.index) <=> list[n].unlocked
  <2>1. list[n] \in Carries(cs) /\ ~IsIndexSquashed(book.squash, list[n].body.index)
    BY <1>1, AccountsIs DEF Accounts
  <2>2. PICK a \in cs : IsOf(list[n], a)
    BY <1>1, <2>1, CarriesAre
  <2>3. a.index = list[n].body.index
    BY <2>2 DEF IsOf
  <2>4. IsIndexSquashed(body, a.index) <=> a \in OpenOf(book, cs)
    <3>1. a \notin CoveredOf(book.squash, cs)
      BY <2>1, <2>3 DEF CoveredOf
    <3>2. IsIndexSquashed(body, a.index) <=> a \in EarnedOf(book, cs)
      BY <1>2 DEF CoveredOf
    <3>. QED
      BY <3>1, <3>2 DEF EarnedOf
  <2>5. \A m \in DOMAIN list : list[m].body.index = list[n].body.index => m = n
    BY <1>1 DEF Accounts, ListsEach
  <2>6. list[n].unlocked \in BOOLEAN
    BY <2>2 DEF IsOf
  <2>. HIDE DEF body, list
  <2>7. a \in OpenOf(book, cs) <=> list[n].unlocked
    BY <2>3, <2>5, <2>6 DEF OpenOf, AtPlaces, UnlockedPlaces, list
  <2>. QED
    BY <2>3, <2>4, <2>6, <2>7
<1>4. TakesSquash(book, body)
  <2>1. GonePlaces(book, body) = UnlockedPlaces(book)
    BY <1>3 DEF GonePlaces, UnlockedPlaces
  <2>2. Bodies(SquashedBy(book, body)) = Unlockeds(book)
    BY <1>1, <2>1, WithSquashIs, UnlockedsAre
  <2>3. body.amount = book.squash.amount + ListTotal(Unlockeds(book))
    <3>1. body.amount = Total(EarnedOf(book, cs))
      BY <1>2 DEF PaysFor
    <3>. QED
      BY <1>1, <3>1, OwedIs DEF Owed, EarnedOf
  <2>4. body.amount \in Nat
    BY <1>2 DEF PaysFor, Squashes
  <2>. QED
    BY <2>2, <2>3, <2>4 DEF TakesSquash
<1>. QED
  BY <1>2, <1>3, <1>4

-----------------------------------------------------------------------------
(* What an operation makes of the book, and of what has been earned.       *)

LEMMA NewBooks ==
    Books(NewReceipt(ZeroBody), {}) /\ EarnedOf(NewReceipt(ZeroBody), {}) = {}
<1>1. Numbered({}) /\ NoGaps({})
  BY FS_EmptySet DEF Numbered, Distinct, NoGaps
<1>2. CoveredOf(ZeroBody, {}) = {}
  BY DEF CoveredOf
<1>3. Total({}) = 0
  BY <1>1, TotalAdds DEF Numbered
<1>4. PaysFor(ZeroBody, {})
  BY <1>2, <1>3, ZeroBodyCovers DEF PaysFor, ZeroBody
<1>5. /\ Accounts(NewReceipt(ZeroBody), {}) /\ NewReceipt(ZeroBody).squash = ZeroBody
      /\ OpenOf(NewReceipt(ZeroBody), {}) = {}
  BY <1>4, NewAccounts
<1>6. NewReceipt(ZeroBody).cheques = <<>> /\ Len(<<>>) <= MaxUnsquashed
  BY MaxUnsquashedAssumption DEF NewReceipt
<1>7. Neat(NewReceipt(ZeroBody).squash)
  BY <1>5, ZeroIsNeat
<1>8. Books(NewReceipt(ZeroBody), {})
  BY <1>1, <1>4, <1>5, <1>6, <1>7 DEF Books
<1>. QED
  BY <1>2, <1>5, <1>8 DEF EarnedOf

\* A cheque of the index after the last, within capacity.
LEMMA LockedBooks ==
    ASSUME NEW cs, NEW book, Books(book, cs), Len(book.cheques) < MaxUnsquashed,
           NEW locked, TakesLocked(book, locked),
           locked.amount \in Nat, locked.amount > 0, locked.latch = Sha2(locked.latch[2]),
           locked = [index |-> locked.index, amount |-> locked.amount,
                     timeout |-> locked.timeout, latch |-> locked.latch]
    PROVE  /\ Books(WithLocked(book, locked), cs \cup {locked})
           /\ EarnedOf(WithLocked(book, locked), cs \cup {locked}) = EarnedOf(book, cs)
<1>. DEFINE new == WithLocked(book, locked)
            all == cs \cup {locked}
            top == MaxIndex(book)
<1>1. Numbered(cs) /\ NoGaps(cs) /\ Accounts(book, cs) /\ PaysFor(book.squash, cs) /\ Neat(book.squash)
  BY DEF Books
<1>2. locked.index = top + 1
  BY DEF TakesLocked
<1>3. /\ Numbered(all) /\ Accounts(new, all) /\ new.squash = book.squash
      /\ OpenOf(new, all) = OpenOf(book, cs)
  BY <1>1, <1>2, LockedAccounts
<1>4. top \in Nat /\ (top = 0 \/ \E a \in cs : a.index = top)
  <2>1. top \in Nat
    BY <1>1, MaxIndexAt
  <2>2. CASE top = book.squash.index
    BY <1>1, <2>1, <2>2 DEF PaysFor
  <2>3. CASE book.cheques # <<>> /\ top = Last(book.cheques).body.index
    <3>1. /\ book.cheques \in Seq(Carries(cs)) /\ DOMAIN book.cheques = 1..Len(book.cheques)
          /\ \A n \in DOMAIN book.cheques : book.cheques[n] \in Carries(cs)
      BY <1>1, AccountsIs
    <3>2. Last(book.cheques) \in Carries(cs)
      BY <2>3, <3>1 DEF Last
    <3>3. PICK a \in cs : IsOf(Last(book.cheques), a)
      BY <1>1, <3>2, CarriesAre
    <3>. QED
      BY <2>1, <2>3, <3>3 DEF IsOf
  <2>. QED
    BY <1>1, <2>1, <2>2, <2>3, MaxIndexAt
<1>5. NoGaps(all)
  <2>1. \A i \in 1..top : \E b \in cs : b.index = i
    <3>1. ASSUME NEW i \in 1..top PROVE \E b \in cs : b.index = i
      <4>1. top # 0
        BY <1>4, <3>1
      <4>. QED
        BY <1>1, <1>4, <3>1, <4>1 DEF NoGaps
    <3>. QED
      BY <3>1
  <2>2. \A i \in 1..(top + 1) : i \in 1..top \/ i = top + 1
    BY <1>4
  <2>. QED
    BY <1>1, <1>2, <2>1, <2>2 DEF NoGaps
<1>6. /\ PaysFor(book.squash, all)
      /\ CoveredOf(book.squash, all) = CoveredOf(book.squash, cs)
  <2>1. locked.index \in Nat /\ locked.index > top
    BY <1>2, <1>4
  <2>. QED
    BY <1>1, <2>1, NewPays
<1>7. Len(new.cheques) <= MaxUnsquashed
  <2>. DEFINE list == book.cheques
              c == [body |-> locked, unlocked |-> FALSE]
              out == Append(list, c)
  <2>1. list \in Seq(Carries(cs)) /\ Len(list) \in Nat
    BY <1>1, AccountsIs
  <2>2. new.cheques = out
    <3>1. new = [book EXCEPT !.cheques = out]
      BY DEF WithLocked
    <3>2. book = [squash |-> book.squash, cheques |-> book.cheques]
      BY <1>1, AccountsIs
    <3>. HIDE DEF new, out
    <3>. QED
      BY ONLY <3>1, <3>2
  <2>3. Len(out) = Len(list) + 1
    <3>. HIDE DEF list, c
    <3>. QED
      BY ONLY <2>1
  <2>. QED
    BY <2>1, <2>2, <2>3, MaxUnsquashedAssumption
<1>8. Books(new, all)
  BY <1>1, <1>3, <1>5, <1>6, <1>7 DEF Books
<1>9. EarnedOf(new, all) = EarnedOf(book, cs)
  BY <1>3, <1>6 DEF EarnedOf
<1>. QED
  BY <1>8, <1>9

\* A secret earns the cheques of its lock.
LEMMA SecretBooks ==
    ASSUME NEW cs, NEW book, Books(book, cs), NEW secret
    PROVE  /\ Books(WithSecretOf(book, secret), cs)
           /\ EarnedOf(WithSecretOf(book, secret), cs)
                 = EarnedOf(book, cs) \cup {a \in cs : a.latch = Sha2(secret)}
<1>. DEFINE new == WithSecretOf(book, secret)
            list == book.cheques
            out == [n \in DOMAIN list |-> OpenedBy(list[n], secret)]
<1>1. Numbered(cs) /\ NoGaps(cs) /\ Accounts(book, cs) /\ PaysFor(book.squash, cs) /\ Neat(book.squash)
  BY DEF Books
<1>2. /\ Accounts(new, cs) /\ new.squash = book.squash
      /\ \A a \in OpenOf(new, cs) : a \in OpenOf(book, cs) \/ a.latch = Sha2(secret)
  BY <1>1, SecretAccounts
<1>3. new.cheques = out
  <2>1. new = [book EXCEPT !.cheques = out]
    BY DEF WithSecretOf, OpenedBy
  <2>2. book = [squash |-> book.squash, cheques |-> book.cheques]
    BY <1>1, AccountsIs
  <2>. HIDE DEF out, new
  <2>. QED
    BY ONLY <2>1, <2>2
<1>4. /\ DOMAIN list = 1..Len(list) /\ Len(list) \in Nat
      /\ \A n \in DOMAIN list : list[n] \in Carries(cs)
  BY <1>1, AccountsIs
<1>5. /\ DOMAIN out = DOMAIN list /\ Len(out) = Len(list)
      /\ \A n \in DOMAIN list : out[n] = OpenedBy(list[n], secret)
  <2>1. DOMAIN out = DOMAIN list
    OBVIOUS
  <2>2. Len(out) = Len(list)
    <3>1. out \in Seq(Carries(cs))
      BY <1>2, <1>3, AccountsIs, <1>1
    <3>2. DOMAIN out = 1..Len(out) /\ Len(out) \in Nat
      <4>. HIDE DEF out
      <4>. QED
        BY <3>1, ListEntries
    <3>. HIDE DEF out
    <3>. QED
      BY <1>4, <2>1, <3>2
  <2>. QED
    BY <2>1, <2>2
<1>. HIDE DEF new, out
<1>6. ASSUME NEW n \in DOMAIN list, NEW a \in cs, IsOf(list[n], a)
      PROVE  /\ out[n].body.index = a.index
             /\ list[n].unlocked \/ a.latch = Sha2(secret) => out[n].unlocked
  <2>1. list[n].body.index = a.index /\ list[n].unlocked \in BOOLEAN
        /\ (~list[n].unlocked => list[n].body = a)
    BY <1>6 DEF IsOf
  <2>2. list[n] \in Carries(cs) /\ out[n] = OpenedBy(list[n], secret)
    BY <1>4, <1>5
  <2>3. out[n].body.index = a.index
    BY <1>1, <2>1, <2>2, OpenedCarried
  <2>4. CASE list[n].unlocked
    <3>1. out[n] = list[n]
      BY <2>2, <2>4 DEF OpenedBy, Opens
    <3>. QED
      BY <2>3, <2>4, <3>1
  <2>5. CASE ~list[n].unlocked /\ a.latch = Sha2(secret)
    <3>1. Opens(list[n], secret)
      BY <2>1, <2>5 DEF Opens
    <3>2. out[n].unlocked
      BY <2>2, <3>1 DEF OpenedBy
    <3>. QED
      BY <2>3, <3>2
  <2>. QED
    BY <2>1, <2>3, <2>4, <2>5
<1>7. ASSUME NEW a \in cs,
             a \in OpenOf(book, cs) \/ (a.latch = Sha2(secret) /\ ~IsIndexSquashed(book.squash, a.index))
      PROVE  a \in OpenOf(new, cs)
  <2>1. PICK n \in DOMAIN list : /\ list[n].body.index = a.index
                                 /\ a \in OpenOf(book, cs) => list[n].unlocked
    <3>1. CASE a \in OpenOf(book, cs)
      BY <3>1 DEF OpenOf, AtPlaces, UnlockedPlaces
    <3>2. CASE a \notin OpenOf(book, cs)
      BY <1>1, <1>7, <3>2 DEF Accounts, Stands
    <3>. QED
      BY <3>1, <3>2
  <2>2. PICK b \in cs : IsOf(list[n], b)
    BY <1>1, <1>4, CarriesAre
  <2>3. b = a
    BY <1>1, <2>1, <2>2, NumberedAre DEF IsOf
  <2>4. out[n].body.index = a.index /\ out[n].unlocked
    BY <1>6, <1>7, <2>1, <2>2, <2>3
  <2>. QED
    BY <1>3, <1>5, <2>4 DEF OpenOf, AtPlaces, UnlockedPlaces
<1>8. EarnedOf(new, cs) = EarnedOf(book, cs) \cup {a \in cs : a.latch = Sha2(secret)}
  <2>1. OpenOf(new, cs) \in SUBSET cs /\ OpenOf(book, cs) \in SUBSET cs
    BY EarnedIs
  <2>. QED
    BY <1>2, <1>7, <2>1 DEF EarnedOf, CoveredOf
<1>9. Books(new, cs)
  BY <1>1, <1>2, <1>3, <1>5 DEF Books
<1>. QED
  BY <1>8, <1>9 DEF new

\* The squash that was proposed takes the place of what it covers.
LEMMA SquashedBooks ==
    ASSUME NEW cs, NEW book, Books(book, cs)
    PROVE  LET new == WithSquash(book, Proposal(book).body)
           IN  Books(new, cs) /\ EarnedOf(new, cs) = EarnedOf(book, cs)
<1>. DEFINE body == Proposal(book).body
            new == WithSquash(book, body)
<1>1. Numbered(cs) /\ NoGaps(cs) /\ Accounts(book, cs) /\ PaysFor(book.squash, cs)
  BY DEF Books
<1>2. /\ TakesSquash(book, body) /\ PaysFor(body, cs) /\ Neat(body)
      /\ CoveredOf(body, cs) = EarnedOf(book, cs)
  BY ProposalForms, ProposalTaken
<1>. HIDE DEF body
<1>3. /\ Accounts(new, cs) /\ new.squash = body
      /\ OpenOf(new, cs) \subseteq OpenOf(book, cs)
  BY <1>1, <1>2, SquashedAccounts
<1>4. EarnedOf(new, cs) = EarnedOf(book, cs)
  BY <1>2, <1>3 DEF EarnedOf
<1>5. Len(new.cheques) <= MaxUnsquashed
  <2>1. new.cheques = EntriesAt(book.cheques, LeftPlaces(book, body))
    BY WithSquashIs
  <2>2. ListsEach(book.cheques, cs) /\ Len(book.cheques) \in Nat /\ Len(new.cheques) \in Nat
    BY <1>1, <1>3, AccountsIs DEF Accounts
  <2>3. Len(new.cheques) <= Len(book.cheques)
    BY <2>1, <2>2, SelectedEach
  <2>. QED
    BY <2>2, <2>3, MaxUnsquashedAssumption DEF Books
<1>6. Books(new, cs)
  BY <1>1, <1>2, <1>3, <1>5 DEF Books
<1>. QED
  BY <1>4, <1>6 DEF body

-----------------------------------------------------------------------------
(* The channel: what was taken is at most what is earned, the datum lists   *)
(* earned cheques, each once, and the pendings are cheques of the consumer. *)

Listed(useds, E) ==
    /\ useds \in Seq(UsedsOf(E))
    /\ \A j, k \in DOMAIN useds : useds[j].index = useds[k].index => j = k
PendsOf(cs) == {PendOf(c) : c \in cs}

IsOpened(ch, took, E) ==
    ch = OpenedWith(ch.amount, took, ch.useds) /\ ch.amount \in Nat /\ Listed(ch.useds, E)
IsClosed(ch, took, E) ==
    ch = ClosedWith(ch.amount, took, ch.useds, ch.elapseAt) /\ ch.amount \in Nat /\ Listed(ch.useds, E)
IsResponded(ch, cs) ==
    ch = RespondedWith(ch.amount, ch.pends) /\ ch.amount \in Nat /\ ch.pends \in Seq(PendsOf(cs))

Keeps(ch, took, E, cs) ==
    /\ took \in Nat /\ took <= Total(E)
    /\ ch = Spent \/ IsOpened(ch, took, E) \/ IsClosed(ch, took, E) \/ IsResponded(ch, cs)

LEMMA PartTotal ==
    ASSUME NEW cs, Distinct(cs), NEW B \in SUBSET cs, NEW A \in SUBSET B
    PROVE  Total(A) \in Nat /\ Total(B) \in Nat /\ Total(A) <= Total(B)
<1>1. Distinct(B)
  BY DistinctPart
<1>2. B \in SUBSET B
  OBVIOUS
<1>. QED
  BY <1>1, <1>2, TotalAdds

\* More cheques, and more of them earned, change nothing of it.
LEMMA KeepsStill ==
    ASSUME NEW all, Distinct(all), NEW cs \in SUBSET all, NEW F \in SUBSET all, NEW E \in SUBSET F,
           NEW ch, NEW took, Keeps(ch, took, E, cs)
    PROVE  Keeps(ch, took, F, all)
<1>1. took \in Nat /\ took <= Total(F)
  BY PartTotal DEF Keeps
<1>2. UsedsOf(E) \subseteq UsedsOf(F) /\ PendsOf(cs) \subseteq PendsOf(all)
  BY DEF UsedsOf, PendsOf
<1>3. \A useds : Listed(useds, E) => Listed(useds, F)
  BY <1>2, SeqGrows DEF Listed
<1>4. ch.pends \in Seq(PendsOf(cs)) => ch.pends \in Seq(PendsOf(all))
  BY <1>2, SeqGrows
<1>. QED
  BY <1>1, <1>3, <1>4 DEF Keeps, IsOpened, IsClosed, IsResponded

LEMMA UsedIs ==
    ASSUME NEW cs, Distinct(cs), NEW E \in SUBSET cs
    PROVE  /\ UsedsOf(E) \subseteq [index : Nat, amount : Nat]
           /\ HaveAmounts(UsedsOf(E)) /\ HaveAmounts(PendsOf(cs))
           /\ \A a \in cs : UsedOf(a) = [index |-> a.index, amount |-> a.amount]
  BY DEF UsedsOf, UsedOf, PendsOf, PendOf, HaveAmounts, Distinct

\* What a step of the provider gains is no more than it is owed since it took.
LEMMA GainIs ==
    ASSUME NEW ch, ch.amount \in Nat, ch.subbed \in Nat, NEW owed \in Nat
    PROVE  /\ GainOf(ch, owed) \in 0..ch.amount
           /\ ch.subbed + GainOf(ch, owed) <= owed \/ GainOf(ch, owed) = 0
  BY DEF GainOf, Least, Monus

\* The stage of a channel tells which it is.
LEMMA KeepsIs ==
    ASSUME NEW ch, NEW took, NEW E, NEW cs, Keeps(ch, took, E, cs), ch # Spent
    PROVE  /\ took \in Nat /\ took <= Total(E) /\ ch.amount \in Nat
           /\ ch.stage \in {"Opened", "Closed", "Responded"}
           /\ ch.stage = "Opened" => IsOpened(ch, took, E) /\ ch.subbed = took
           /\ ch.stage = "Closed" => IsClosed(ch, took, E) /\ ch.subbed = took
           /\ ch.stage = "Responded" => IsResponded(ch, cs)
<1>1. IsOpened(ch, took, E) => ch.stage = "Opened" /\ ch.subbed = took /\ ch.amount \in Nat
  BY DEF IsOpened, OpenedWith
<1>2. IsClosed(ch, took, E) => ch.stage = "Closed" /\ ch.subbed = took /\ ch.amount \in Nat
  BY DEF IsClosed, ClosedWith
<1>3. IsResponded(ch, cs) => ch.stage = "Responded" /\ ch.amount \in Nat
  BY DEF IsResponded, RespondedWith
<1>. QED
  BY <1>1, <1>2, <1>3 DEF Keeps

-----------------------------------------------------------------------------
(* The provider's Sub.                                                     *)

\* What the provider shows with a Sub vouches for what it has earned.
LEMMA BookVouches ==
    ASSUME NEW cs, NEW book, Books(book, cs), NEW signed, NEW upper
    PROVE  VouchedFor(signed, upper, EarnedOf(book, cs), {Disclosed(a) : a \in OpenOf(book, cs)})
<1>1. Numbered(cs)
  BY DEF Books
<1>2. ASSUME NEW a \in OpenOf(book, cs) PROVE UsedOf(Disclosed(a)) \in UsedsOf(EarnedOf(book, cs))
  <2>1. a \in cs /\ a \in EarnedOf(book, cs)
    BY EarnedIs DEF EarnedOf
  <2>2. UsedOf(Disclosed(a)) = UsedOf(a)
    BY <1>1, <2>1, DisclosedIs DEF UsedOf
  <2>. QED
    BY <2>1, <2>2 DEF UsedsOf
<1>. QED
  BY <1>2 DEF VouchedFor, Vouches

\* Its squash stands for what it covers.
LEMMA BookStands ==
    ASSUME NEW cs, NEW book, Books(book, cs)
    PROVE  StandsFor(book.squash, CoveredOf(book.squash, cs))
<1>. DEFINE held == book.squash
<1>1. Numbered(cs) /\ PaysFor(held, cs) /\ Neat(held)
  BY DEF Books
<1>2. /\ held \in Squashes /\ held.index \in Nat /\ held.exclude \in Seq(Nat)
      /\ \A i \in Entries(held.exclude) : i < held.index
      /\ \A i \in Nat : Contains(held.exclude, i) <=> i \in Entries(held.exclude)
  BY <1>1, NeatIs, ContainsIsEntry DEF Squashes
<1>3. ASSUME NEW c \in CoveredOf(held, cs) PROVE Accounted(StartOf(held), c.index)
  <2>1. c.index \in Nat /\ IsIndexSquashed(held, c.index)
    BY <1>1, NumberedAre DEF CoveredOf
  <2>2. c.index <= held.index /\ c.index \notin Entries(held.exclude)
    BY <1>2, <2>1 DEF IsIndexSquashed
  <2>. QED
    BY <2>2 DEF Accounted, StartOf
<1>. QED
  BY <1>1, <1>3 DEF StandsFor, PaysFor, Neat

LEMMA SubTakes ==
    ASSUME NEW cs, NEW book, Books(book, cs), NEW ch, NEW took,
           Keeps(ch, took, EarnedOf(book, cs), cs), ch # Spent, ch.stage = "Opened",
           NEW signed, NEW lower, NEW upper,
           NEW built, built = SubStepping(ch, book, upper), built # NoStepping,
           Verifies(signed, lower, upper, ch, built)
    PROVE  ~Ends(built) /\ Keeps(built.out, took + ch.amount - built.out.amount, EarnedOf(book, cs), cs)
<1>. DEFINE E == EarnedOf(book, cs)
            U == {Disclosed(a) : a \in OpenOf(book, cs)}
            prep == PrepSub(book, ch.useds, upper)
            owed == book.squash.amount + ListTotal(prep.useds)
            gain == GainOf(ch, owed)
            out == OpenedWith(ch.amount - gain, ch.subbed + gain, prep.useds)
            account == SubAccount(signed, upper, ch.useds, prep.useds, book.squash, prep.unlockeds)
<1>1. /\ took \in Nat /\ took <= Total(E) /\ ch.amount \in Nat /\ ch.subbed = took
      /\ Listed(ch.useds, E) /\ ch = OpenedWith(ch.amount, took, ch.useds)
  BY KeepsIs DEF IsOpened
<1>2. /\ Numbered(cs) /\ Accounts(book, cs) /\ Distinct(cs) /\ E \in SUBSET cs /\ Distinct(E)
      /\ CoveredOf(book.squash, cs) \in SUBSET E
      /\ book.squash.amount \in Nat
  <2>1. Numbered(cs) /\ Accounts(book, cs) /\ Distinct(cs)
    BY DEF Books, Numbered
  <2>2. E \in SUBSET cs /\ CoveredOf(book.squash, cs) \in SUBSET E
    BY EarnedIs DEF EarnedOf
  <2>. QED
    BY <2>1, <2>2, DistinctPart, AccountsIs
<1>3. /\ prep.useds \in Seq(UsedsOf(E)) /\ prep.unlockeds \in Seq(U)
  <2>1. Unlockeds(book) \in Seq(U) /\ ch.useds \in Seq(UsedsOf(E))
    BY <1>1, <1>2, UnlockedsAre DEF Listed
  <2>2. \A r \in U : UsedOf(r) \in UsedsOf(E)
    <3>1. ASSUME NEW a \in OpenOf(book, cs) PROVE UsedOf(Disclosed(a)) \in UsedsOf(E)
      <4>1. a \in cs /\ a \in E
        BY EarnedIs DEF EarnedOf
      <4>2. UsedOf(Disclosed(a)) = UsedOf(a)
        BY <1>2, <4>1, DisclosedIs DEF UsedOf
      <4>. QED
        BY <4>1, <4>2 DEF UsedsOf
    <3>. QED
      BY <3>1
  <2>. HIDE DEF U, E
  <2>. QED
    BY <2>1, <2>2, PrepSubStays
<1>4. ListTotal(prep.useds) \in Nat
  BY <1>2, <1>3, UsedIs, ListTotalTail
<1>5. built = SubOf(ch, book, prep)
  <2>1. {SubOf(ch, book, p) : p \in {prep}} = {SubOf(ch, book, prep)}
    OBVIOUS
  <2>2. built = The({SubOf(ch, book, prep)})
    BY <2>1 DEF SubStepping
  <2>. QED
    BY <2>2 DEF The
<1>. HIDE DEF prep
<1>6. owed \in Nat
  BY <1>2, <1>4
<1>. HIDE DEF owed
<1>7. gain \in 0..ch.amount
  BY <1>1, <1>6, GainIs
<1>8. /\ built.step = "Sub" /\ built.squash = book.squash
      /\ built.unlockeds = prep.unlockeds /\ built.out = out
  <2>. HIDE DEF out, gain
  <2>. QED
    BY <1>5 DEF SubOf, NoStepping, owed, gain, out
<1>. HIDE DEF gain
<1>9. /\ out.stage = "Opened" /\ out.amount = ch.amount - gain /\ out.subbed = took + gain
      /\ out.useds = prep.useds /\ out = OpenedWith(out.amount, out.subbed, out.useds)
  BY <1>1 DEF OpenedWith
<1>10. ~Ends(built)
  BY <1>8 DEF Ends
<1>11. account.ok /\ out.subbed <= account.owed
  <2>1. StepHolds(signed, lower, upper, Buffered(ch), Buffered(built.out), built)
    BY <1>10 DEF Verifies
  <2>2. SubStep(signed, upper, Buffered(ch), Buffered(built.out), built.squash, built.unlockeds)
    BY <1>8, <2>1 DEF StepHolds
  <2>3. Buffered(ch).useds = ch.useds
    BY <1>1 DEF Buffered, OpenedWith
  <2>4. Buffered(out).useds = prep.useds /\ Buffered(out).subbed = out.subbed
    <3>. HIDE DEF out
    <3>. QED
      BY <1>9 DEF Buffered, OpenedWith
  <2>. HIDE DEF out
  <2>. QED
    BY <1>8, <2>2, <2>3, <2>4 DEF SubStep
<1>. HIDE DEF out
<1>12. /\ account.owed \in 0..Total(E)
       /\ \A j, k \in DOMAIN prep.useds : prep.useds[j].index = prep.useds[k].index => j = k
  <2>1. VouchedFor(signed, upper, E, U) /\ StandsFor(book.squash, CoveredOf(book.squash, cs))
    BY BookVouches, BookStands
  <2>2. prep.useds \in Seq([index : Nat, amount : Nat])
    BY <1>2, <1>3, UsedIs, SeqGrows
  <2>3. ch.useds \in Seq(UsedsOf(E))
    BY <1>1 DEF Listed
  <2>. DEFINE S == CoveredOf(book.squash, cs)
              us == prep.useds
              shown == prep.unlockeds
  <2>4. /\ Distinct(E) /\ VouchedFor(signed, upper, E, U) /\ ch.useds \in Seq(UsedsOf(E))
        /\ us \in Seq([index : Nat, amount : Nat]) /\ shown \in Seq(U)
        /\ S \in SUBSET E /\ StandsFor(book.squash, S)
        /\ account = SubAccount(signed, upper, ch.useds, us, book.squash, shown) /\ account.ok
    BY <1>2, <1>3, <1>11, <2>1, <2>2, <2>3
  <2>. HIDE DEF U, E, S, us, shown, account
  <2>5. /\ account.owed \in 0..Total(E)
        /\ \A j, k \in DOMAIN us : us[j].index = us[k].index => j = k
    BY ONLY <2>4, SubOwesCovered
  <2>. QED
    BY <2>5 DEF us
<1>13. took + ch.amount - out.amount = took + gain /\ took + gain \in Nat /\ took + gain <= Total(E)
  <2>1. Total(E) \in Nat
    BY <1>2, PartTotal
  <2>. QED
    BY <1>1, <1>7, <1>9, <1>11, <1>12, <2>1
<1>14. Listed(out.useds, E)
  BY <1>3, <1>9, <1>12 DEF Listed
<1>15. IsOpened(out, took + gain, E)
  BY <1>1, <1>7, <1>9, <1>14 DEF IsOpened
<1>. QED
  BY <1>8, <1>10, <1>13, <1>15 DEF Keeps

-----------------------------------------------------------------------------
(* The provider's Respond.                                                 *)

\* What a list of useds stands for.
ListedOf(useds, E) == {a \in E : \E n \in DOMAIN useds : useds[n].index = a.index}

LEMMA UsedsTotal ==
    ASSUME NEW E, Distinct(E), NEW useds, Listed(useds, E)
    PROVE  ListTotal(useds) = Total(ListedOf(useds, E))
<1>. DEFINE D == DOMAIN useds
            v == [n \in D |-> useds[n].amount]
            w == [a \in E |-> a.amount]
            f == [n \in D |-> CHOOSE a \in E : UsedOf(a) = useds[n]]
<1>1. /\ D = 1..Len(useds) /\ Len(useds) \in Nat
      /\ \A n \in D : useds[n] \in UsedsOf(E)
      /\ \A j, k \in D : useds[j].index = useds[k].index => j = k
  BY ListEntries DEF Listed
<1>2. \A n \in D : f[n] \in E /\ UsedOf(f[n]) = useds[n]
  BY <1>1 DEF UsedsOf
<1>. HIDE DEF f
<1>3. \A n \in D : f[n].index = useds[n].index /\ f[n].amount = useds[n].amount /\ f[n].amount \in Nat
  BY <1>2 DEF UsedOf, Distinct
<1>4. \A n \in D : v[n] = w[f[n]] /\ v[n] \in Nat
  BY <1>2, <1>3
<1>5. \A j, k \in D : f[j] = f[k] => j = k
  BY <1>1, <1>3
<1>6. Image(f, D) = ListedOf(useds, E)
  <2>1. \A a \in Image(f, D) : a \in ListedOf(useds, E)
    BY <1>2, <1>3 DEF Image, ListedOf
  <2>2. ASSUME NEW a \in ListedOf(useds, E) PROVE a \in Image(f, D)
    <3>1. PICK n \in D : useds[n].index = a.index
      BY <2>2 DEF ListedOf
    <3>2. f[n] = a
      BY <1>2, <1>3, <2>2, <3>1 DEF ListedOf, Distinct
    <3>. QED
      BY <3>2 DEF Image
  <2>. QED
    BY <2>1, <2>2
<1>7. IsFiniteSet(D)
  BY <1>1, FS_Interval
<1>8. ListTotal(useds) = SumOver(D, v)
  BY ListTotalIsSum
<1>9. \A a \in ListedOf(useds, E) : w[a] = a.amount
  BY DEF ListedOf
<1>. HIDE DEF v, w, D
<1>10. SumOver(D, v) = SumOver(Image(f, D), w)
  BY <1>4, <1>5, <1>7, SumMoved
<1>11. Total(ListedOf(useds, E)) = SumOver(ListedOf(useds, E), w)
  BY <1>9, TotalIsSum
<1>. QED
  BY <1>6, <1>8, <1>10, <1>11

\* The useds that a squash leaves are still listed, each once.
LEMMA LeftListed ==
    ASSUME NEW E, NEW useds, Listed(useds, E), NEW chosen, chosen \subseteq DOMAIN useds
    PROVE  /\ Listed(EntriesAt(useds, chosen), E)
           /\ \A a \in ListedOf(EntriesAt(useds, chosen), E) :
                 \E n \in chosen : useds[n].index = a.index
<1>. DEFINE out == EntriesAt(useds, chosen)
<1>1. /\ useds \in Seq(UsedsOf(E)) /\ DOMAIN useds = 1..Len(useds) /\ Len(useds) \in Nat
      /\ \A j, k \in DOMAIN useds : useds[j].index = useds[k].index => j = k
  BY ListEntries DEF Listed
<1>2. out \in Seq(UsedsOf(E)) /\ Entries(out) = {useds[n] : n \in chosen}
  BY <1>1, EntriesAtSelects, EntriesAtAre
<1>3. PICK places : IsSelection(out, useds, chosen, Len(useds), places)
  BY <1>1, EntriesAtSelects DEF Selects
<1>. HIDE DEF out
<1>4. DOMAIN out = 1..Len(out) /\ Len(out) \in Nat
  BY <1>2, ListEntries
<1>5. \A k \in DOMAIN out : places[k] \in DOMAIN useds /\ out[k] = useds[places[k]]
  BY <1>1, <1>3, <1>4 DEF IsSelection
<1>6. ASSUME NEW j \in DOMAIN out, NEW k \in DOMAIN out, out[j].index = out[k].index PROVE j = k
  <2>1. places[j] = places[k]
    BY <1>1, <1>5, <1>6
  <2>2. ~(j < k) /\ ~(k < j)
    BY <1>1, <1>3, <1>4, <1>5, <2>1 DEF IsSelection
  <2>. QED
    BY <1>4, <2>2
<1>7. ASSUME NEW a \in ListedOf(out, E) PROVE \E n \in chosen : useds[n].index = a.index
  <2>1. PICK k \in DOMAIN out : out[k].index = a.index
    BY <1>7 DEF ListedOf
  <2>2. out[k] \in Entries(out)
    BY DEF Entries
  <2>. QED
    BY <1>2, <2>1, <2>2
<1>. QED
  BY <1>2, <1>6, <1>7 DEF Listed, out

\* A Respond lists cheques the datum does not: what it claims are the squashed
\* cheques, the listed ones that are left, and unlocked ones put forward.
LEMMA RespondClaims ==
    ASSUME NEW cs, NEW book, Books(book, cs), NEW useds, Listed(useds, EarnedOf(book, cs)), NEW upper
    PROVE  LET prep == PrepRespond(book, useds, upper)
           IN  /\ book.squash.amount + prep.amount \in 0..Total(EarnedOf(book, cs))
               /\ prep.pends \in Seq(PendsOf(cs))
<1>. DEFINE E == EarnedOf(book, cs)
            prep == PrepRespond(book, useds, upper)
            list == book.cheques
            U == {n \in DOMAIN useds : ~IsIndexSquashed(book.squash, useds[n].index)}
            left == EntriesAt(useds, U)
            F == {n \in DOMAIN list : IsFresh(useds, upper, list[n].body)}
            fresh == EntriesAt(list, F)
            O == {n \in DOMAIN fresh : fresh[n].unlocked}
            open == EntriesAt(fresh, O)
            L == {n \in DOMAIN fresh : ~fresh[n].unlocked}
            locked == EntriesAt(fresh, L)
            A == CoveredOf(book.squash, cs)
            B == ListedOf(left, E)
            C == AtPlaces(fresh, O, cs)
<1>1. /\ Numbered(cs) /\ Accounts(book, cs) /\ PaysFor(book.squash, cs) /\ Distinct(cs)
      /\ E \in SUBSET cs /\ Distinct(E) /\ A \in SUBSET E
  <2>1. Numbered(cs) /\ Accounts(book, cs) /\ PaysFor(book.squash, cs) /\ Distinct(cs)
    BY DEF Books, Numbered
  <2>2. E \in SUBSET cs /\ A \in SUBSET E
    BY EarnedIs DEF EarnedOf
  <2>. QED
    BY <2>1, <2>2, DistinctPart
<1>2. Unsquashed(book, useds) = left
  BY DEF Unsquashed, Where, The
<1>3. Where(list, LAMBDA c : IsFresh(useds, upper, c.body)) = fresh
  BY DEF Where, The
<1>4. /\ ListsEach(list, cs) /\ list \in Seq(Carries(cs))
      /\ fresh \in Seq(Carries(cs)) /\ Entries(fresh) = {list[n] : n \in F}
      /\ ListsEach(fresh, cs)
  <2>1. ListsEach(list, cs) /\ list \in Seq(Carries(cs))
    BY <1>1, AccountsIs DEF Accounts
  <2>2. F \subseteq DOMAIN list
    OBVIOUS
  <2>. HIDE DEF F
  <2>. QED
    BY <2>1, <2>2, EntriesAtSelects, EntriesAtAre, SelectedEach
<1>5. left = EntriesAt(useds, U) /\ U \subseteq DOMAIN useds
  OBVIOUS
<1>6. /\ Listed(left, E)
      /\ \A a \in B : IsUsed(useds, a.index) /\ ~IsIndexSquashed(book.squash, a.index)
  <2>. HIDE DEF U
  <2>1. Listed(left, E) /\ \A a \in B : \E n \in U : useds[n].index = a.index
    BY <1>5, LeftListed
  <2>. HIDE DEF B
  <2>. QED
    BY <2>1 DEF U, IsUsed
<1>7. B \in SUBSET E
  BY DEF ListedOf
<1>. HIDE DEF left, B, E
<1>8. Where(fresh, LAMBDA c : c.unlocked) = open /\ Where(fresh, LAMBDA c : ~c.unlocked) = locked
  <2>1. Where(fresh, LAMBDA c : c.unlocked) = open
    BY DEF Where, The
  <2>2. Where(fresh, LAMBDA c : ~c.unlocked) = locked
    BY DEF Where, The
  <2>. QED
    BY <2>1, <2>2
<1>9. \A c \in Entries(fresh) : \E n \in DOMAIN list : c = list[n] /\ ~IsUsed(useds, c.body.index)
  BY <1>4 DEF IsFresh
<1>. HIDE DEF fresh, F
<1>10. /\ prep.amount = ListTotal(left) + ListTotal(Bodies(open))
       /\ prep.pends = [n \in DOMAIN locked |-> PendOf(locked[n].body)]
  <2>. HIDE DEF open, locked
  <2>. QED
    BY <1>2, <1>3, <1>8 DEF PrepRespond
<1>11. ListTotal(left) = Total(B)
  BY <1>1, <1>6, UsedsTotal DEF B
<1>12. ListTotal(Bodies(open)) = Total(C)
  BY <1>1, <1>4, ListTotalOf
<1>13. \A a \in C : a \in OpenOf(book, cs) /\ ~IsUsed(useds, a.index)
  <2>1. ASSUME NEW a \in C PROVE a \in OpenOf(book, cs) /\ ~IsUsed(useds, a.index)
    <3>1. PICK n \in DOMAIN fresh : fresh[n].unlocked /\ fresh[n].body.index = a.index /\ a \in cs
      BY <2>1 DEF AtPlaces
    <3>2. PICK m \in DOMAIN list : fresh[n] = list[m] /\ ~IsUsed(useds, fresh[n].body.index)
      BY <1>9 DEF Entries
    <3>. QED
      BY <3>1, <3>2 DEF OpenOf, AtPlaces, UnlockedPlaces
  <2>. QED
    BY <2>1
<1>14. C \in SUBSET E
  BY <1>13 DEF E, EarnedOf
<1>15. A \cap B = {} /\ (A \cup B) \cap C = {}
  <2>1. A \cap OpenOf(book, cs) = {}
    BY <1>1, Disjoint
  <2>2. \A a \in A : IsIndexSquashed(book.squash, a.index)
    BY DEF CoveredOf
  <2>. HIDE DEF A, C
  <2>. QED
    BY <1>6, <1>13, <2>1, <2>2
<1>16. book.squash.amount = Total(A)
  BY <1>1 DEF PaysFor
<1>. HIDE DEF A, C, open
<1>17. Total(A) + (Total(B) + Total(C)) \in 0..Total(E)
  <2>1. Total(A \cup B) = Total(A) + Total(B) /\ Total(A) \in Nat /\ Total(B) \in Nat
    BY <1>1, <1>7, <1>15, TotalOfBoth
  <2>. DEFINE AB == A \cup B
              ABC == AB \cup C
  <2>2. AB \in SUBSET E /\ AB \cap C = {} /\ ABC \in SUBSET E
    BY <1>1, <1>7, <1>14, <1>15
  <2>3. Total(AB) = Total(A) + Total(B)
    BY <2>1
  <2>. HIDE DEF AB
  <2>4. Total(ABC) = Total(AB) + Total(C) /\ Total(C) \in Nat
    <3>1. Distinct(E) /\ AB \in SUBSET E /\ C \in SUBSET E /\ AB \cap C = {}
      BY <1>1, <1>14, <2>2
    <3>. QED
      BY ONLY <3>1, TotalOfBoth
  <2>. HIDE DEF ABC
  <2>5. Total(ABC) <= Total(E) /\ Total(E) \in Nat
    BY <1>1, <2>2, PartTotal
  <2>. QED
    BY <2>1, <2>3, <2>4, <2>5
<1>18. prep.pends \in Seq(PendsOf(cs))
  <2>1. L \subseteq DOMAIN fresh
    OBVIOUS
  <2>2. locked \in Seq(Carries(cs)) /\ Entries(locked) = {fresh[n] : n \in L}
    <3>. HIDE DEF L
    <3>. QED
      BY <1>4, <2>1, EntriesAtSelects, EntriesAtAre
  <2>3. \A c \in Entries(locked) : ~c.unlocked
    BY <2>2
  <2>. HIDE DEF locked, L
  <2>4. DOMAIN locked = 1..Len(locked) /\ Len(locked) \in Nat /\ \A n \in DOMAIN locked : locked[n] \in Carries(cs)
    BY <2>2, ListEntries
  <2>5. ASSUME NEW n \in DOMAIN locked PROVE PendOf(locked[n].body) \in PendsOf(cs)
    <3>1. PICK a \in cs : IsOf(locked[n], a)
      BY <1>1, <2>4, CarriesAre
    <3>2. ~locked[n].unlocked
      BY <2>3 DEF Entries
    <3>3. locked[n].body = a
      BY <3>1, <3>2 DEF IsOf
    <3>. QED
      BY <3>3 DEF PendsOf
  <2>. HIDE DEF prep
  <2>6. prep.pends = [n \in 1..Len(locked) |-> PendOf(locked[n].body)]
        /\ \A n \in 1..Len(locked) : PendOf(locked[n].body) \in PendsOf(cs)
    BY <1>10, <2>4, <2>5
  <2>. QED
    BY <2>4, <2>6
<1>. HIDE DEF prep
<1>19. book.squash.amount + prep.amount \in 0..Total(E)
  BY <1>10, <1>11, <1>12, <1>16, <1>17
<1>. QED
  BY <1>18, <1>19 DEF prep, E

LEMMA RespondTakes ==
    ASSUME NEW cs, NEW book, Books(book, cs), NEW ch, NEW took,
           Keeps(ch, took, EarnedOf(book, cs), cs), ch # Spent, ch.stage = "Closed",
           NEW upper, NEW built, built = RespondStepping(ch, book, upper)
    PROVE  ~Ends(built) /\ Keeps(built.out, took + ch.amount - built.out.amount, EarnedOf(book, cs), cs)
<1>. DEFINE E == EarnedOf(book, cs)
            prep == PrepRespond(book, ch.useds, upper)
            owed == book.squash.amount + prep.amount
            gain == GainOf(ch, owed)
            out == RespondedWith(ch.amount - gain, prep.pends)
<1>1. took \in Nat /\ took <= Total(E) /\ ch.amount \in Nat /\ ch.subbed = took /\ Listed(ch.useds, E)
  BY KeepsIs DEF IsClosed
<1>2. owed \in 0..Total(E) /\ prep.pends \in Seq(PendsOf(cs))
  BY <1>1, RespondClaims
<1>3. Total(E) \in Nat
  <2>1. Distinct(cs) /\ E \in SUBSET cs
    BY EarnedIs DEF Books, Numbered
  <2>. HIDE DEF E
  <2>. QED
    BY <2>1, PartTotal
<1>4. built.step = "Respond" /\ built.out = out
  <2>. HIDE DEF out
  <2>. QED
    BY DEF RespondStepping, out, gain, owed, prep
<1>. HIDE DEF prep, owed
<1>5. gain \in 0..ch.amount /\ (took + gain <= owed \/ gain = 0)
  BY <1>1, <1>2, <1>3, GainIs
<1>. HIDE DEF gain
<1>6. /\ out.amount = ch.amount - gain /\ out.pends = prep.pends
      /\ out = RespondedWith(out.amount, out.pends)
  BY DEF RespondedWith
<1>. HIDE DEF out
<1>7. /\ took + ch.amount - out.amount = took + gain /\ took + gain \in Nat
      /\ took + gain <= Total(E) /\ out.amount \in Nat
  BY <1>1, <1>2, <1>3, <1>5, <1>6
<1>8. IsResponded(out, cs)
  BY <1>2, <1>6, <1>7 DEF IsResponded
<1>. QED
  BY <1>4, <1>7, <1>8 DEF Keeps, Ends

-----------------------------------------------------------------------------
(* The provider's Unlock.                                                  *)

Dated(cs) == \A a \in cs : a.timeout \in Nat

\* A pending that is out of time is not unlocked, and the builder reveals no
\* other: the Unlock that is built keeps everything, and so takes nothing.
LEMMA UnlockTakes ==
    ASSUME NEW cs, Dated(cs), NEW book, Books(book, cs), NEW ch, NEW took,
           Keeps(ch, took, EarnedOf(book, cs), cs), ch # Spent, ch.stage = "Responded",
           NEW signed, NEW lower, NEW upper \in Nat,
           NEW built, built = UnlockStepping(ch, book, upper),
           Verifies(signed, lower, upper, ch, built)
    PROVE  ~Ends(built) /\ Keeps(built.out, took + ch.amount - built.out.amount, EarnedOf(book, cs), cs)
<1>. DEFINE E == EarnedOf(book, cs)
            pends == ch.pends
            known(pend) == {s \in Secrets(book) : Sha2(s) = pend.lock}
            Unpend(pend) == IF pend.timeout >= upper \/ known(pend) = {} THEN Keep
                            ELSE CHOOSE s \in known(pend) : TRUE
            unpends == [n \in DOMAIN pends |-> Unpend(pends[n])]
            chosen == {n \in DOMAIN pends : Unpend(pends[n]) # Keep}
            revealed == EntriesAt(pends, chosen)
            out == RespondedWith(Monus(ch.amount, ListTotal(revealed)), revealed)
<1>1. /\ took \in Nat /\ took <= Total(E) /\ ch.amount \in Nat /\ pends \in Seq(PendsOf(cs))
      /\ ch = RespondedWith(ch.amount, pends)
  BY KeepsIs DEF IsResponded
<1>2. /\ DOMAIN pends = 1..Len(pends) /\ Len(pends) \in Nat
      /\ \A n \in DOMAIN pends : pends[n].timeout \in Nat
  <2>1. \A p \in PendsOf(cs) : p.timeout \in Nat
    BY DEF PendsOf, PendOf, Dated
  <2>. QED
    BY <1>1, <2>1, ListEntries
<1>3. HaveAmounts(PendsOf(cs))
  BY EarnedIs, UsedIs DEF Books, Numbered
<1>4. built.step = "Unlock" /\ built.unpends = unpends /\ built.out = out
  <2>1. Where(pends, LAMBDA pend : Unpend(pend) # Keep) = revealed
    BY DEF Where, The
  <2>. HIDE DEF revealed
  <2>. QED
    BY <2>1 DEF UnlockStepping
<1>5. \A n \in DOMAIN pends : Unpend(pends[n]) # Keep => pends[n].timeout < upper
  BY <1>2
<1>6. \A n \in DOMAIN pends : unpends[n] = Unpend(pends[n])
  OBVIOUS
<1>7. DOMAIN unpends = DOMAIN pends
  OBVIOUS
<1>. DEFINE V == {Unpend(pends[n]) : n \in DOMAIN pends}
<1>8. unpends \in Seq(V)
  <2>1. \A n \in DOMAIN pends : Unpend(pends[n]) \in V
    OBVIOUS
  <2>. HIDE DEF V, Unpend
  <2>2. unpends \in [1..Len(pends) -> V]
    BY <1>2, <2>1
  <2>. QED
    BY <1>2, <2>2
<1>. HIDE DEF unpends, Unpend, revealed, V
<1>9. /\ out.pends = revealed /\ out.stage = "Responded"
      /\ out.amount = Monus(ch.amount, ListTotal(revealed))
      /\ out = RespondedWith(out.amount, out.pends)
  BY DEF RespondedWith
<1>10. revealed \in Seq(PendsOf(cs))
  BY <1>1, EntriesAtSelects DEF revealed
<1>. HIDE DEF out
<1>11. ~Ends(built)
  BY <1>4 DEF Ends
<1>12. UnlockAccount(upper, unpends, pends, revealed).ok
  <2>1. StepHolds(signed, lower, upper, Buffered(ch), Buffered(built.out), built)
    BY <1>11 DEF Verifies
  <2>2. UnlockStep(upper, Buffered(ch), Buffered(out), unpends)
    BY <1>4, <2>1 DEF StepHolds
  <2>3. Buffered(ch).pends = pends
    BY <1>1 DEF Buffered, RespondedWith
  <2>4. Buffered(out).pends = revealed
    BY <1>9 DEF Buffered, RespondedWith
  <2>. QED
    BY <2>2, <2>3, <2>4 DEF UnlockStep
<1>13. \A n \in DOMAIN pends : unpends[n] = Keep \/ UnlockSettles(upper, pends[n], unpends[n])
  <2>. HIDE DEF pends
  <2>. QED
    BY <1>1, <1>3, <1>7, <1>8, <1>10, <1>12, UnlockSettlesEach
<1>14. \A n \in DOMAIN pends : Unpend(pends[n]) = Keep
  BY <1>2, <1>5, <1>6, <1>13 DEF UnlockSettles
<1>15. revealed = <<>>
  <2>1. chosen \subseteq DOMAIN pends /\ chosen = {}
    BY <1>14
  <2>2. Entries(revealed) = {pends[n] : n \in chosen}
    <3>. HIDE DEF chosen, pends
    <3>. QED
      BY <1>1, <2>1, EntriesAtAre DEF revealed
  <2>3. DOMAIN revealed = {}
    BY <2>1, <2>2 DEF Entries
  <2>. QED
    BY <1>10, <2>3
<1>16. ListTotal(revealed) = 0
  BY <1>3, <1>10, <1>15, ListTotalTail
<1>17. out.amount = ch.amount
  BY <1>1, <1>9, <1>16 DEF Monus
<1>18. took + ch.amount - out.amount = took
  BY <1>1, <1>17
<1>19. IsResponded(out, cs)
  BY <1>1, <1>9, <1>10, <1>17 DEF IsResponded
<1>. QED
  BY <1>1, <1>4, <1>11, <1>18, <1>19 DEF Keeps

-----------------------------------------------------------------------------
(* The consumer's transactions, which take nothing for the provider.       *)

LEMMA AddKeeps ==
    ASSUME NEW cs, NEW E, NEW ch, NEW took, Keeps(ch, took, E, cs), ch # Spent,
           NEW amount \in Nat, NEW built \in {AddStepping(ch, amount)} \ {NoStepping}
    PROVE  ~Ends(built) /\ Keeps(built.out, took, E, cs)
<1>. DEFINE out == [ch EXCEPT !.amount = @ + amount]
<1>1. ch.stage = "Opened" /\ built = [step |-> "Add", out |-> out]
  BY DEF AddStepping
<1>2. /\ took \in Nat /\ took <= Total(E) /\ ch.amount \in Nat /\ Listed(ch.useds, E)
      /\ ch = OpenedWith(ch.amount, took, ch.useds)
  BY <1>1, KeepsIs DEF IsOpened
<1>3. out = OpenedWith(ch.amount + amount, took, ch.useds)
  <2>. DEFINE more == ch.amount + amount
  <2>1. out = [ch EXCEPT !.amount = more]
    OBVIOUS
  <2>. HIDE DEF out, more
  <2>2. out = OpenedWith(more, took, ch.useds)
    BY <1>2, <2>1 DEF OpenedWith
  <2>. QED
    BY <2>2 DEF more
<1>. HIDE DEF out
<1>4. IsOpened(out, took, E)
  BY <1>2, <1>3 DEF IsOpened, OpenedWith
<1>. QED
  BY <1>1, <1>2, <1>4 DEF Keeps, Ends

LEMMA CloseKeeps ==
    ASSUME NEW cs, NEW E, NEW ch, NEW took, Keeps(ch, took, E, cs), ch # Spent,
           NEW upper, NEW built \in {CloseStepping(ch, upper)} \ {NoStepping}
    PROVE  ~Ends(built) /\ Keeps(built.out, took, E, cs)
<1>. DEFINE out == ClosedWith(ch.amount, ch.subbed, ch.useds, upper + ClosePeriod)
<1>1. ch.stage = "Opened" /\ built = [step |-> "Close", out |-> out]
  BY DEF CloseStepping
<1>2. /\ took \in Nat /\ took <= Total(E) /\ ch.amount \in Nat /\ Listed(ch.useds, E)
      /\ ch.subbed = took
  BY <1>1, KeepsIs DEF IsOpened
<1>3. IsClosed(out, took, E)
  BY <1>2 DEF IsClosed, ClosedWith
<1>. QED
  BY <1>1, <1>2, <1>3 DEF Keeps, Ends

\* An Elapse and an End spend the channel; an Expire leaves pendings of it.
LEMMA TickKeeps ==
    ASSUME NEW cs, Distinct(cs), NEW E, NEW ch, NEW took, Keeps(ch, took, E, cs), ch # Spent,
           NEW lower, NEW built \in {ConsumerTick(ch, lower)} \ {NoStepping}
    PROVE  Ends(built) \/ Keeps(built.out, took, E, cs)
<1>1. took \in Nat /\ took <= Total(E) /\ ch.stage \in {"Opened", "Closed", "Responded"}
  BY KeepsIs
<1>2. CASE ch.stage = "Opened"
  BY <1>2 DEF ConsumerTick
<1>3. CASE ch.stage = "Closed"
  BY <1>3 DEF ConsumerTick, ElapseStepping, Ends
<1>4. CASE ch.stage = "Responded"
  <2>. DEFINE kept == EntriesAt(ch.pends, {n \in DOMAIN ch.pends : ~IsExpired(ch.pends[n], lower)})
              out == RespondedWith(ListTotal(kept), kept)
  <2>1. ch.pends \in Seq(PendsOf(cs))
    BY <1>4, KeepsIs DEF IsResponded
  <2>2. built = EndStepping(ch, lower) \/ built = ExpireStepping(ch, lower)
    BY <1>4 DEF ConsumerTick
  <2>3. CASE built = EndStepping(ch, lower)
    BY <2>3 DEF EndStepping, Ends
  <2>4. CASE built = ExpireStepping(ch, lower)
    <3>1. Where(ch.pends, LAMBDA pend : ~IsExpired(pend, lower)) = kept
      BY DEF Where, The
    <3>2. kept \in Seq(PendsOf(cs))
      BY <2>1, EntriesAtSelects
    <3>3. HaveAmounts(PendsOf(cs))
      <4>1. {} \in SUBSET cs
        OBVIOUS
      <4>. QED
        BY <4>1, UsedIs
    <3>. HIDE DEF kept
    <3>4. built.out = out
      BY <2>4, <3>1 DEF ExpireStepping
    <3>5. ListTotal(kept) \in Nat
      BY <3>2, <3>3, ListTotalTail
    <3>6. IsResponded(out, cs)
      BY <3>2, <3>5 DEF IsResponded, RespondedWith
    <3>. HIDE DEF out
    <3>. QED
      BY <1>1, <3>4, <3>6 DEF Keeps
  <2>. QED
    BY <2>2, <2>3, <2>4
<1>. QED
  BY <1>1, <1>2, <1>3, <1>4

-----------------------------------------------------------------------------
(* The channel from its first cheque to its end.                           *)

Inv ==
    /\ now \in Nat
    /\ Dated(cheques) /\ Books(receipt, cheques) /\ earned = EarnedOf(receipt, cheques)
    /\ Keeps(channel, taken, earned, cheques)

LEMMA InitHolds == Init => Inv
<1>. SUFFICES ASSUME Init PROVE Inv
  OBVIOUS
<1>1. PICK deposit \in Deposits : channel = OpenedWith(deposit, 0, <<>>)
  BY DEF Init
<1>2. deposit \in Nat
  BY AmountsAssumption
<1>3. Books(receipt, cheques) /\ EarnedOf(receipt, cheques) = {}
  BY NewBooks DEF Init
<1>4. Total({}) = 0
  <2>1. Distinct(cheques) /\ cheques = {}
    BY <1>3 DEF Books, Numbered, Init
  <2>2. {} \in SUBSET cheques
    OBVIOUS
  <2>. QED
    BY <2>1, <2>2, TotalAdds
<1>5. Listed(<<>>, {})
  BY DEF Listed
<1>6. IsOpened(channel, 0, {})
  BY <1>1, <1>2, <1>5 DEF IsOpened, OpenedWith
<1>7. Keeps(channel, 0, {}, {})
  BY <1>4, <1>6 DEF Keeps
<1>. QED
  BY <1>3, <1>7 DEF Init, Inv, Dated

LEMMA InvIs ==
    ASSUME Inv
    PROVE  /\ Numbered(cheques) /\ Distinct(cheques) /\ earned \in SUBSET cheques
           /\ Upper \in Nat
  BY EarnedIs, TimesAssumption DEF Inv, Books, Numbered, Upper

LEMMA PayHolds ==
    ASSUME Inv, NEW amount \in Amounts, NEW timeout \in Timeouts, NEW secret \in Secret,
           Pay(amount, timeout, secret)
    PROVE  Inv'
<1>. DEFINE locked == [index |-> NextIndexOf(Record), amount |-> amount,
                       timeout |-> timeout, latch |-> Sha2(secret)]
            all == cheques \cup {locked}
            new == WithLocked(receipt, locked)
<1>1. /\ MayCommit(Record) /\ AcceptsCheque(Record, locked)
      /\ receipt' = new /\ cheques' = all
      /\ now' = now /\ channel' = channel /\ earned' = earned /\ taken' = taken
  BY DEF Pay
<1>2. Record.receipt = receipt
  BY DEF Record
<1>3. TakesLocked(receipt, locked)
  <2>. HIDE DEF locked
  <2>. QED
    BY <1>1, <1>2 DEF AcceptsCheque
<1>4. /\ locked.amount \in Nat /\ locked.amount > 0 /\ locked.timeout \in Nat
      /\ locked.latch = Sha2(locked.latch[2])
      /\ locked = [index |-> locked.index, amount |-> locked.amount,
                   timeout |-> locked.timeout, latch |-> locked.latch]
  <2>1. amount \in Nat /\ amount > 0 /\ timeout \in Nat
    BY AmountsAssumption, TimesAssumption
  <2>2. Sha2(secret)[2] = secret
    BY DEF Sha2
  <2>. QED
    BY <2>1, <2>2
<1>. HIDE DEF locked
<1>5. Len(receipt.cheques) < MaxUnsquashed
  <2>1. Len(receipt.cheques) \in Nat
    BY AccountsIs DEF Inv, Books
  <2>2. Capacity(receipt) # 0
    BY <1>1, <1>2 DEF MayCommit
  <2>. QED
    BY <2>1, <2>2, MaxUnsquashedAssumption DEF Capacity, Monus
<1>6. Books(new, all) /\ EarnedOf(new, all) = EarnedOf(receipt, cheques)
  BY <1>3, <1>4, <1>5, LockedBooks DEF Inv
<1>7. Keeps(channel, taken, earned, all)
  <2>1. Distinct(all) /\ cheques \in SUBSET all /\ earned \in SUBSET all /\ earned \in SUBSET earned
    BY <1>6, InvIs DEF Books, Numbered
  <2>2. Keeps(channel, taken, earned, cheques)
    BY DEF Inv
  <2>. HIDE DEF all
  <2>. QED
    BY <2>1, <2>2, KeepsStill
<1>8. Dated(all)
  BY <1>4 DEF Inv, Dated
<1>. HIDE DEF new, all
<1>. QED
  BY <1>1, <1>6, <1>7, <1>8 DEF Inv

LEMMA LearnHolds ==
    ASSUME Inv, NEW secret \in Secret, Learn(secret)
    PROVE  Inv'
<1>. DEFINE new == WithSecretOf(receipt, secret)
            more == earned \cup {c \in cheques : c.latch = Sha2(secret)}
<1>1. /\ receipt' = new /\ earned' = more
      /\ now' = now /\ channel' = channel /\ cheques' = cheques /\ taken' = taken
  BY DEF Learn
<1>2. Books(new, cheques) /\ EarnedOf(new, cheques) = more
  BY SecretBooks DEF Inv
<1>3. Keeps(channel, taken, more, cheques)
  <2>1. Distinct(cheques) /\ cheques \in SUBSET cheques /\ more \in SUBSET cheques /\ earned \in SUBSET more
    BY InvIs
  <2>2. Keeps(channel, taken, earned, cheques)
    BY DEF Inv
  <2>. HIDE DEF more
  <2>. QED
    BY <2>1, <2>2, KeepsStill
<1>. HIDE DEF new, more
<1>. QED
  BY <1>1, <1>2, <1>3 DEF Inv

LEMMA SquashHolds ==
    ASSUME Inv, Squash
    PROVE  Inv'
<1>. DEFINE new == WithSquash(receipt, Proposal(receipt).body)
<1>1. /\ receipt' = new
      /\ now' = now /\ channel' = channel /\ cheques' = cheques /\ earned' = earned /\ taken' = taken
  BY DEF Squash
<1>2. Books(new, cheques) /\ EarnedOf(new, cheques) = EarnedOf(receipt, cheques)
  BY SquashedBooks DEF Inv
<1>. HIDE DEF new
<1>. QED
  BY <1>1, <1>2 DEF Inv

\* A transaction leaves what is off chain alone.
LEMMA SubmitIs ==
    ASSUME NEW steppings, Submit(steppings)
    PROVE  /\ channel # Spent
           /\ \E built \in steppings :
                 /\ Verifies(Signed, Lower, Upper, channel, built)
                 /\ channel' = IF Ends(built) THEN Spent ELSE built.out
           /\ now' = now /\ receipt' = receipt /\ cheques' = cheques /\ earned' = earned
  BY DEF Submit, Live, offchain

LEMMA TxHolds ==
    ASSUME Inv, now' = now, receipt' = receipt, cheques' = cheques, earned' = earned,
           Keeps(channel', taken', earned, cheques)
    PROVE  Inv'
  BY DEF Inv

LEMMA ProviderTxHolds ==
    ASSUME Inv, ProviderTx
    PROVE  Inv'
<1>1. Submit(ProviderSteppings) /\ taken' = taken + channel.amount - channel'.amount
  BY DEF ProviderTx
<1>2. PICK built \in ProviderSteppings :
         /\ channel # Spent /\ Verifies(Signed, Lower, Upper, channel, built)
         /\ channel' = IF Ends(built) THEN Spent ELSE built.out
  BY <1>1, SubmitIs
<1>3. built = AnySub(channel, receipt, Upper) /\ built # NoStepping
  BY DEF ProviderSteppings
<1>4. /\ Books(receipt, cheques) /\ Dated(cheques) /\ Upper \in Nat
      /\ Keeps(channel, taken, EarnedOf(receipt, cheques), cheques)
      /\ earned = EarnedOf(receipt, cheques)
  BY InvIs DEF Inv
<1>. DEFINE after == taken + channel.amount - built.out.amount
<1>5. ~Ends(built) /\ Keeps(built.out, after, EarnedOf(receipt, cheques), cheques)
  <2>1. channel.stage \in {"Opened", "Closed", "Responded"}
    BY <1>2, <1>4, KeepsIs
  <2>2. CASE channel.stage = "Opened"
    <3>1. built = SubStepping(channel, receipt, Upper)
      BY <1>3, <2>2 DEF AnySub
    <3>. QED
      BY <1>2, <1>3, <1>4, <2>2, <3>1, SubTakes
  <2>3. CASE channel.stage = "Closed"
    <3>1. built = RespondStepping(channel, receipt, Upper)
      BY <1>3, <2>3 DEF AnySub
    <3>. QED
      BY <1>2, <1>4, <2>3, <3>1, RespondTakes
  <2>4. CASE channel.stage = "Responded"
    <3>1. built = UnlockStepping(channel, receipt, Upper)
      BY <1>3, <2>4 DEF AnySub
    <3>. QED
      BY <1>2, <1>4, <2>4, <3>1, UnlockTakes
  <2>. QED
    BY <2>1, <2>2, <2>3, <2>4
<1>6. channel' = built.out /\ taken' = after
  BY <1>1, <1>2, <1>5
<1>. HIDE DEF after
<1>7. Keeps(channel', taken', earned, cheques)
  BY <1>4, <1>5, <1>6
<1>. QED
  BY <1>1, <1>7, SubmitIs, TxHolds

LEMMA TopUpHolds ==
    ASSUME Inv, NEW amount \in Amounts, TopUp(amount)
    PROVE  Inv'
<1>1. Submit({AddStepping(channel, amount)} \ {NoStepping}) /\ taken' = taken
  BY DEF TopUp
<1>2. PICK built \in {AddStepping(channel, amount)} \ {NoStepping} :
         channel # Spent /\ channel' = IF Ends(built) THEN Spent ELSE built.out
  BY <1>1, SubmitIs
<1>3. Keeps(channel, taken, earned, cheques) /\ amount \in Nat
  BY AmountsAssumption DEF Inv
<1>4. ~Ends(built) /\ Keeps(built.out, taken, earned, cheques)
  BY <1>2, <1>3, AddKeeps
<1>. QED
  BY <1>1, <1>2, <1>4, SubmitIs, TxHolds

LEMMA CloseTxHolds ==
    ASSUME Inv, CloseTx
    PROVE  Inv'
<1>1. Submit({CloseStepping(channel, Upper)} \ {NoStepping}) /\ taken' = taken
  BY DEF CloseTx
<1>2. PICK built \in {CloseStepping(channel, Upper)} \ {NoStepping} :
         channel # Spent /\ channel' = IF Ends(built) THEN Spent ELSE built.out
  BY <1>1, SubmitIs
<1>3. Keeps(channel, taken, earned, cheques)
  BY DEF Inv
<1>4. ~Ends(built) /\ Keeps(built.out, taken, earned, cheques)
  BY <1>2, <1>3, CloseKeeps
<1>. QED
  BY <1>1, <1>2, <1>4, SubmitIs, TxHolds

LEMMA ConsumerTxHolds ==
    ASSUME Inv, ConsumerTx
    PROVE  Inv'
<1>1. Submit({ConsumerTick(channel, Lower)} \ {NoStepping}) /\ taken' = taken
  BY DEF ConsumerTx
<1>2. PICK built \in {ConsumerTick(channel, Lower)} \ {NoStepping} :
         channel # Spent /\ channel' = IF Ends(built) THEN Spent ELSE built.out
  BY <1>1, SubmitIs
<1>3. Keeps(channel, taken, earned, cheques) /\ Distinct(cheques)
  BY InvIs DEF Inv
<1>4. Ends(built) \/ Keeps(built.out, taken, earned, cheques)
  BY <1>2, <1>3, TickKeeps
<1>5. Keeps(Spent, taken, earned, cheques)
  BY <1>3 DEF Keeps
<1>6. Keeps(channel', taken', earned, cheques)
  BY <1>1, <1>2, <1>4, <1>5
<1>. QED
  BY <1>1, <1>6, SubmitIs, TxHolds

LEMMA InvStays == Inv /\ [Next]_vars => Inv'
<1>. SUFFICES ASSUME Inv, [Next]_vars PROVE Inv'
  OBVIOUS
<1>1. CASE Tick
  BY <1>1 DEF Tick, Inv, offchain
<1>2. CASE \E amount \in Amounts, timeout \in Timeouts, secret \in Secret : Pay(amount, timeout, secret)
  BY <1>2, PayHolds
<1>3. CASE \E secret \in Secret : Learn(secret)
  BY <1>3, LearnHolds
<1>4. CASE Squash
  BY <1>4, SquashHolds
<1>5. CASE ProviderTx
  BY <1>5, ProviderTxHolds
<1>6. CASE \E amount \in Amounts : TopUp(amount)
  BY <1>6, TopUpHolds
<1>7. CASE CloseTx
  BY <1>7, CloseTxHolds
<1>8. CASE ConsumerTx
  BY <1>8, ConsumerTxHolds
<1>9. CASE UNCHANGED vars
  BY <1>9 DEF vars, Inv
<1>. QED
  BY <1>1, <1>2, <1>3, <1>4, <1>5, <1>6, <1>7, <1>8, <1>9 DEF Next

(* The provider's receipt is worth exactly the cheques whose secret it has
   learned, and its transactions never take more than these are worth
   (Receipt::owed and the steppings of tx/channel.rs). *)
THEOREM OwedIsEarnedAlways == Spec => []OwedIsEarned
<1>1. ASSUME Inv PROVE OwedIsEarned
  <2>1. /\ Numbered(cheques) /\ Accounts(receipt, cheques) /\ PaysFor(receipt.squash, cheques)
        /\ earned = EarnedOf(receipt, cheques) /\ taken <= Total(earned)
    BY <1>1 DEF Inv, Books, Keeps
  <2>2. Owed(receipt) = Total(earned)
    BY <2>1, OwedIs DEF EarnedOf
  <2>. QED
    BY <2>1, <2>2 DEF OwedIsEarned
<1>. QED
  BY <1>1, InitHolds, InvStays, PTL DEF Spec

(* The squash the provider proposes can be formed, pays for every unlocked
   cheque and no other, and is one its own receipt takes
   (Receipt::propose_squash and Receipt::append_squash). *)
THEOREM ProposalIsSoundAlways == Spec => []ProposalIsSound
<1>1. ASSUME Inv PROVE ProposalIsSound
  <2>1. Books(receipt, cheques)
    BY <1>1 DEF Inv
  <2>2. Proposal(receipt).ok
    BY <2>1, ProposalForms
  <2>3. /\ TakesSquash(receipt, Proposal(receipt).body)
        /\ \A n \in DOMAIN receipt.cheques :
              IsIndexSquashed(Proposal(receipt).body, receipt.cheques[n].body.index)
                 <=> receipt.cheques[n].unlocked
    BY <2>1, ProposalTaken
  <2>. QED
    BY <2>2, <2>3 DEF ProposalIsSound
<1>. QED
  BY <1>1, InitHolds, InvStays, PTL DEF Spec

-----------------------------------------------------------------------------
(* That the validator accepts what the wallets build.  Its walks ask for   *)
(* lists in order: the indexes a squash leaves out, the cheques of a        *)
(* receipt and the useds of a datum all ascend.                             *)

Climbs(list) == \A m, n \in DOMAIN list : m < n => list[m] < list[n]

Tidy(book) == Climbs(book.squash.exclude) /\ Ascending(Bodies(book.cheques))

LEMMA NewTidy == Tidy(NewReceipt(ZeroBody))
  BY DEF Tidy, NewReceipt, ZeroBody, Climbs, Ascending, Bodies

\* SquashBody::squash adds indexes past the last, or takes one away.
LEMMA SquashedWithClimbs ==
    ASSUME NEW body, body \in Squashes, Climbs(body.exclude),
           NEW index \in Nat, NEW amount \in Nat, CanSquash(body, index)
    PROVE  Climbs(SquashedWith(body, index, amount).exclude)
<1>. DEFINE new == SquashedWith(body, index, amount)
            left == body.exclude
            at == body.index
            L == Len(left)
<1>1. /\ left \in Seq(Nat) /\ at \in Nat /\ L \in Nat /\ DOMAIN left = 1..L
      /\ \A n \in 1..L : left[n] \in Nat /\ left[n] < at
      /\ body = [amount |-> body.amount, index |-> at, exclude |-> left]
  <2>1. left \in Seq(Nat) /\ at \in Nat /\ \A i \in Entries(left) : i < at
    BY DEF Squashes
  <2>2. L \in Nat /\ DOMAIN left = 1..L /\ \A n \in 1..L : left[n] \in Nat
    BY <2>1, ListEntries
  <2>3. \A n \in 1..L : left[n] \in Entries(left)
    BY <2>2 DEF Entries
  <2>4. body = [amount |-> body.amount, index |-> at, exclude |-> left]
    BY DEF Squashes
  <2>. HIDE DEF left, at, L
  <2>. QED
    BY <2>1, <2>2, <2>3, <2>4
<1>2. CASE Contains(left, index)
  <2>. DEFINE chosen == {n \in DOMAIN left : left[n] # index}
              less == EntriesAt(left, chosen)
  <2>1. Where(left, LAMBDA i : i # index) = less
    BY DEF Where, The
  <2>2. PICK places : PlacedBy(places, less, left, chosen)
    <3>. HIDE DEF chosen, left
    <3>. QED
      BY <1>1, SelectedInOrder
  <2>. HIDE DEF less
  <2>3. new = [body EXCEPT !.amount = @ + amount, !.exclude = less]
    BY <1>2, <2>1 DEF SquashedWith
  <2>. HIDE DEF new
  <2>4. new.exclude = less
    BY ONLY <1>1, <2>3
  <2>5. Climbs(less)
    BY <2>2 DEF PlacedBy, Climbs
  <2>. QED
    BY <2>4, <2>5 DEF new
<1>3. CASE ~Contains(left, index)
  <2>. DEFINE gap == index - (at + 1)
              more == Between(at + 1, index)
              all == left \o more
  <2>1. at < index /\ new.exclude = all
    BY <1>3 DEF SquashedWith, CanSquash
  <2>. HIDE DEF left, at, L, new
  <2>2. gap \in Nat /\ more \in Seq(Nat) /\ Len(more) = gap /\ \A n \in 1..gap : more[n] = at + n
    <3>1. more = [n \in 1..gap |-> at + 1 + n - 1]
      BY DEF Between
    <3>2. gap \in Nat /\ \A n \in 1..gap : at + 1 + n - 1 = at + n /\ at + n \in Nat
      <4>1. at \in Nat /\ index \in Nat /\ at < index
        BY <1>1, <2>1
      <4>. QED
        BY ONLY <4>1
    <3>. HIDE DEF more, gap
    <3>3. gap \in Nat /\ more \in [1..gap -> Nat] /\ \A n \in 1..gap : more[n] = at + n
      BY <3>1, <3>2
    <3>4. more \in Seq(Nat)
      BY <3>3
    <3>5. Len(more) = gap
      BY <3>3, <3>4
    <3>. QED
      BY <3>3, <3>4, <3>5
  <2>. HIDE DEF more, gap
  <2>3. /\ DOMAIN all = 1..(L + gap)
        /\ \A n \in 1..L : n \in DOMAIN left /\ all[n] = left[n]
        /\ \A n \in (L + 1)..(L + gap) : n - L \in DOMAIN more /\ all[n] = more[n - L]
    <3>1. left \in Seq(Nat) /\ more \in Seq(Nat) /\ L = Len(left) /\ gap = Len(more)
      BY <1>1, <2>2 DEF L
    <3>. HIDE DEF all
    <3>. QED
      BY ONLY <3>1, JoinIs DEF all
  <2>. HIDE DEF all
  <2>4. \A n \in (L + 1)..(L + gap) : n - L \in 1..gap /\ all[n] = at + (n - L)
    <3>1. \A n \in (L + 1)..(L + gap) : n - L \in 1..gap
      BY <1>1, <2>2
    <3>. QED
      BY <2>2, <2>3, <3>1
  <2>5. ASSUME NEW m \in DOMAIN all, NEW n \in DOMAIN all, m < n PROVE all[m] < all[n]
    <3>1. CASE n \in 1..L
      <4>1. m \in 1..L
        BY <1>1, <2>2, <2>3, <2>5, <3>1
      <4>. QED
        BY <1>1, <2>3, <2>5, <3>1, <4>1 DEF Climbs, left
    <3>2. CASE m \in 1..L /\ n \in (L + 1)..(L + gap)
      <4>1. all[m] \in Nat /\ all[m] < at /\ all[n] = at + (n - L) /\ n - L \in 1..gap
        BY <1>1, <2>3, <2>4, <3>2
      <4>. QED
        BY <1>1, <2>2, <4>1
    <3>3. CASE m \in (L + 1)..(L + gap) /\ n \in (L + 1)..(L + gap)
      BY <1>1, <2>2, <2>4, <2>5, <3>3
    <3>. QED
      BY <1>1, <2>2, <2>3, <2>5, <3>1, <3>2, <3>3
  <2>6. Climbs(all)
    BY <2>5 DEF Climbs
  <2>. QED
    BY <2>1, <2>6 DEF new
<1>. QED
  BY <1>2, <1>3

\* What a squash of a proposal leaves out ascends.
LEMMA ProposalClimbs ==
    ASSUME NEW cs, NEW book, Books(book, cs), Tidy(book)
    PROVE  Climbs(Proposal(book).body.exclude)
<1>. DEFINE us == Unlockeds(book)
            n == Len(us)
            U == {Disclosed(a) : a \in OpenOf(book, cs)}
<1>1. /\ Numbered(cs) /\ Accounts(book, cs) /\ book.squash \in Squashes
      /\ Climbs(book.squash.exclude) /\ Proposal(book).ok
  BY AccountsIs, ProposalForms DEF Books, Tidy
<1>2. us \in Seq(U) /\ n \in Nat /\ \A k \in 1..n : us[k] \in U
  BY <1>1, UnlockedsAre, ListEntries
<1>3. HaveIndexes(U)
  <2>1. ASSUME NEW a \in OpenOf(book, cs) PROVE Disclosed(a).index \in Nat /\ Disclosed(a).amount \in Nat
    <3>1. a \in cs
      BY EarnedIs
    <3>. QED
      BY <1>1, <3>1, DisclosedIs, NumberedAre
  <2>. QED
    BY <2>1 DEF HaveIndexes
<1>. HIDE DEF U
<1>4. PICK h : IsProposalWalk(h, n, book)
  BY <1>1, <1>2, <1>3, ProposalSteps
<1>. HIDE DEF us, n
<1>. DEFINE D == {k \in 0..n : h[k].ok => Climbs(h[k].body.exclude)}
<1>5. 0 \in D
  <2>1. h[0].body = book.squash
    BY <1>4 DEF IsProposalWalk
  <2>. QED
    BY <1>1, <1>2, <2>1
<1>6. ASSUME NEW k \in 1..n, k - 1 \in D PROVE k \in D
  <2>. DEFINE old == h[k - 1]
              u == us[k]
              body == SquashedWith(old.body, u.index, u.amount)
  <2>1. old \in Proposals /\ h[k] = ProposalWith(old, u)
    <3>1. k - 1 \in 0..n
      BY <1>2
    <3>. QED
      BY <1>4, <3>1 DEF IsProposalWalk, us
  <2>2. u.index \in Nat /\ u.amount \in Nat
    BY <1>2, <1>3 DEF HaveIndexes
  <2>3. old.ok => Climbs(old.body.exclude)
    BY <1>6
  <2>4. old.body \in Squashes /\ old = [ok |-> old.ok, body |-> old.body]
    BY <2>1 DEF Proposals
  <2>. HIDE DEF old, u
  <2>5. ASSUME h[k].ok PROVE Climbs(h[k].body.exclude)
    <3>1. old.ok /\ CanSquash(old.body, u.index)
      BY <2>1, <2>4, <2>5 DEF ProposalWith
    <3>2. Climbs(body.exclude)
      BY <2>2, <2>3, <2>4, <3>1, SquashedWithClimbs
    <3>. HIDE DEF body
    <3>3. h[k] = [old EXCEPT !.body = body]
      BY <2>1, <3>1 DEF ProposalWith, body
    <3>4. h[k].body = body
      BY ONLY <2>4, <3>3
    <3>. QED
      BY <3>2, <3>4
  <2>. QED
    BY <1>2, <2>5
<1>7. \A k \in 0..n : k \in D
  <2>. HIDE DEF D
  <2>. QED
    BY <1>2, <1>5, <1>6, Climb
<1>8. h[n] = Proposal(book)
  BY <1>4 DEF IsProposalWalk
<1>. QED
  BY <1>1, <1>2, <1>7, <1>8

\* A cheque of the index after the last comes last.
LEMMA LockedTidy ==
    ASSUME NEW cs, NEW book, Books(book, cs), Tidy(book), NEW locked, TakesLocked(book, locked)
    PROVE  Tidy(WithLocked(book, locked)) /\ WithLocked(book, locked).squash = book.squash
<1>. DEFINE list == book.cheques
            c == [body |-> locked, unlocked |-> FALSE]
            out == Append(list, c)
            new == WithLocked(book, locked)
            n == Len(list)
<1>1. Numbered(cs) /\ Accounts(book, cs)
  BY DEF Books
<1>2. /\ book = [squash |-> book.squash, cheques |-> list]
      /\ list \in Seq(Carries(cs)) /\ n \in Nat /\ DOMAIN list = 1..n
      /\ \A k \in DOMAIN list : list[k] \in Carries(cs)
  BY <1>1, AccountsIs
<1>3. \A k \in 1..n : list[k].body.index \in Nat /\ list[k].body.index < locked.index
  <2>1. ASSUME NEW k \in 1..n PROVE list[k].body.index \in Nat /\ list[k].body.index <= MaxIndex(book)
    <3>1. PICK a \in cs : IsOf(list[k], a)
      BY <1>1, <1>2, CarriesAre
    <3>2. a.index \in Nat /\ a.index <= MaxIndex(book) /\ list[k].body.index = a.index
      BY <1>1, <3>1, NumberedAre DEF IsOf, Accounts
    <3>. QED
      BY <3>2
  <2>2. MaxIndex(book) \in Nat /\ locked.index = MaxIndex(book) + 1
    BY <1>1, MaxIndexAt DEF TakesLocked
  <2>. QED
    BY <2>1, <2>2
<1>4. new.cheques = out /\ new.squash = book.squash
  <2>1. new = [book EXCEPT !.cheques = out]
    BY DEF WithLocked
  <2>. HIDE DEF new, out, list
  <2>. QED
    BY ONLY <1>2, <2>1
<1>. HIDE DEF list, new
<1>5. /\ DOMAIN out = 1..(n + 1) /\ out[n + 1] = c /\ \A k \in 1..n : out[k] = list[k]
  <2>1. list \in Seq(Carries(cs) \cup {c})
    BY <1>2, SeqGrows
  <2>. HIDE DEF c
  <2>. QED
    BY ONLY <2>1
<1>. HIDE DEF out, n
<1>6. c.body = locked
  OBVIOUS
<1>. HIDE DEF c
<1>7. ASSUME NEW j \in 1..(n + 1), NEW k \in 1..(n + 1), j < k
      PROVE  out[j].body.index < out[k].body.index
  <2>1. j \in 1..n
    BY <1>2, <1>7
  <2>2. CASE k \in 1..n
    BY <1>2, <1>5, <1>7, <2>1, <2>2 DEF Tidy, Ascending, Bodies, list
  <2>3. CASE k = n + 1
    BY <1>3, <1>5, <1>6, <2>1, <2>3
  <2>. QED
    BY <1>2, <2>2, <2>3
<1>8. Ascending(Bodies(out))
  BY <1>5, <1>7 DEF Ascending, Bodies
<1>. QED
  BY <1>4, <1>8 DEF Tidy, new

\* A secret moves no cheque.
LEMMA SecretTidy ==
    ASSUME NEW cs, NEW book, Books(book, cs), Tidy(book), NEW secret
    PROVE  Tidy(WithSecretOf(book, secret)) /\ WithSecretOf(book, secret).squash = book.squash
<1>. DEFINE list == book.cheques
            out == [n \in DOMAIN list |-> OpenedBy(list[n], secret)]
            new == WithSecretOf(book, secret)
<1>1. Numbered(cs) /\ Accounts(book, cs)
  BY DEF Books
<1>2. /\ book = [squash |-> book.squash, cheques |-> list]
      /\ \A k \in DOMAIN list : list[k] \in Carries(cs)
  BY <1>1, AccountsIs
<1>3. new.cheques = out /\ new.squash = book.squash
  <2>1. new = [book EXCEPT !.cheques = out]
    BY DEF WithSecretOf, OpenedBy
  <2>. HIDE DEF out, new, list
  <2>. QED
    BY ONLY <1>2, <2>1
<1>4. \A k \in DOMAIN list : OpenedBy(list[k], secret).body.index = list[k].body.index
  BY <1>1, <1>2, OpenedCarried
<1>5. Ascending(Bodies(out))
  BY <1>4 DEF Tidy, Ascending, Bodies
<1>. HIDE DEF new, out
<1>. QED
  BY <1>3, <1>5 DEF Tidy, new

\* A squash that was proposed leaves the cheques in order.
LEMMA SquashedTidy ==
    ASSUME NEW cs, NEW book, Books(book, cs), Tidy(book)
    PROVE  Tidy(WithSquash(book, Proposal(book).body))
<1>. DEFINE body == Proposal(book).body
<1>1. Climbs(body.exclude)
  BY ProposalClimbs
<1>. HIDE DEF body
<1>2. WithSquash(book, body) =
         [squash |-> body, cheques |-> EntriesAt(book.cheques, LeftPlaces(book, body))]
  BY WithSquashIs
<1>3. book.cheques \in Seq(Carries(cs))
  BY AccountsIs DEF Books
<1>4. Ascending(Bodies(EntriesAt(book.cheques, LeftPlaces(book, body))))
  BY <1>3, BodiesAscend DEF Tidy
<1>. QED
  BY <1>1, <1>2, <1>4 DEF Tidy, body

-----------------------------------------------------------------------------
(* What was taken stays justified by the squash and the datum together: a  *)
(* Respond must not find that the useds it passes claim less.               *)

\* The cheques the squash covers, and those the datum lists.
Shown(book, cs, useds) == CoveredOf(book.squash, cs) \cup ListedOf(useds, EarnedOf(book, cs))

Justifies(ch, took, book, cs) ==
    /\ ch.stage \in {"Opened", "Closed"} =>
          Ascending(ch.useds) /\ took <= Total(Shown(book, cs, ch.useds))
    /\ ch.stage = "Closed" => ch.elapseAt \in Nat

LEMMA ShownIs ==
    ASSUME NEW cs, NEW book, Books(book, cs), NEW useds
    PROVE  /\ Shown(book, cs, useds) \in SUBSET cs /\ Distinct(cs)
           /\ Total(Shown(book, cs, useds)) \in Nat
<1>1. Distinct(cs) /\ Shown(book, cs, useds) \in SUBSET cs
  BY EarnedIs DEF Books, Numbered, Shown, ListedOf
<1>. QED
  BY <1>1, PartTotal

\* What is shown only grows when more is covered or earned.
LEMMA JustifiesStill ==
    ASSUME NEW cs, NEW book, Books(book, cs), NEW all, NEW new, Books(new, all), cs \subseteq all,
           NEW ch, NEW took \in Nat, Justifies(ch, took, book, cs),
           \A useds : Shown(book, cs, useds) \subseteq Shown(new, all, useds)
    PROVE  Justifies(ch, took, new, all)
<1>. DEFINE before == Shown(book, cs, ch.useds)
            after == Shown(new, all, ch.useds)
<1>1. after \in SUBSET all /\ Distinct(all) /\ before \in SUBSET after
  BY ShownIs
<1>2. Total(before) <= Total(after) /\ Total(before) \in Nat /\ Total(after) \in Nat
  <2>. HIDE DEF before, after
  <2>. QED
    BY <1>1, PartTotal
<1>. QED
  BY <1>2 DEF Justifies

\* The useds a Sub leaves are earned, each once and in order.
SubLists(prep, book, cs, useds, upper) ==
    /\ Listed(prep.useds, EarnedOf(book, cs)) /\ SubIsSorted(prep, book, useds, upper)
    /\ prep.unlockeds \in Seq({Disclosed(a) : a \in OpenOf(book, cs)})

LEMMA PrepSubLists ==
    ASSUME NEW cs, NEW book, Books(book, cs), Tidy(book),
           NEW useds, Listed(useds, EarnedOf(book, cs)), Ascending(useds), NEW upper
    PROVE  SubLists(PrepSub(book, useds, upper), book, cs, useds, upper)
<1>. DEFINE E == EarnedOf(book, cs)
            U == {Disclosed(a) : a \in OpenOf(book, cs)}
            prep == PrepSub(book, useds, upper)
<1>1. Numbered(cs) /\ Accounts(book, cs) /\ Distinct(cs) /\ E \in SUBSET cs
  BY EarnedIs DEF Books, Numbered
<1>2. /\ Unlockeds(book) \in Seq(U) /\ useds \in Seq(UsedsOf(E))
      /\ Unlockeds(book) = Bodies(EntriesAt(book.cheques, UnlockedPlaces(book)))
      /\ book.cheques \in Seq(Carries(cs))
  BY <1>1, UnlockedsAre, AccountsIs DEF Listed
<1>3. Ascending(Unlockeds(book))
  BY <1>2, BodiesAscend DEF Tidy
<1>4. \A u \in UsedsOf(E) : u.index \in Nat
  BY <1>1, UsedIs
<1>5. \A r \in U : UsedOf(r) \in UsedsOf(E)
  <2>1. ASSUME NEW a \in OpenOf(book, cs) PROVE UsedOf(Disclosed(a)) \in UsedsOf(E)
    <3>1. a \in cs /\ a \in E
      BY EarnedIs DEF EarnedOf
    <3>2. UsedOf(Disclosed(a)) = UsedOf(a)
      BY <1>1, <3>1, DisclosedIs DEF UsedOf
    <3>. QED
      BY <3>1, <3>2 DEF UsedsOf
  <2>. QED
    BY <2>1
<1>. HIDE DEF U, E
<1>6. prep.useds \in Seq(UsedsOf(E)) /\ prep.unlockeds \in Seq(U)
  BY <1>2, <1>5, PrepSubStays
<1>7. SubIsSorted(prep, book, useds, upper)
  BY <1>2, <1>3, <1>4, <1>5, PrepSubSorts
<1>. HIDE DEF prep
<1>8. \A j, k \in DOMAIN prep.useds : prep.useds[j].index = prep.useds[k].index => j = k
  <2>1. Ascending(prep.useds)
    BY <1>7 DEF SubIsSorted
  <2>. QED
    BY <1>4, <1>6, <2>1, AscendsOnce
<1>. QED
  BY <1>6, <1>7, <1>8 DEF SubLists, Listed, prep, E, U

\* The squash and these useds are worth what they show: no cheque is in both.
LEMMA SubShows ==
    ASSUME NEW cs, NEW book, Books(book, cs), NEW useds, NEW upper,
           NEW prep, SubLists(prep, book, cs, useds, upper)
    PROVE  book.squash.amount + ListTotal(prep.useds) = Total(Shown(book, cs, prep.useds))
<1>. DEFINE E == EarnedOf(book, cs)
            A == CoveredOf(book.squash, cs)
            B == ListedOf(prep.useds, E)
<1>1. /\ Numbered(cs) /\ Accounts(book, cs) /\ Distinct(cs) /\ Distinct(E)
      /\ A \in SUBSET cs /\ B \in SUBSET cs /\ book.squash.amount = Total(A)
  <2>1. Numbered(cs) /\ Accounts(book, cs) /\ Distinct(cs) /\ book.squash.amount = Total(A)
    BY DEF Books, Numbered, PaysFor
  <2>2. E \in SUBSET cs /\ A \in SUBSET cs /\ B \in SUBSET E
    BY EarnedIs DEF ListedOf
  <2>. QED
    BY <2>1, <2>2, DistinctPart
<1>2. ListTotal(prep.useds) = Total(B)
  BY <1>1, UsedsTotal DEF SubLists
<1>3. ASSUME NEW a \in A, a \in B PROVE FALSE
  <2>1. PICK n \in DOMAIN prep.useds : prep.useds[n].index = a.index
    BY <1>3 DEF ListedOf
  <2>2. prep.useds[n] \in Entries(prep.useds) /\ IsIndexSquashed(book.squash, a.index) /\ a \in cs
    BY <2>1 DEF Entries, CoveredOf
  <2>3. PICK u \in Entries(prep.unlockeds) : prep.useds[n] = UsedOf(u)
    BY <2>1, <2>2 DEF SubLists, SubIsSorted
  <2>4. PICK b \in OpenOf(book, cs) : u = Disclosed(b)
    BY <2>3, ListEntries DEF SubLists, Entries
  <2>5. b \in cs /\ u.index = b.index
    BY <1>1, <2>4, EarnedIs, DisclosedIs
  <2>6. b = a
    BY <1>1, <2>1, <2>2, <2>3, <2>5, NumberedAre DEF UsedOf
  <2>. QED
    BY <1>1, <2>4, <2>6, Disjoint
<1>4. A \cap B = {}
  <2>. HIDE DEF A, B
  <2>. QED
    BY <1>3
<1>. HIDE DEF A, B
<1>5. Total(A \cup B) = Total(A) + Total(B)
  <2>1. Distinct(cs) /\ A \in SUBSET cs /\ B \in SUBSET cs /\ A \cap B = {}
    BY <1>1, <1>4
  <2>. QED
    BY ONLY <2>1, TotalOfBoth
<1>. QED
  BY <1>1, <1>2, <1>5 DEF Shown, A, B, E

\* A Sub that is built gains something, and no more than it shows.
SubGains(built, ch, prep, gain, book) ==
    /\ built.step = "Sub" /\ built.squash = book.squash /\ built.unlockeds = prep.unlockeds
    /\ built.out = OpenedWith(ch.amount - gain, ch.subbed + gain, prep.useds)
    /\ gain \in 1..ch.amount /\ ch.subbed + gain <= book.squash.amount + ListTotal(prep.useds)

LEMMA SubBuilt ==
    ASSUME NEW cs, NEW book, Books(book, cs), NEW ch, ch.amount \in Nat, ch.subbed \in Nat,
           NEW upper, NEW prep, prep = PrepSub(book, ch.useds, upper),
           SubLists(prep, book, cs, ch.useds, upper),
           NEW built, built = SubStepping(ch, book, upper), built # NoStepping
    PROVE  \E gain : SubGains(built, ch, prep, gain, book)
<1>. DEFINE owed == book.squash.amount + ListTotal(prep.useds)
            gain == GainOf(ch, owed)
            out == OpenedWith(ch.amount - gain, ch.subbed + gain, prep.useds)
<1>1. owed \in Nat
  BY SubShows, ShownIs
<1>2. built = SubOf(ch, book, prep)
  <2>1. {SubOf(ch, book, p) : p \in {prep}} = {SubOf(ch, book, prep)}
    OBVIOUS
  <2>2. built = The({SubOf(ch, book, prep)})
    BY <2>1 DEF SubStepping
  <2>. QED
    BY <2>2 DEF The
<1>3. gain # 0 /\ built.step = "Sub" /\ built.squash = book.squash
      /\ built.unlockeds = prep.unlockeds /\ built.out = out
  <2>. HIDE DEF out, gain
  <2>. QED
    BY <1>2 DEF SubOf, NoStepping, owed, gain, out
<1>. HIDE DEF owed
<1>4. gain \in 0..ch.amount /\ (ch.subbed + gain <= owed \/ gain = 0)
  BY <1>1, GainIs
<1>5. gain \in 1..ch.amount /\ ch.subbed + gain <= owed
  <2>. HIDE DEF gain
  <2>. QED
    BY <1>3, <1>4
<1>. HIDE DEF gain
<1>. QED
  BY <1>3, <1>5 DEF SubGains, owed

\* What a Sub takes is justified by the squash and the new datum.
LEMMA SubJustifies ==
    ASSUME NEW cs, NEW book, Books(book, cs), Tidy(book), NEW ch, NEW took,
           Keeps(ch, took, EarnedOf(book, cs), cs), ch # Spent, ch.stage = "Opened",
           Justifies(ch, took, book, cs), NEW upper,
           NEW built, built = SubStepping(ch, book, upper), built # NoStepping
    PROVE  Justifies(built.out, took + ch.amount - built.out.amount, book, cs)
<1>. DEFINE prep == PrepSub(book, ch.useds, upper)
<1>1. took \in Nat /\ ch.amount \in Nat /\ ch.subbed = took /\ Listed(ch.useds, EarnedOf(book, cs))
      /\ Ascending(ch.useds)
  BY KeepsIs DEF IsOpened, Justifies
<1>2. SubLists(prep, book, cs, ch.useds, upper)
  BY <1>1, PrepSubLists
<1>3. PICK gain : SubGains(built, ch, prep, gain, book)
  BY <1>1, <1>2, SubBuilt
<1>. HIDE DEF prep
<1>4. /\ built.out.stage = "Opened" /\ built.out.amount = ch.amount - gain
      /\ built.out.useds = prep.useds
  BY <1>3 DEF SubGains, OpenedWith
<1>5. took + gain <= Total(Shown(book, cs, prep.useds))
  BY <1>1, <1>2, <1>3, SubShows DEF SubGains
<1>6. took + ch.amount - built.out.amount = took + gain
  BY <1>1, <1>3, <1>4 DEF SubGains
<1>7. Ascending(prep.useds)
  BY <1>2 DEF SubLists, SubIsSorted
<1>. QED
  BY <1>4, <1>5, <1>6, <1>7 DEF Justifies

\* What holds besides Inv: the lists are in order, the consumer signed the
\* squash of the receipt, and what was taken is justified.
Ordered ==
    /\ Inv /\ Tidy(receipt) /\ receipt.squash \in squashes
    /\ Justifies(channel, taken, receipt, cheques)

LEMMA InitOrdered == Init => Ordered
<1>. SUFFICES ASSUME Init PROVE Ordered
  OBVIOUS
<1>1. Inv
  BY InitHolds
<1>2. Tidy(receipt) /\ receipt.squash \in squashes
  BY NewTidy DEF Init, NewReceipt
<1>3. channel.stage = "Opened" /\ channel.useds = <<>> /\ taken = 0
  BY DEF Init, OpenedWith
<1>4. Total(Shown(receipt, cheques, <<>>)) \in Nat
  BY <1>1, ShownIs DEF Inv
<1>5. Ascending(<<>>)
  BY DEF Ascending
<1>. QED
  BY <1>1, <1>2, <1>3, <1>4, <1>5 DEF Ordered, Justifies

LEMMA PayOrdered ==
    ASSUME Ordered, NEW amount \in Amounts, NEW timeout \in Timeouts, NEW secret \in Secret,
           Pay(amount, timeout, secret)
    PROVE  Ordered'
<1>. DEFINE locked == [index |-> NextIndexOf(Record), amount |-> amount,
                       timeout |-> timeout, latch |-> Sha2(secret)]
            all == cheques \cup {locked}
            new == WithLocked(receipt, locked)
<1>1. /\ AcceptsCheque(Record, locked) /\ receipt' = new /\ cheques' = all
      /\ channel' = channel /\ taken' = taken /\ squashes' = squashes
  BY DEF Pay
<1>2. Inv /\ Inv'
  BY PayHolds DEF Ordered
<1>3. TakesLocked(receipt, locked)
  <2>1. Record.receipt = receipt
    BY DEF Record
  <2>. HIDE DEF locked
  <2>. QED
    BY <1>1, <2>1 DEF AcceptsCheque
<1>4. /\ Books(receipt, cheques) /\ Books(new, all) /\ taken \in Nat
      /\ EarnedOf(new, all) = EarnedOf(receipt, cheques)
  <2>1. Books(receipt, cheques) /\ earned = EarnedOf(receipt, cheques) /\ taken \in Nat
    BY <1>2 DEF Inv, Keeps
  <2>2. Books(receipt', cheques') /\ earned' = EarnedOf(receipt', cheques')
    BY <1>2 DEF Inv
  <2>3. earned' = earned
    BY DEF Pay
  <2>. HIDE DEF new, all
  <2>. QED
    BY <1>1, <2>1, <2>2, <2>3
<1>5. Tidy(new) /\ new.squash = receipt.squash
  <2>. HIDE DEF locked
  <2>. QED
    BY <1>3, <1>4, LockedTidy DEF Ordered
<1>6. CoveredOf(new.squash, all) = CoveredOf(receipt.squash, cheques)
  <2>1. /\ Numbered(cheques) /\ Accounts(receipt, cheques) /\ PaysFor(receipt.squash, cheques)
    BY <1>4 DEF Books
  <2>2. MaxIndex(receipt) \in Nat /\ locked.index = MaxIndex(receipt) + 1
    <3>. HIDE DEF locked
    <3>. QED
      BY <1>3, <2>1, MaxIndexAt DEF TakesLocked
  <2>. HIDE DEF locked
  <2>3. locked.index \in Nat /\ locked.index > MaxIndex(receipt)
    BY <2>2
  <2>. HIDE DEF new
  <2>. QED
    BY <1>5, <2>1, <2>3, NewPays
<1>. HIDE DEF new
<1>7. \A useds : Shown(receipt, cheques, useds) \subseteq Shown(new, all, useds)
  BY <1>4, <1>6 DEF Shown
<1>8. Justifies(channel, taken, new, all)
  <2>1. cheques \subseteq all
    OBVIOUS
  <2>. HIDE DEF all
  <2>. QED
    BY <1>4, <1>7, <2>1, JustifiesStill DEF Ordered
<1>. HIDE DEF all
<1>. QED
  BY <1>1, <1>2, <1>5, <1>8 DEF Ordered

LEMMA LearnOrdered ==
    ASSUME Ordered, NEW secret \in Secret, Learn(secret)
    PROVE  Ordered'
<1>. DEFINE new == WithSecretOf(receipt, secret)
<1>1. /\ receipt' = new /\ cheques' = cheques /\ channel' = channel /\ taken' = taken
      /\ squashes' = squashes
  BY DEF Learn
<1>2. Inv /\ Inv' /\ Books(receipt, cheques) /\ taken \in Nat
  BY LearnHolds DEF Ordered, Inv, Keeps
<1>3. Tidy(new) /\ new.squash = receipt.squash
  BY <1>2, SecretTidy DEF Ordered
<1>4. Books(new, cheques) /\ EarnedOf(receipt, cheques) \subseteq EarnedOf(new, cheques)
  BY <1>2, SecretBooks
<1>. HIDE DEF new
<1>5. \A useds : Shown(receipt, cheques, useds) \subseteq Shown(new, cheques, useds)
  BY <1>3, <1>4 DEF Shown, ListedOf
<1>6. Justifies(channel, taken, new, cheques)
  BY <1>2, <1>4, <1>5, JustifiesStill DEF Ordered
<1>. QED
  BY <1>1, <1>2, <1>3, <1>6 DEF Ordered

LEMMA SquashOrdered ==
    ASSUME Ordered, Squash
    PROVE  Ordered'
<1>. DEFINE body == Proposal(receipt).body
            new == WithSquash(receipt, body)
<1>1. /\ receipt' = new /\ squashes' = squashes \cup {body}
      /\ cheques' = cheques /\ channel' = channel /\ taken' = taken
  BY DEF Squash
<1>2. Inv /\ Inv' /\ Books(receipt, cheques) /\ taken \in Nat
  BY SquashHolds DEF Ordered, Inv, Keeps
<1>3. Tidy(new) /\ new.squash = body
  BY <1>2, SquashedTidy, WithSquashIs DEF Ordered
<1>4. /\ Books(new, cheques) /\ EarnedOf(new, cheques) = EarnedOf(receipt, cheques)
      /\ CoveredOf(body, cheques) = EarnedOf(receipt, cheques)
  BY <1>2, SquashedBooks, ProposalTaken
<1>. HIDE DEF new, body
<1>5. \A useds : Shown(receipt, cheques, useds) \subseteq Shown(new, cheques, useds)
  BY <1>3, <1>4 DEF Shown, EarnedOf, ListedOf
<1>6. Justifies(channel, taken, new, cheques)
  BY <1>2, <1>4, <1>5, JustifiesStill DEF Ordered
<1>. QED
  BY <1>1, <1>2, <1>3, <1>6 DEF Ordered

\* A channel that was answered or spent takes part in no Respond any more.
LEMMA TxOrdered ==
    ASSUME Ordered, Inv', receipt' = receipt, cheques' = cheques, squashes' = squashes,
           Justifies(channel', taken', receipt, cheques)
    PROVE  Ordered'
  BY DEF Ordered

LEMMA ProviderTxOrdered ==
    ASSUME Ordered, ProviderTx
    PROVE  Ordered'
<1>1. /\ Submit(ProviderSteppings) /\ taken' = taken + channel.amount - channel'.amount
      /\ squashes' = squashes
  BY DEF ProviderTx, Submit, offchain
<1>2. PICK built \in ProviderSteppings :
         channel # Spent /\ channel' = IF Ends(built) THEN Spent ELSE built.out
  BY <1>1, SubmitIs
<1>3. built = AnySub(channel, receipt, Upper) /\ built # NoStepping
  BY DEF ProviderSteppings
<1>4. /\ Inv /\ Inv' /\ Books(receipt, cheques) /\ Tidy(receipt)
      /\ Keeps(channel, taken, EarnedOf(receipt, cheques), cheques)
      /\ Justifies(channel, taken, receipt, cheques)
  BY ProviderTxHolds DEF Ordered, Inv
<1>5. channel.stage \in {"Opened", "Closed", "Responded"}
  BY <1>2, <1>4, KeepsIs
<1>6. CASE channel.stage = "Opened"
  <2>1. built = SubStepping(channel, receipt, Upper)
    BY <1>3, <1>6 DEF AnySub
  <2>2. Justifies(built.out, taken + channel.amount - built.out.amount, receipt, cheques)
    BY <1>2, <1>3, <1>4, <1>6, <2>1, SubJustifies
  <2>3. built.step = "Sub"
    <3>1. built \in {SubOf(channel, receipt, prep) : prep \in {PrepSub(receipt, channel.useds, Upper)}}
      BY <2>1 DEF SubStepping, The
    <3>. QED
      BY <1>3, <3>1 DEF SubOf
  <2>4. channel' = built.out
    BY <1>2, <2>3 DEF Ends
  <2>. QED
    BY <1>1, <1>4, <2>2, <2>4, SubmitIs, TxOrdered
<1>7. CASE channel.stage # "Opened"
  <2>1. built.step \in {"Respond", "Unlock"} /\ built.out.stage = "Responded"
    BY <1>3, <1>5, <1>7 DEF AnySub, RespondStepping, UnlockStepping, RespondedWith
  <2>2. channel'.stage = "Responded"
    BY <1>2, <2>1 DEF Ends
  <2>3. Justifies(channel', taken', receipt, cheques)
    BY <2>2 DEF Justifies
  <2>. QED
    BY <1>1, <1>4, <2>3, SubmitIs, TxOrdered
<1>. QED
  BY <1>6, <1>7

LEMMA TopUpOrdered ==
    ASSUME Ordered, NEW amount \in Amounts, TopUp(amount)
    PROVE  Ordered'
<1>1. Submit({AddStepping(channel, amount)} \ {NoStepping}) /\ taken' = taken /\ squashes' = squashes
  BY DEF TopUp, Submit, offchain
<1>2. PICK built \in {AddStepping(channel, amount)} \ {NoStepping} :
         channel # Spent /\ channel' = IF Ends(built) THEN Spent ELSE built.out
  BY <1>1, SubmitIs
<1>3. Inv' /\ Keeps(channel, taken, earned, cheques) /\ Justifies(channel, taken, receipt, cheques)
  BY TopUpHolds DEF Ordered, Inv
<1>4. channel.stage = "Opened" /\ channel' = [channel EXCEPT !.amount = @ + amount]
  BY <1>2 DEF AddStepping, Ends
<1>5. channel = OpenedWith(channel.amount, taken, channel.useds)
  BY <1>2, <1>3, <1>4, KeepsIs DEF IsOpened
<1>6. channel'.stage = "Opened" /\ channel'.useds = channel.useds
  BY <1>4, <1>5 DEF OpenedWith
<1>7. Justifies(channel', taken', receipt, cheques)
  BY <1>1, <1>3, <1>4, <1>6 DEF Justifies
<1>. QED
  BY <1>1, <1>3, <1>7, SubmitIs, TxOrdered

LEMMA CloseTxOrdered ==
    ASSUME Ordered, CloseTx
    PROVE  Ordered'
<1>1. Submit({CloseStepping(channel, Upper)} \ {NoStepping}) /\ taken' = taken /\ squashes' = squashes
  BY DEF CloseTx, Submit, offchain
<1>2. PICK built \in {CloseStepping(channel, Upper)} \ {NoStepping} :
         channel # Spent /\ channel' = IF Ends(built) THEN Spent ELSE built.out
  BY <1>1, SubmitIs
<1>3. Inv' /\ Upper \in Nat /\ Justifies(channel, taken, receipt, cheques)
  BY CloseTxHolds, InvIs DEF Ordered
<1>4. /\ channel.stage = "Opened"
      /\ channel' = ClosedWith(channel.amount, channel.subbed, channel.useds, Upper + ClosePeriod)
  BY <1>2 DEF CloseStepping, Ends
<1>5. /\ channel'.stage = "Closed" /\ channel'.useds = channel.useds
      /\ channel'.elapseAt = Upper + ClosePeriod
  BY <1>4 DEF ClosedWith
<1>6. Justifies(channel', taken', receipt, cheques)
  BY <1>1, <1>3, <1>4, <1>5, ClosePeriodAssumption DEF Justifies
<1>. QED
  BY <1>1, <1>3, <1>6, SubmitIs, TxOrdered

LEMMA ConsumerTxOrdered ==
    ASSUME Ordered, ConsumerTx
    PROVE  Ordered'
<1>1. Submit({ConsumerTick(channel, Lower)} \ {NoStepping}) /\ taken' = taken /\ squashes' = squashes
  BY DEF ConsumerTx, Submit, offchain
<1>2. PICK built \in {ConsumerTick(channel, Lower)} \ {NoStepping} :
         channel # Spent /\ channel' = IF Ends(built) THEN Spent ELSE built.out
  BY <1>1, SubmitIs
<1>3. Inv' /\ channel.stage \in {"Opened", "Closed", "Responded"}
  BY <1>2, ConsumerTxHolds, KeepsIs DEF Ordered, Inv
<1>4. Ends(built) \/ built.out.stage = "Responded"
  BY <1>2, <1>3 DEF ConsumerTick, ElapseStepping, EndStepping, ExpireStepping, RespondedWith, Ends
<1>5. channel'.stage \in {"Spent", "Responded"}
  BY <1>2, <1>4 DEF Spent
<1>6. Justifies(channel', taken', receipt, cheques)
  BY <1>5 DEF Justifies
<1>. QED
  BY <1>1, <1>3, <1>6, SubmitIs, TxOrdered

LEMMA OrderedStays == Ordered /\ [Next]_vars => Ordered'
<1>. SUFFICES ASSUME Ordered, [Next]_vars PROVE Ordered'
  OBVIOUS
<1>0. Inv'
  BY InvStays DEF Ordered
<1>1. CASE Tick
  BY <1>0, <1>1 DEF Tick, Ordered, offchain
<1>2. CASE \E amount \in Amounts, timeout \in Timeouts, secret \in Secret : Pay(amount, timeout, secret)
  BY <1>2, PayOrdered
<1>3. CASE \E secret \in Secret : Learn(secret)
  BY <1>3, LearnOrdered
<1>4. CASE Squash
  BY <1>4, SquashOrdered
<1>5. CASE ProviderTx
  BY <1>5, ProviderTxOrdered
<1>6. CASE \E amount \in Amounts : TopUp(amount)
  BY <1>6, TopUpOrdered
<1>7. CASE CloseTx
  BY <1>7, CloseTxOrdered
<1>8. CASE ConsumerTx
  BY <1>8, ConsumerTxOrdered
<1>9. CASE UNCHANGED vars
  BY <1>0, <1>9 DEF vars, Ordered
<1>. QED
  BY <1>1, <1>2, <1>3, <1>4, <1>5, <1>6, <1>7, <1>8, <1>9 DEF Next

-----------------------------------------------------------------------------
(* The validator accepts a Sub that is built.                              *)

\* The squash of a receipt in the eyes of the reference.
LEMMA BookSquashIs ==
    ASSUME NEW cs, NEW book, Books(book, cs), Tidy(book)
    PROVE  /\ IsSquash(book.squash) /\ book.squash.amount \in Nat
           /\ \A i \in Nat : IsSquashed(book.squash, i) <=> IsIndexSquashed(book.squash, i)
<1>. DEFINE squash == book.squash
<1>1. squash \in Squashes /\ Climbs(squash.exclude)
  BY DEF Books, Accounts, Tidy
<1>. HIDE DEF squash
<1>2. /\ squash.amount \in Nat /\ squash.index \in Nat /\ squash.exclude \in Seq(Nat)
      /\ \A i \in Entries(squash.exclude) : i < squash.index
  BY <1>1 DEF Squashes
<1>3. \A n \in DOMAIN squash.exclude : squash.exclude[n] \in Nat /\ squash.exclude[n] < squash.index
  BY <1>2, ListEntries DEF Entries
<1>4. IsSquash(squash)
  BY <1>1, <1>2, <1>3 DEF IsSquash, Climbs
<1>5. ~Contains(squash.exclude, squash.index)
  BY <1>2, ContainsIsEntry
<1>6. \A i \in Nat : IsSquashed(squash, i) <=> IsIndexSquashed(squash, i)
  BY <1>2, <1>5 DEF IsSquashed, IsIndexSquashed
<1>. QED
  BY <1>2, <1>4, <1>6 DEF squash

\* A cheque with its secret shows the body the consumer signed.
LEMMA DisclosedSigned ==
    ASSUME NEW cs, Numbered(cs), NEW a \in cs
    PROVE  LockedForm(Disclosed(a)) = a /\ Disclosed(a).timeout = a.timeout
<1>1. /\ Disclosed(a) = [index |-> a.index, amount |-> a.amount,
                         timeout |-> a.timeout, latch |-> a.latch[2]]
      /\ a.latch = Sha2(a.latch[2])
      /\ a = [index |-> a.index, amount |-> a.amount, timeout |-> a.timeout, latch |-> a.latch]
  BY DisclosedIs, NumberedAre
<1>2. LockedForm(Disclosed(a)) = [index |-> a.index, amount |-> a.amount,
                                  timeout |-> a.timeout, latch |-> Sha2(a.latch[2])]
  BY <1>1 DEF LockedForm
<1>3. LockedForm(Disclosed(a)) = a
  BY ONLY <1>1, <1>2
<1>. QED
  BY <1>1, <1>3

\* What a cheque of the consumer that a receipt holds in time is to the
\* validator.
LEMMA ShownInTime ==
    ASSUME NEW cs, Numbered(cs), Dated(cs), NEW signed, cs \subseteq signed, NEW upper \in Nat,
           NEW a \in cs, a.timeout > upper
    PROVE  LockedForm(Disclosed(a)) \in signed /\ upper <= Disclosed(a).timeout /\ a \in signed
  BY DisclosedSigned DEF Dated

LEMMA UsedsAreRecords ==
    ASSUME NEW cs, NEW book, Books(book, cs), NEW useds, Listed(useds, EarnedOf(book, cs))
    PROVE  useds \in Seq(UsedRecords)
<1>1. Distinct(cs) /\ EarnedOf(book, cs) \in SUBSET cs /\ useds \in Seq(UsedsOf(EarnedOf(book, cs)))
  BY EarnedIs DEF Books, Numbered, Listed
<1>2. UsedsOf(EarnedOf(book, cs)) \subseteq UsedRecords
  BY <1>1, UsedIs DEF UsedRecords
<1>. QED
  BY <1>1, <1>2, SeqGrows

LEMMA SubIsEvidence ==
    ASSUME NEW cs, NEW book, Books(book, cs), Tidy(book), Dated(cs),
           NEW signed, book.squash \in signed, cs \subseteq signed, NEW upper \in Nat,
           NEW useds, NEW prep, SubLists(prep, book, cs, useds, upper)
    PROVE  SubEvidence(signed, upper, useds, prep.useds, book.squash, prep.unlockeds)
<1>. DEFINE new == {n \in DOMAIN prep.useds : ~IsUsed(useds, prep.useds[n].index)}
            fresh == EntriesAt(prep.useds, new)
<1>1. /\ Ascending(prep.useds)
      /\ \A x \in Entries(prep.useds) :
            \/ x \in Entries(useds) /\ ~IsIndexSquashed(book.squash, x.index)
            \/ \E u \in Entries(prep.unlockeds) : x = UsedOf(u)
      /\ \A u \in Entries(prep.unlockeds) : IsFresh(useds, upper, u)
      /\ fresh = [n \in DOMAIN prep.unlockeds |-> UsedOf(prep.unlockeds[n])]
  BY DEF SubLists, SubIsSorted
<1>2. Numbered(cs) /\ Accounts(book, cs)
  BY DEF Books
<1>3. /\ DOMAIN prep.unlockeds = 1..Len(prep.unlockeds) /\ Len(prep.unlockeds) \in Nat
      /\ prep.useds \in Seq(UsedRecords)
  BY ListEntries, UsedsAreRecords DEF SubLists
<1>4. ASSUME NEW u \in Entries(prep.unlockeds)
      PROVE  \E a \in OpenOf(book, cs) : a \in cs /\ u = Disclosed(a) /\ u.index = a.index
  <2>1. u \in {Disclosed(a) : a \in OpenOf(book, cs)}
    BY <1>4, ListEntries DEF SubLists, Entries
  <2>. QED
    BY <1>2, <2>1, EarnedIs, DisclosedIs
<1>5. ASSUME NEW u \in Entries(prep.unlockeds) PROVE ~IsIndexSquashed(book.squash, u.index)
  <2>1. PICK a \in OpenOf(book, cs) : a \in cs /\ u.index = a.index
    BY <1>4, <1>5
  <2>2. a \notin CoveredOf(book.squash, cs)
    BY <1>2, <2>1, Disjoint
  <2>. QED
    BY <2>1, <2>2 DEF CoveredOf
<1>6. ASSUME NEW u \in Entries(prep.unlockeds)
      PROVE  LockedForm(u) \in signed /\ upper <= u.timeout
  <2>1. PICK a \in cs : u = Disclosed(a)
    BY <1>4, <1>6
  <2>2. u.timeout > upper
    BY <1>1, <1>6 DEF IsFresh
  <2>3. a.timeout > upper
    BY <1>2, <2>1, <2>2, DisclosedSigned
  <2>. QED
    BY <1>2, <2>1, <2>3, ShownInTime
<1>7. ASSUME NEW n \in DOMAIN prep.useds
      PROVE  /\ ~IsSquashed(book.squash, prep.useds[n].index)
             /\ IsUsed(useds, prep.useds[n].index) => Contains(useds, prep.useds[n])
  <2>. DEFINE x == prep.useds[n]
  <2>1. x \in Entries(prep.useds) /\ x.index \in Nat
    <3>1. prep.useds[n] \in UsedRecords
      BY <1>3, ListEntries
    <3>. QED
      BY <3>1 DEF Entries, UsedRecords
  <2>. HIDE DEF x
  <2>2. IsSquashed(book.squash, x.index) <=> IsIndexSquashed(book.squash, x.index)
    BY <2>1, BookSquashIs
  <2>3. CASE x \in Entries(useds) /\ ~IsIndexSquashed(book.squash, x.index)
    BY <2>2, <2>3 DEF Entries, Contains, x
  <2>4. CASE \E u \in Entries(prep.unlockeds) : x = UsedOf(u)
    <3>1. PICK u \in Entries(prep.unlockeds) : x = UsedOf(u)
      BY <2>4
    <3>2. x.index = u.index
      BY <3>1 DEF UsedOf
    <3>3. ~IsIndexSquashed(book.squash, x.index) /\ ~IsUsed(useds, x.index)
      BY <1>1, <1>5, <3>2 DEF IsFresh
    <3>. QED
      BY <2>2, <3>3 DEF x
  <2>. QED
    BY <1>1, <2>1, <2>3, <2>4
<1>8. /\ DOMAIN fresh = DOMAIN prep.unlockeds /\ Len(fresh) = Len(prep.unlockeds)
      /\ \A n \in DOMAIN fresh : fresh[n] = UsedOf(prep.unlockeds[n])
  <2>. HIDE DEF fresh
  <2>1. fresh = [n \in 1..Len(prep.unlockeds) |-> UsedOf(prep.unlockeds[n])]
    BY <1>1, <1>3
  <2>2. Len(fresh) = Len(prep.unlockeds)
    BY ONLY <1>3, <2>1
  <2>. QED
    BY <1>1, <1>3, <2>2
<1>9. EntriesAt(prep.useds, {n \in DOMAIN prep.useds :
                               ~\E m \in DOMAIN useds : useds[m].index = prep.useds[n].index}) = fresh
  BY DEF IsUsed
<1>. HIDE DEF fresh
<1>10. \A n \in DOMAIN fresh :
          /\ UsedOf(prep.unlockeds[n]) = fresh[n]
          /\ LockedForm(prep.unlockeds[n]) \in signed
          /\ upper <= prep.unlockeds[n].timeout
  BY <1>6, <1>8 DEF Entries
<1>11. Len(fresh) <= Len(prep.unlockeds)
  BY <1>3, <1>8
<1>. QED
  BY <1>1, <1>7, <1>9, <1>10, <1>11 DEF SubEvidence, IsUsed

LEMMA SubAccepted ==
    ASSUME NEW cs, NEW book, Books(book, cs), Tidy(book), Dated(cs), NEW ch, NEW took,
           Keeps(ch, took, EarnedOf(book, cs), cs), ch # Spent, ch.stage = "Opened",
           Justifies(ch, took, book, cs),
           NEW signed, book.squash \in signed, cs \subseteq signed,
           NEW lower, NEW upper \in Nat,
           NEW built, built = SubStepping(ch, book, upper), built # NoStepping
    PROVE  Verifies(signed, lower, upper, ch, built)
<1>. DEFINE prep == PrepSub(book, ch.useds, upper)
            account == SubAccount(signed, upper, ch.useds, prep.useds, book.squash, prep.unlockeds)
            in == Buffered(ch)
            out == Buffered(built.out)
<1>1. /\ took \in Nat /\ ch.amount \in Nat /\ ch.subbed = took
      /\ Listed(ch.useds, EarnedOf(book, cs)) /\ ch = OpenedWith(ch.amount, took, ch.useds)
      /\ Ascending(ch.useds)
  BY KeepsIs DEF IsOpened, Justifies
<1>2. SubLists(prep, book, cs, ch.useds, upper)
  BY <1>1, PrepSubLists
<1>3. PICK gain : SubGains(built, ch, prep, gain, book)
  BY <1>1, <1>2, SubBuilt
<1>4. SubEvidence(signed, upper, ch.useds, prep.useds, book.squash, prep.unlockeds)
  <2>. HIDE DEF prep
  <2>. QED
    BY <1>2, SubIsEvidence
<1>5. account.ok /\ account.owed = book.squash.amount + ListTotal(prep.useds)
  <2>. DEFINE U == {Disclosed(a) : a \in OpenOf(book, cs)}
  <2>1. ch.useds \in Seq(UsedRecords) /\ prep.useds \in Seq(UsedRecords)
    BY <1>1, <1>2, UsedsAreRecords DEF SubLists
  <2>2. IsSquash(book.squash) /\ prep.unlockeds \in Seq(U)
    BY <1>2, BookSquashIs DEF SubLists
  <2>. HIDE DEF prep, U
  <2>. QED
    BY <1>1, <1>4, <2>1, <2>2, SubIsExact
<1>. HIDE DEF prep, account
<1>6. /\ built.step = "Sub" /\ built.squash = book.squash /\ built.unlockeds = prep.unlockeds
      /\ gain \in Nat /\ took + gain <= account.owed
      /\ built.out = OpenedWith(ch.amount - gain, took + gain, prep.useds)
  BY <1>1, <1>3, <1>5 DEF SubGains
<1>7. /\ in.stage = "Opened" /\ in.amount = ch.amount + MinAdaBuffer /\ in.subbed = took
      /\ in.useds = ch.useds
  BY <1>1 DEF Buffered, OpenedWith
<1>8. /\ out.stage = "Opened" /\ out.amount = ch.amount - gain + MinAdaBuffer
      /\ out.subbed = took + gain /\ out.useds = prep.useds
  BY <1>6 DEF Buffered, OpenedWith
<1>. HIDE DEF in, out
<1>9. RecordsWithdrawal(in, out)
  BY <1>1, <1>6, <1>7, <1>8, MinAdaBufferAssumption DEF RecordsWithdrawal
<1>10. SubStep(signed, upper, in, out, book.squash, prep.unlockeds)
  BY <1>5, <1>6, <1>7, <1>8, <1>9 DEF SubStep, account
<1>. QED
  BY <1>6, <1>10 DEF Verifies, StepHolds, Ends, in, out

-----------------------------------------------------------------------------
(* The validator accepts a Respond that passes every used.                 *)

\* All of the useds are still to be squashed, and precede a cheque put forward.
PassesAll(book, useds, prep) ==
    \A used \in Entries(useds) :
        /\ ~IsIndexSquashed(book.squash, used.index)
        /\ \E c \in Entries(prep.cheques) : c.body.index > used.index

\* The cheques a Respond puts forward: fresh ones of the receipt, in order.
PutsForward(prep, book, cs, useds, upper) ==
    /\ prep.cheques \in Seq(Carries(cs)) /\ Ascending(Bodies(prep.cheques))
    /\ \A c \in Entries(prep.cheques) : c \in Entries(book.cheques) /\ IsFresh(useds, upper, c.body)
    /\ LET locked == EntriesAt(prep.cheques, {n \in DOMAIN prep.cheques : ~prep.cheques[n].unlocked})
       IN  prep.pends = [n \in DOMAIN locked |-> PendOf(locked[n].body)]

LEMMA RespondPuts ==
    ASSUME NEW cs, NEW book, Books(book, cs), Tidy(book), NEW useds, NEW upper
    PROVE  PutsForward(PrepRespond(book, useds, upper), book, cs, useds, upper)
<1>. DEFINE list == book.cheques
            F == {n \in DOMAIN list : IsFresh(useds, upper, list[n].body)}
            fresh == EntriesAt(list, F)
            locked == EntriesAt(fresh, {n \in DOMAIN fresh : ~fresh[n].unlocked})
            prep == PrepRespond(book, useds, upper)
<1>1. list \in Seq(Carries(cs)) /\ Ascending(Bodies(list))
  BY AccountsIs DEF Books, Tidy
<1>2. Where(list, LAMBDA c : IsFresh(useds, upper, c.body)) = fresh
  BY DEF Where, The
<1>3. fresh \in Seq(Carries(cs)) /\ Ascending(Bodies(fresh)) /\ Entries(fresh) = {list[n] : n \in F}
  <2>1. F \subseteq DOMAIN list
    OBVIOUS
  <2>. HIDE DEF F, list
  <2>. QED
    BY <1>1, <2>1, EntriesAtSelects, EntriesAtAre, BodiesAscend
<1>4. \A c \in Entries(fresh) : c \in Entries(list) /\ IsFresh(useds, upper, c.body)
  <2>. HIDE DEF fresh
  <2>. QED
    BY <1>3 DEF Entries
<1>. HIDE DEF fresh
<1>5. Where(fresh, LAMBDA c : ~c.unlocked) = locked
  BY DEF Where, The
<1>6. prep.cheques = fresh /\ prep.pends = [n \in DOMAIN locked |-> PendOf(locked[n].body)]
  <2>. HIDE DEF locked
  <2>. QED
    BY <1>2, <1>5 DEF PrepRespond
<1>. HIDE DEF prep
<1>. QED
  BY <1>3, <1>4, <1>6 DEF PutsForward, prep

LEMMA CarriesHave ==
    ASSUME NEW cs, Numbered(cs)
    PROVE  ChequeRecords(Carries(cs)) /\ HaveAmounts(PendsOf(cs))
<1>1. ASSUME NEW c \in Carries(cs)
      PROVE  c.unlocked \in BOOLEAN /\ c.body.index \in Nat /\ c.body.amount \in Nat
  <2>1. PICK a \in cs : IsOf(c, a)
    BY CarriesAre
  <2>. QED
    BY <2>1, CarriesAre DEF IsOf
<1>2. HaveAmounts(PendsOf(cs))
  <2>1. Distinct(cs) /\ cs \in SUBSET cs
    BY DEF Numbered
  <2>. QED
    BY <2>1, UsedIs
<1>. QED
  BY <1>1, <1>2 DEF ChequeRecords

\* What the validator reads of a cheque that is put forward.
LEMMA PutForwardIs ==
    ASSUME NEW cs, NEW book, Books(book, cs), Tidy(book), Dated(cs),
           NEW signed, cs \subseteq signed, NEW upper \in Nat, NEW useds,
           NEW c \in Carries(cs), c \in Entries(book.cheques), IsFresh(useds, upper, c.body)
    PROVE  /\ ~IsSquashed(book.squash, c.body.index) /\ ~IsUsed(useds, c.body.index)
           /\ IF c.unlocked THEN LockedForm(c.body) \in signed /\ upper <= c.body.timeout
                            ELSE c.body \in signed
<1>1. Numbered(cs) /\ Accounts(book, cs)
  BY DEF Books
<1>2. PICK a \in cs : IsOf(c, a)
  BY <1>1, CarriesAre
<1>3. c.body.timeout = a.timeout /\ a.timeout > upper /\ c.body.index \in Nat
  <2>1. c.body.timeout > upper
    BY DEF IsFresh
  <2>. QED
    BY <1>1, <1>2, <2>1, DisclosedSigned, CarriesAre DEF IsOf
<1>4. IF c.unlocked THEN LockedForm(c.body) \in signed /\ upper <= c.body.timeout
                    ELSE c.body \in signed
  BY <1>1, <1>2, <1>3, ShownInTime DEF IsOf
<1>5. ~IsIndexSquashed(book.squash, c.body.index)
  BY <1>1 DEF Accounts, Entries
<1>. QED
  BY <1>3, <1>4, <1>5, BookSquashIs DEF IsFresh

LEMMA RespondIsEvidence ==
    ASSUME NEW cs, NEW book, Books(book, cs), Tidy(book), Dated(cs),
           NEW signed, book.squash \in signed, cs \subseteq signed, NEW upper \in Nat,
           NEW useds \in Seq(UsedRecords), NEW prep, PutsForward(prep, book, cs, useds, upper),
           PassesAll(book, useds, prep)
    PROVE  RespondEvidence(signed, upper, useds, book.squash, prep.cheques,
                           ListTotal(prep.pends), prep.pends)
<1>. DEFINE list == prep.cheques
            bodies == Bodies(list)
<1>1. /\ list \in Seq(Carries(cs)) /\ Ascending(bodies)
      /\ \A c \in Entries(list) : c \in Entries(book.cheques) /\ IsFresh(useds, upper, c.body)
      /\ prep.pends = [n \in DOMAIN EntriesAt(list, {k \in DOMAIN list : ~list[k].unlocked}) |->
                          PendOf(EntriesAt(list, {k \in DOMAIN list : ~list[k].unlocked})[n].body)]
  BY DEF PutsForward
<1>2. DOMAIN bodies = DOMAIN list /\ \A n \in DOMAIN list : bodies[n] = list[n].body
  BY DEF Bodies
<1>3. ASSUME NEW n \in DOMAIN list
      PROVE  /\ ~IsSquashed(book.squash, list[n].body.index) /\ ~IsUsed(useds, list[n].body.index)
             /\ IF list[n].unlocked THEN LockedForm(list[n].body) \in signed /\ upper <= list[n].body.timeout
                                    ELSE list[n].body \in signed
  <2>. DEFINE c == list[n]
  <2>1. c \in Carries(cs) /\ c \in Entries(list)
    BY <1>1, ListEntries DEF Entries
  <2>. HIDE DEF c
  <2>2. /\ ~IsSquashed(book.squash, c.body.index) /\ ~IsUsed(useds, c.body.index)
        /\ IF c.unlocked THEN LockedForm(c.body) \in signed /\ upper <= c.body.timeout
                         ELSE c.body \in signed
    BY <1>1, <2>1, PutForwardIs
  <2>. QED
    BY <2>2 DEF c
<1>4. \A m \in DOMAIN useds : ~IsSquashed(book.squash, useds[m].index)
  <2>1. ASSUME NEW m \in DOMAIN useds PROVE ~IsSquashed(book.squash, useds[m].index)
    <3>1. useds[m] \in UsedRecords /\ useds[m] \in Entries(useds)
      BY ListEntries DEF Entries
    <3>2. useds[m].index \in Nat /\ ~IsIndexSquashed(book.squash, useds[m].index)
      BY <3>1 DEF PassesAll, UsedRecords
    <3>. QED
      BY <3>2, BookSquashIs
  <2>. QED
    BY <2>1
<1>5. \A n \in DOMAIN list, m \in DOMAIN useds : useds[m].index # list[n].body.index
  BY <1>3 DEF IsUsed
<1>. QED
  BY <1>1, <1>3, <1>4, <1>5 DEF RespondEvidence, Bodies

\* Together with the squash the useds it passes claim all that was taken.
LEMMA RespondOwes ==
    ASSUME NEW cs, NEW book, Books(book, cs), Tidy(book),
           NEW useds, Listed(useds, EarnedOf(book, cs)), NEW upper,
           NEW prep, PutsForward(prep, book, cs, useds, upper), PassesAll(book, useds, prep)
    PROVE  /\ RespondOwed(useds, book.squash, prep.cheques) \in Nat
           /\ Total(Shown(book, cs, useds)) <= RespondOwed(useds, book.squash, prep.cheques)
<1>. DEFINE E == EarnedOf(book, cs)
            A == CoveredOf(book.squash, cs)
            B == ListedOf(useds, E)
            list == prep.cheques
            passed == {n \in DOMAIN useds : useds[n].index <= FinalIndex(list)}
            open == {n \in DOMAIN list : list[n].unlocked}
            w == [n \in DOMAIN list |-> list[n].body.amount]
            v == [n \in DOMAIN useds |-> useds[n].amount]
<1>1. /\ Numbered(cs) /\ Distinct(cs) /\ Distinct(E) /\ A \in SUBSET cs /\ B \in SUBSET cs
      /\ book.squash.amount = Total(A)
  <2>1. Numbered(cs) /\ Distinct(cs) /\ book.squash.amount = Total(A)
    BY DEF Books, Numbered, PaysFor
  <2>2. E \in SUBSET cs /\ A \in SUBSET cs /\ B \in SUBSET E
    BY EarnedIs DEF ListedOf
  <2>. QED
    BY <2>1, <2>2, DistinctPart
<1>2. /\ useds \in Seq(UsedRecords) /\ DOMAIN useds = 1..Len(useds) /\ Len(useds) \in Nat
      /\ \A n \in DOMAIN useds : useds[n].index \in Nat
      /\ list \in Seq(Carries(cs)) /\ DOMAIN list = 1..Len(list) /\ Len(list) \in Nat
      /\ \A n \in DOMAIN list : list[n] \in Carries(cs) /\ list[n].body.index \in Nat /\ list[n].body.amount \in Nat
  <2>1. useds \in Seq(UsedRecords)
    BY UsedsAreRecords
  <2>2. list \in Seq(Carries(cs)) /\ DOMAIN list = 1..Len(list) /\ Len(list) \in Nat
        /\ \A n \in DOMAIN list : list[n] \in Carries(cs)
    BY ListEntries DEF PutsForward
  <2>3. DOMAIN useds = 1..Len(useds) /\ Len(useds) \in Nat /\ \A n \in DOMAIN useds : useds[n] \in UsedRecords
    BY <2>1, ListEntries
  <2>4. \A n \in DOMAIN useds : useds[n].index \in Nat
    BY <2>3 DEF UsedRecords
  <2>5. \A n \in DOMAIN list : list[n].body.index \in Nat /\ list[n].body.amount \in Nat
    BY <1>1, <2>2, CarriesAre
  <2>. QED
    BY <2>1, <2>2, <2>3, <2>4, <2>5
<1>3. ASSUME NEW n \in DOMAIN useds PROVE useds[n].index <= FinalIndex(list)
  <2>1. PICK c \in Entries(list) : c.body.index > useds[n].index
    BY <1>3 DEF PassesAll, Entries
  <2>2. PICK k \in DOMAIN list : c = list[k]
    BY <2>1 DEF Entries
  <2>3. Ascending(Bodies(list))
    BY DEF PutsForward
  <2>4. list # <<>> /\ Len(list) \in DOMAIN list /\ (k = Len(list) \/ k < Len(list))
    BY <1>2, <2>2
  <2>5. FinalIndex(list) = list[Len(list)].body.index
    BY <2>4 DEF FinalIndex
  <2>6. k < Len(list) => list[k].body.index < list[Len(list)].body.index
    BY <2>3, <2>4 DEF Ascending, Bodies
  <2>7. list[k].body.index \in Nat /\ list[Len(list)].body.index \in Nat /\ useds[n].index \in Nat
    BY <1>2, <2>4
  <2>. HIDE DEF list
  <2>. QED
    BY <2>1, <2>2, <2>4, <2>5, <2>6, <2>7
<1>4. passed = DOMAIN useds
  BY <1>3
<1>5. MapThenSumSet(LAMBDA n : useds[n].amount, passed) = ListTotal(useds)
  <2>1. \A n \in DOMAIN useds : v[n] = useds[n].amount
    OBVIOUS
  <2>. HIDE DEF passed, v
  <2>2. MapThenSumSet(LAMBDA n : useds[n].amount, passed) = SumOver(passed, v)
    BY <1>4, <2>1, AmountsAreSum
  <2>. QED
    BY <1>4, <2>1, <2>2, ListTotalIsSum
<1>6. MapThenSumSet(LAMBDA n : list[n].body.amount, open) \in Nat
  <2>1. /\ \A n \in open : w[n] = list[n].body.amount
        /\ \A n \in DOMAIN list : w[n] \in Nat
        /\ IsFiniteSet(DOMAIN list) /\ open \in SUBSET DOMAIN list
    <3>1. \A n \in DOMAIN list : w[n] = list[n].body.amount
      OBVIOUS
    <3>2. IsFiniteSet(DOMAIN list) /\ open \in SUBSET DOMAIN list
      BY <1>2, FS_Interval
    <3>3. open \subseteq DOMAIN list
      OBVIOUS
    <3>. HIDE DEF w, open
    <3>. QED
      BY <1>2, <3>1, <3>2, <3>3
  <2>. HIDE DEF open, w
  <2>2. SumOver(open, w) \in Nat
    BY <2>1, SumType
  <2>. QED
    BY <2>1, <2>2, BodyAmountsAreSum
<1>7. ListTotal(useds) = Total(B)
  BY <1>1, UsedsTotal
<1>8. A \cap B = {}
  <2>1. \A a \in B : \E n \in DOMAIN useds : useds[n].index = a.index
    BY DEF ListedOf
  <2>2. \A a \in B : ~IsIndexSquashed(book.squash, a.index)
    BY <2>1 DEF PassesAll, Entries
  <2>. QED
    BY <2>2 DEF CoveredOf
<1>9. Total(Shown(book, cs, useds)) = Total(A) + Total(B) /\ Total(A) \in Nat /\ Total(B) \in Nat
  <2>. HIDE DEF A, B
  <2>1. Distinct(cs) /\ A \in SUBSET cs /\ B \in SUBSET cs /\ A \cap B = {}
    BY <1>1, <1>8
  <2>2. Total(A \cup B) = Total(A) + Total(B) /\ Total(A) \in Nat /\ Total(B) \in Nat
    BY ONLY <2>1, TotalOfBoth
  <2>. QED
    BY <2>2 DEF Shown, A, B
<1>10. RespondOwed(useds, book.squash, list)
          = Total(A) + Total(B) + MapThenSumSet(LAMBDA n : list[n].body.amount, open)
  BY <1>1, <1>5, <1>7 DEF RespondOwed
<1>. HIDE DEF A, B, open
<1>. QED
  BY <1>6, <1>9, <1>10

LEMMA RespondAccepted ==
    ASSUME NEW cs, NEW book, Books(book, cs), Tidy(book), Dated(cs), NEW ch, NEW took,
           Keeps(ch, took, EarnedOf(book, cs), cs), ch # Spent, ch.stage = "Closed",
           Justifies(ch, took, book, cs),
           NEW signed, book.squash \in signed, cs \subseteq signed,
           NEW lower, NEW upper \in Nat, PassesAll(book, ch.useds, PrepRespond(book, ch.useds, upper)),
           NEW built, built = RespondStepping(ch, book, upper)
    PROVE  Verifies(signed, lower, upper, ch, built)
<1>. DEFINE prep == PrepRespond(book, ch.useds, upper)
            owed == book.squash.amount + prep.amount
            gain == GainOf(ch, owed)
            next == RespondedWith(ch.amount - gain, prep.pends)
            account == RespondAccount(signed, upper, ch.useds, book.squash, prep.cheques,
                                      ListTotal(prep.pends), prep.pends)
            in == Buffered(ch)
            out == Buffered(built.out)
<1>1. /\ took \in Nat /\ ch.amount \in Nat /\ ch.subbed = took
      /\ Listed(ch.useds, EarnedOf(book, cs)) /\ ch = ClosedWith(ch.amount, took, ch.useds, ch.elapseAt)
      /\ Ascending(ch.useds) /\ took <= Total(Shown(book, cs, ch.useds))
  BY KeepsIs DEF IsClosed, Justifies
<1>2. PutsForward(prep, book, cs, ch.useds, upper) /\ PassesAll(book, ch.useds, prep)
  BY RespondPuts
<1>3. owed \in Nat /\ prep.pends \in Seq(PendsOf(cs))
  <2>1. owed \in 0..Total(EarnedOf(book, cs)) /\ prep.pends \in Seq(PendsOf(cs))
    BY <1>1, RespondClaims
  <2>. HIDE DEF owed
  <2>. QED
    BY <2>1
<1>4. /\ built.step = "Respond" /\ built.squash = book.squash /\ built.cheques = prep.cheques
      /\ built.out = next
  <2>. HIDE DEF next
  <2>. QED
    BY DEF RespondStepping, next, gain, owed, prep
<1>. HIDE DEF prep, owed
<1>5. gain \in 0..ch.amount
  BY <1>1, <1>3, GainIs
<1>. HIDE DEF gain
<1>6. ch.useds \in Seq(UsedRecords) /\ Numbered(cs)
  BY <1>1, UsedsAreRecords DEF Books
<1>7. RespondEvidence(signed, upper, ch.useds, book.squash, prep.cheques, ListTotal(prep.pends), prep.pends)
  BY <1>2, <1>6, RespondIsEvidence
<1>8. account.ok /\ account.owed = RespondOwed(ch.useds, book.squash, prep.cheques)
  <2>1. ListTotal(prep.pends) \in Nat /\ HaveAmounts(PendsOf(cs)) /\ ChequeRecords(Carries(cs))
    BY <1>3, <1>6, CarriesHave, ListTotalTail
  <2>2. prep.cheques \in Seq(Carries(cs)) /\ IsSquash(book.squash)
    BY <1>2, BookSquashIs DEF PutsForward
  <2>. DEFINE total == ListTotal(prep.pends)
              cheqs == prep.cheques
              pends == prep.pends
              P == PendsOf(cs)
              R == Carries(cs)
  <2>3. /\ HaveAmounts(P) /\ ChequeRecords(R) /\ cheqs \in Seq(R) /\ ch.useds \in Seq(UsedRecords)
        /\ Ascending(ch.useds) /\ IsSquash(book.squash) /\ total \in Int /\ pends \in Seq(P)
        /\ RespondEvidence(signed, upper, ch.useds, book.squash, cheqs, total, pends)
        /\ account = RespondAccount(signed, upper, ch.useds, book.squash, cheqs, total, pends)
    BY <1>1, <1>3, <1>6, <1>7, <2>1, <2>2
  <2>. HIDE DEF account, total, cheqs, pends, P, R
  <2>4. account.ok /\ account.owed = RespondOwed(ch.useds, book.squash, cheqs)
    BY ONLY <2>3, RespondIsExact
  <2>. QED
    BY <2>4 DEF cheqs
<1>9. took <= account.owed /\ account.owed \in Nat
  <2>1. /\ RespondOwed(ch.useds, book.squash, prep.cheques) \in Nat
        /\ Total(Shown(book, cs, ch.useds)) <= RespondOwed(ch.useds, book.squash, prep.cheques)
    BY <1>1, <1>2, RespondOwes
  <2>2. Total(Shown(book, cs, ch.useds)) \in Nat
    BY ShownIs
  <2>. HIDE DEF account
  <2>. QED
    BY <1>1, <1>8, <2>1, <2>2
<1>. HIDE DEF account
<1>10. /\ in.stage = "Closed" /\ in.amount = ch.amount + MinAdaBuffer /\ in.subbed = took
       /\ in.useds = ch.useds
  BY <1>1 DEF Buffered, ClosedWith
<1>11. /\ out.stage = "Responded" /\ out.amount = ch.amount - gain + MinAdaBuffer
       /\ out.pends = prep.pends /\ out.pendsAmount = ListTotal(prep.pends)
  BY <1>4 DEF Buffered, RespondedWith
<1>. HIDE DEF in, out, next
<1>12. RespondSubbed(in, out) <= account.owed
  BY <1>1, <1>5, <1>9, <1>10, <1>11, MinAdaBufferAssumption DEF RespondSubbed
<1>13. account.owed >= RespondSubbed(in, out)
  BY <1>12
<1>14. RespondStep(signed, upper, in, out, book.squash, prep.cheques)
  BY <1>8, <1>10, <1>11, <1>13 DEF RespondStep, account
<1>. QED
  BY <1>4, <1>14 DEF Verifies, StepHolds, Ends, in, out

-----------------------------------------------------------------------------
(* The validator accepts the transactions of the consumer.                 *)

LEMMA ExpireIsEvidence ==
    ASSUME NEW P, NEW pends \in Seq(P), \A p \in P : p.timeout \in Nat, NEW lower \in Nat
    PROVE  LET unpends == [n \in DOMAIN pends |-> IF IsExpired(pends[n], lower) THEN Expired ELSE Keep]
               kept == EntriesAt(pends, {n \in DOMAIN pends : ~IsExpired(pends[n], lower)})
           IN  unpends \in Seq({Expired, Keep}) /\ ExpireEvidence(lower, unpends, pends, kept)
<1>. DEFINE D == DOMAIN pends
            unpends == [n \in D |-> IF IsExpired(pends[n], lower) THEN Expired ELSE Keep]
            stays == {n \in D : ~IsExpired(pends[n], lower)}
            kept == EntriesAt(pends, stays)
            settled == {n \in DOMAIN unpends : unpends[n] # Keep}
            left == {n \in D : n \notin settled}
<1>1. /\ D = 1..Len(pends) /\ Len(pends) \in Nat
      /\ \A n \in D : pends[n].timeout \in Nat
  BY ListEntries
<1>2. Expired # Keep
  BY DEF Expired, Keep
<1>3. /\ DOMAIN unpends = D
      /\ \A n \in D : unpends[n] = IF IsExpired(pends[n], lower) THEN Expired ELSE Keep
  OBVIOUS
<1>4. unpends \in Seq({Expired, Keep}) /\ Len(unpends) = Len(pends)
  <2>1. \A n \in D : unpends[n] \in {Expired, Keep}
    BY <1>3
  <2>2. unpends = [n \in 1..Len(pends) |-> unpends[n]]
    BY <1>1
  <2>. HIDE DEF unpends, D
  <2>. QED
    BY ONLY <1>1, <2>1, <2>2
<1>. HIDE DEF unpends
<1>5. settled \subseteq D /\ \A n \in D : n \in settled <=> IsExpired(pends[n], lower)
  BY <1>2, <1>3
<1>6. left = stays
  BY <1>5
<1>7. \A n \in settled : ExpireSettles(lower, pends[n])
  BY <1>1, <1>5 DEF IsExpired, ExpireSettles
<1>. DEFINE RankOf(n) == Cardinality({m \in left : m <= n})
<1>8. Len(kept) = Cardinality(left) /\ \A n \in left : kept[RankOf(n)] = pends[n]
  <2>1. stays \in SUBSET DOMAIN pends
    OBVIOUS
  <2>. HIDE DEF stays
  <2>2. Len(kept) = Cardinality(stays) /\ \A n \in stays : kept[RankIn(stays, n)] = pends[n]
    BY <2>1, EntriesAtRanks
  <2>. QED
    BY <1>6, <2>2 DEF RankIn
<1>9. Len(unpends) <= Len(pends)
  BY <1>1, <1>4
<1>10. ExpireEvidence(lower, unpends, pends, kept)
  <2>. HIDE DEF kept
  <2>. QED
    BY <1>7, <1>8, <1>9 DEF ExpireEvidence, PendsEvidence
<1>. QED
  BY <1>4, <1>10 DEF unpends

LEMMA ConsumerAccepted ==
    ASSUME NEW cs, Numbered(cs), Dated(cs), NEW E, NEW ch, NEW took, Keeps(ch, took, E, cs), ch # Spent,
           ch.stage = "Closed" => ch.elapseAt \in Nat,
           NEW signed, NEW lower \in Nat, NEW upper,
           NEW built \in {ConsumerTick(ch, lower)} \ {NoStepping}
    PROVE  Verifies(signed, lower, upper, ch, built)
<1>. DEFINE in == Buffered(ch)
            out == Buffered(built.out)
<1>1. built = ConsumerTick(ch, lower) /\ built # NoStepping /\ ch.stage \in {"Opened", "Closed", "Responded"}
  BY KeepsIs
<1>2. CASE ch.stage = "Opened"
  BY <1>1, <1>2 DEF ConsumerTick
<1>3. CASE ch.stage = "Closed"
  <2>1. built.step = "Elapse" /\ ch.elapseAt < lower
    BY <1>1, <1>3 DEF ConsumerTick, ElapseStepping, Elapses
  <2>2. in.stage = "Closed" /\ in.elapseAt = ch.elapseAt
    BY <1>3, KeepsIs DEF IsClosed, ClosedWith, Buffered
  <2>3. ElapseStep(lower, in)
    BY <1>3, <2>1, <2>2 DEF ElapseStep
  <2>. HIDE DEF in
  <2>. QED
    BY <2>1, <2>3 DEF Verifies, StepHolds, Ends, in
<1>4. CASE ch.stage = "Responded"
  <2>. DEFINE pends == ch.pends
              P == PendsOf(cs)
              kept == EntriesAt(pends, {n \in DOMAIN pends : ~IsExpired(pends[n], lower)})
              unpends == [n \in DOMAIN pends |-> IF IsExpired(pends[n], lower) THEN Expired ELSE Keep]
              account == ExpireAccount(lower, unpends, pends, kept)
  <2>1. ch = RespondedWith(ch.amount, pends) /\ pends \in Seq(P) /\ ch.amount \in Nat
    BY <1>4, KeepsIs DEF IsResponded
  <2>2. HaveAmounts(P) /\ \A p \in P : p.timeout \in Nat
    BY CarriesHave DEF Dated, PendsOf, PendOf
  <2>3. /\ in.stage = "Responded" /\ in.pends = pends /\ in.pendsAmount = ListTotal(pends)
    BY <2>1 DEF Buffered, RespondedWith
  <2>4. CASE pends = <<>>
    <3>1. built.step = "End"
      BY <1>1, <1>4, <2>4 DEF ConsumerTick, EndStepping
    <3>2. EndStep(lower, in)
      <4>1. \A n \in DOMAIN pends : pends[n].timeout <= lower
        BY <2>4
      <4>. QED
        BY <2>3, <4>1 DEF EndStep
    <3>. HIDE DEF in
    <3>. QED
      BY <3>1, <3>2 DEF Verifies, StepHolds, Ends, in
  <2>5. CASE pends # <<>>
    <3>1. built = ExpireStepping(ch, lower)
      BY <1>1, <1>4, <2>5 DEF ConsumerTick
    <3>2. Where(pends, LAMBDA pend : ~IsExpired(pend, lower)) = kept
      BY DEF Where, The
    <3>3. unpends \in Seq({Expired, Keep}) /\ ExpireEvidence(lower, unpends, pends, kept)
      <4>. HIDE DEF pends, P
      <4>. QED
        BY <2>1, <2>2, ExpireIsEvidence
    <3>4. kept \in Seq(P)
      BY <2>1, EntriesAtSelects
    <3>. HIDE DEF kept, unpends
    <3>5. /\ built.step = "Expire" /\ built.unpends = unpends
          /\ built.out = RespondedWith(ListTotal(kept), kept)
      BY <1>1, <3>1, <3>2 DEF ExpireStepping, unpends
    <3>6. account.ok /\ account.total = ListTotal(pends) - ListTotal(kept)
      <4>. DEFINE V == {Expired, Keep}
      <4>1. /\ HaveAmounts(P) /\ unpends \in Seq(V) /\ pends \in Seq(P) /\ kept \in Seq(P)
            /\ ExpireEvidence(lower, unpends, pends, kept)
            /\ account = ExpireAccount(lower, unpends, pends, kept)
        BY <2>1, <2>2, <3>3, <3>4
      <4>. HIDE DEF pends, P, V, account
      <4>2. account.ok
        BY ONLY <4>1, ExpireIsExact
      <4>. QED
        BY ONLY <4>1, <4>2, ExpireSettlesOneByOne
    <3>7. /\ out.stage = "Responded" /\ out.amount = ListTotal(kept) + MinAdaBuffer
          /\ out.pends = kept /\ out.pendsAmount = ListTotal(kept)
      BY <3>5 DEF Buffered, RespondedWith
    <3>8. ListTotal(kept) \in Nat
      BY <2>2, <3>4, ListTotalTail
    <3>. HIDE DEF in, out, account
    <3>9. CoversPendings(out)
      BY <3>7, <3>8, MinAdaBufferAssumption DEF CoversPendings
    <3>10. ExpireStep(lower, in, out, unpends)
      BY <2>3, <3>6, <3>7, <3>9 DEF ExpireStep, account
    <3>. QED
      BY <3>5, <3>10 DEF Verifies, StepHolds, Ends, in, out
  <2>. QED
    BY <2>4, <2>5
<1>. QED
  BY <1>1, <1>2, <1>3, <1>4

-----------------------------------------------------------------------------
(* Every transaction that a wallet builds.                                 *)

LEMMA OrderedIs ==
    ASSUME Ordered
    PROVE  /\ Books(receipt, cheques) /\ Numbered(cheques) /\ Tidy(receipt) /\ Dated(cheques)
           /\ Keeps(channel, taken, EarnedOf(receipt, cheques), cheques)
           /\ Justifies(channel, taken, receipt, cheques)
           /\ receipt.squash \in Signed /\ cheques \subseteq Signed
           /\ Upper \in Nat /\ Lower \in Nat
<1>1. Inv /\ now \in Nat
  BY DEF Ordered, Inv
<1>2. Upper \in Nat /\ Lower \in Nat
  BY <1>1, TimesAssumption DEF Upper, Lower, Monus
<1>. QED
  BY <1>1, <1>2, InvIs DEF Ordered, Inv, Signed

LEMMA OrderedVerifies ==
    ASSUME Ordered
    PROVE  BuiltVerifies
<1>1. /\ Books(receipt, cheques) /\ Numbered(cheques) /\ Tidy(receipt) /\ Dated(cheques)
      /\ Keeps(channel, taken, EarnedOf(receipt, cheques), cheques)
      /\ Justifies(channel, taken, receipt, cheques)
      /\ receipt.squash \in Signed /\ cheques \subseteq Signed
      /\ Upper \in Nat /\ Lower \in Nat
  BY OrderedIs
<1>2. ASSUME channel.stage = "Opened", NEW built \in ProviderSteppings
      PROVE  Verifies(Signed, Lower, Upper, channel, built)
  <2>1. built = SubStepping(channel, receipt, Upper) /\ built # NoStepping
    BY <1>2 DEF ProviderSteppings, AnySub
  <2>2. channel # Spent
    BY <1>2 DEF Spent
  <2>. QED
    BY <1>1, <1>2, <2>1, <2>2, SubAccepted
<1>3. ASSUME channel.stage = "Closed", UsedsAccounted(channel.useds), NEW built \in ProviderSteppings
      PROVE  Verifies(Signed, Lower, Upper, channel, built)
  <2>1. built = RespondStepping(channel, receipt, Upper)
    BY <1>3 DEF ProviderSteppings, AnySub
  <2>2. channel # Spent
    BY <1>3 DEF Spent
  <2>3. PassesAll(receipt, channel.useds, PrepRespond(receipt, channel.useds, Upper))
    BY <1>3 DEF UsedsAccounted, PassesAll, Range, Entries
  <2>. QED
    BY <1>1, <1>3, <2>1, <2>2, <2>3, RespondAccepted
<1>4. ASSUME Live, NEW built \in {ConsumerTick(channel, Lower)} \ {NoStepping}
      PROVE  Verifies(Signed, Lower, Upper, channel, built)
  <2>1. channel # Spent /\ (channel.stage = "Closed" => channel.elapseAt \in Nat)
    BY <1>1, <1>4 DEF Live, Justifies
  <2>. QED
    BY <1>1, <1>4, <2>1, ConsumerAccepted
<1>. QED
  BY <1>2, <1>3, <1>4 DEF BuiltVerifies, RespondVerifies, Open

(* The validator accepts every Sub the provider's wallet builds, every Respond
   whose useds are all to be squashed and precede a cheque it puts forward, and
   every Elapse, Expire and End of the consumer's (the builders of
   tx/channel.rs and the walks of the kernel's steps). *)
THEOREM BuiltVerifiesAlways == Spec => []BuiltVerifies
<1>1. Ordered => BuiltVerifies
  BY OrderedVerifies
<1>. QED
  BY <1>1, InitOrdered, OrderedStays, PTL DEF Spec
=============================================================================
