----------------------- MODULE KonduitAdaptor_proofs -----------------------
(***************************************************************************)
(* Proofs about the provider's server and its channel: an accepted cheque  *)
(* is never lost, the lightning node pays only what an accepted cheque is  *)
(* worth, what the record commits to is covered by the channel, though the *)
(* retainer it goes by is a snapshot of the past, and a quote is honoured  *)
(* while nothing happens.                                                  *)
(***************************************************************************)
EXTENDS KonduitAdaptor, KonduitReceipt_proofs

USE MaxUnsquashedAssumption, MaxExcludeAssumption, WordAssumption, MsatAssumption,
    FeePlaceholderAssumption, MaxIndexSignedAssumption, RatesAssumption, PayAmountsAssumption

-----------------------------------------------------------------------------
(* What the record may hold.                                               *)

UnlockedBody ==
    [index : 1..MaxIndexSigned, amount : PayAmounts, timeout : Timeouts, latch : Secret]

\* The cheques of a receipt: as the consumer signed them, or with their secret.
Carried == [body : Locked, unlocked : {FALSE}] \cup [body : UnlockedBody, unlocked : {TRUE}]
AsSigned(c) == IF c.unlocked THEN LockedForm(c.body) ELSE c.body

Receipts == [squash : Squashes, cheques : Seq(Carried)]

\* Of the squashes the consumer signed, the one held is worth the most.
HoldsBest(receipt, signed) ==
    /\ receipt.squash \in signed
    /\ \A q \in signed : q = receipt.squash \/ q.amount < receipt.squash.amount

\* The receipt holds the cheque, or its squash pays for it.
Keeps(receipt, locked) ==
    \/ \E n \in DOMAIN receipt.cheques : AsSigned(receipt.cheques[n]) = locked
    \/ IsIndexSquashed(receipt.squash, locked.index)

KeepsAll(receipt, cheques) == \A locked \in cheques : Keeps(receipt, locked)

IsRow(row) == row = [retainer |-> row.retainer, receipt |-> row.receipt]

HoldsReceipt(receipt, signed, cheques) ==
    /\ receipt \in Receipts
    /\ HoldsBest(receipt, signed)
    /\ KeepsAll(receipt, cheques)

HoldsNone(receipt, signed, cheques) == receipt = None /\ cheques = {} /\ signed = {ZeroBody}

ReceiptInv ==
    /\ IsRow(record)
    /\ squashes \subseteq Squashes /\ accepted \subseteq Locked
    /\ \/ HoldsNone(record.receipt, squashes, accepted)
       \/ HoldsReceipt(record.receipt, squashes, accepted)

Latches == {c.body.latch : c \in Carried}
UnlocksInv == unlocks.pc = "reveal" => HasReceipt(record) /\ unlocks.locks \in Seq(Latches)

\* A cheque of the secret's lock is worth what the node may spend on it.
Backed(cheques, secret, limit) ==
    \E locked \in cheques :
        /\ locked.latch = Sha2(secret)
        /\ \E r \in Rates : locked.amount >= FeePlaceholder + Lovelace(Msat + limit, r)

Payments == [is : {"idle", "inflight", "settled", "failed"}, limit : Nat]

PaysBacked(task, cheques) ==
    task.pc = "send" =>
        /\ task.secret \in Secret /\ task.limit \in Nat
        /\ Backed(cheques, task.secret, task.limit)

PaymentInv ==
    /\ rate \in Rates
    /\ DOMAIN tasks = Slot /\ \A slot \in Slot : PaysBacked(tasks[slot], accepted)
    /\ bln \in [Secret -> Payments]
    /\ \A secret \in Secret :
          bln[secret].is \in {"inflight", "settled"} => Backed(accepted, secret, bln[secret].limit)

AdaptorInv == ReceiptInv /\ UnlocksInv /\ PaymentInv

-----------------------------------------------------------------------------
(* Receipts and their cheques.                                             *)

LEMMA LockedIs ==
    ASSUME NEW locked \in Locked
    PROVE  /\ locked.index \in Nat /\ locked.index \in 1..MaxIndexSigned
           /\ locked.amount \in PayAmounts /\ locked.amount \in Nat
           /\ locked.amount > FeePlaceholder /\ locked.timeout \in Timeouts
           /\ \E s \in Secret : locked.latch = Sha2(s)
           /\ locked = [index |-> locked.index, amount |-> locked.amount,
                        timeout |-> locked.timeout, latch |-> locked.latch]
<1>1. /\ locked.index \in 1..MaxIndexSigned /\ locked.amount \in PayAmounts
      /\ locked.timeout \in Timeouts /\ locked.latch \in {Sha2(s) : s \in Secret}
      /\ locked = [index |-> locked.index, amount |-> locked.amount,
                   timeout |-> locked.timeout, latch |-> locked.latch]
  BY DEF Locked
<1>. QED
  BY <1>1

LEMMA CarriedIs ==
    ASSUME NEW c \in Carried
    PROVE  /\ c.unlocked \in BOOLEAN
           /\ c.unlocked => c.body \in UnlockedBody
           /\ ~c.unlocked => c.body \in Locked
           /\ c.body.index \in Nat /\ c.body.amount \in Nat /\ c.body.amount > FeePlaceholder
           /\ c = [body |-> c.body, unlocked |-> c.unlocked]
           /\ AsSigned(c) \in Locked /\ AsSigned(c).index = c.body.index
<1>1. CASE c \in [body : Locked, unlocked : {FALSE}]
  <2>1. /\ c.body \in Locked /\ c.unlocked = FALSE
        /\ c = [body |-> c.body, unlocked |-> c.unlocked]
    BY <1>1
  <2>. QED
    BY <2>1, LockedIs DEF AsSigned
<1>2. CASE c \in [body : UnlockedBody, unlocked : {TRUE}]
  <2>. DEFINE b == c.body
  <2>1. /\ b \in UnlockedBody /\ c.unlocked = TRUE
        /\ c = [body |-> b, unlocked |-> c.unlocked]
    BY <1>2
  <2>2. /\ b.index \in 1..MaxIndexSigned /\ b.amount \in PayAmounts
        /\ b.timeout \in Timeouts /\ b.latch \in Secret
        /\ b = [index |-> b.index, amount |-> b.amount, timeout |-> b.timeout, latch |-> b.latch]
    BY <2>1 DEF UnlockedBody
  <2>. HIDE DEF b
  <2>3. LockedForm(b) = [index |-> b.index, amount |-> b.amount, timeout |-> b.timeout,
                         latch |-> Sha2(b.latch)]
    BY <2>2 DEF LockedForm
  <2>4. LockedForm(b) \in Locked /\ LockedForm(b).index = b.index
    BY <2>2, <2>3 DEF Locked
  <2>5. b.index \in Nat /\ b.amount \in Nat /\ b.amount > FeePlaceholder
    BY <2>2
  <2>. QED
    BY <2>1, <2>4, <2>5 DEF AsSigned, b
<1>. QED
  BY <1>1, <1>2 DEF Carried

LEMMA ReceiptIs ==
    ASSUME NEW receipt \in Receipts
    PROVE  /\ receipt.squash \in Squashes /\ receipt.cheques \in Seq(Carried)
           /\ receipt = [squash |-> receipt.squash, cheques |-> receipt.cheques]
           /\ Len(receipt.cheques) \in Nat /\ DOMAIN receipt.cheques = 1..Len(receipt.cheques)
           /\ \A n \in DOMAIN receipt.cheques : receipt.cheques[n] \in Carried
           /\ receipt # None
<1>1. /\ receipt.squash \in Squashes /\ receipt.cheques \in Seq(Carried)
      /\ receipt = [squash |-> receipt.squash, cheques |-> receipt.cheques]
  BY DEF Receipts
<1>2. /\ Len(receipt.cheques) \in Nat /\ DOMAIN receipt.cheques = 1..Len(receipt.cheques)
      /\ \A n \in DOMAIN receipt.cheques : receipt.cheques[n] \in Carried
  BY <1>1, ListEntries
<1>3. "none" \in DOMAIN None /\ "none" \notin DOMAIN receipt
  BY <1>1 DEF None
<1>. QED
  BY <1>1, <1>2, <1>3

\* The bodies of what is carried, as a proposal looks at them.
AnyBody == {c.body : c \in Carried}

LEMMA BodiesHaveIndexes ==
    HaveIndexes(AnyBody) /\ HaveAmounts(AnyBody) /\ \A b \in AnyBody : b.amount >= 1
  BY CarriedIs DEF AnyBody, HaveIndexes, HaveAmounts

LEMMA BodiesOfCarried ==
    ASSUME NEW list \in Seq(Carried)
    PROVE  Bodies(list) \in Seq(AnyBody) /\ DOMAIN Bodies(list) = DOMAIN list
<1>. DEFINE out == Bodies(list) n == Len(list)
<1>1. n \in Nat /\ DOMAIN list = 1..n /\ \A k \in 1..n : list[k] \in Carried
  BY ListEntries
<1>2. out = [k \in 1..n |-> list[k].body] /\ \A k \in 1..n : list[k].body \in AnyBody
  BY <1>1 DEF Bodies, AnyBody
<1>. HIDE DEF n, out
<1>3. out \in Seq(AnyBody)
  BY <1>1, <1>2
<1>. QED
  BY <1>1, <1>2, <1>3 DEF out

LEMMA SelectedBodies ==
    ASSUME NEW list \in Seq(Carried), NEW chosen
    PROVE  Bodies(EntriesAt(list, chosen)) \in Seq(AnyBody)
  BY EntriesAtSelects, BodiesOfCarried

LEMMA BodiesAre ==
    ASSUME NEW receipt \in Receipts
    PROVE  Unlockeds(receipt) \in Seq(AnyBody) /\ Lockeds(receipt) \in Seq(AnyBody)
<1>. DEFINE list == receipt.cheques
<1>1. list \in Seq(Carried)
  BY ReceiptIs
<1>. HIDE DEF list
<1>2. Where(list, LAMBDA c : c.unlocked) = EntriesAt(list, {n \in DOMAIN list : list[n].unlocked})
  BY DEF Where, The
<1>3. Where(list, LAMBDA c : ~c.unlocked) = EntriesAt(list, {n \in DOMAIN list : ~list[n].unlocked})
  BY DEF Where, The
<1>. QED
  BY <1>1, <1>2, <1>3, SelectedBodies DEF Unlockeds, Lockeds, list

\* A list that is not empty is worth something.
LEMMA ListTotalPositive ==
    ASSUME NEW list \in Seq(AnyBody)
    PROVE  /\ ListTotal(list) \in Nat
           /\ list # <<>> => ListTotal(list) >= 1
<1>. DEFINE w == [n \in DOMAIN list |-> list[n].amount]
<1>1. Len(list) \in Nat /\ DOMAIN list = 1..Len(list) /\ \A n \in DOMAIN list : list[n] \in AnyBody
  BY ListEntries
<1>2. \A n \in DOMAIN list : w[n] = list[n].amount /\ w[n] \in Nat /\ w[n] >= 1
  BY <1>1, BodiesHaveIndexes DEF HaveAmounts
<1>. HIDE DEF w
<1>3. ListTotal(list) = SumOver(DOMAIN list, w)
  BY <1>2, ListTotalIsSum
<1>a. IsFiniteSet(DOMAIN list)
  BY <1>1, FS_Interval
<1>4. SumOver(DOMAIN list, w) \in Nat
  BY <1>2, <1>a, SumType
<1>5. ASSUME list # <<>> PROVE SumOver(DOMAIN list, w) >= 1
  <2>1. 1 \in DOMAIN list
    BY <1>1, <1>5
  <2>2. SumOver(DOMAIN list, w) = w[1] + SumOver(DOMAIN list \ {1}, w)
    <3>1. DOMAIN list \in SUBSET DOMAIN list
      OBVIOUS
    <3>. QED
      BY <1>2, <1>a, <2>1, <3>1, SumRemoves
  <2>3. SumOver(DOMAIN list \ {1}, w) \in Nat
    BY <1>2, <1>a, SumType
  <2>. QED
    BY <1>2, <2>1, <2>2, <2>3
<1>. QED
  BY <1>3, <1>4, <1>5

-----------------------------------------------------------------------------
(* What the events of a record do to the cheques it keeps.                 *)

\* A squash that covers no less than the one held keeps every cheque.
LEMMA SquashKeeps ==
    ASSUME NEW receipt \in Receipts, NEW squash \in Squashes,
           Covered(receipt.squash) \subseteq Covered(squash)
    PROVE  /\ WithSquash(receipt, squash) \in Receipts
           /\ WithSquash(receipt, squash).squash = squash
           /\ \A locked \in Locked :
                 Keeps(receipt, locked) => Keeps(WithSquash(receipt, squash), locked)
<1>. DEFINE chosen == {n \in DOMAIN receipt.cheques :
                          ~IsIndexSquashed(squash, receipt.cheques[n].body.index)}
            out == EntriesAt(receipt.cheques, chosen)
<1>1. WithSquash(receipt, squash) = [squash |-> squash, cheques |-> out]
  <2>1. Where(receipt.cheques, LAMBDA c : ~IsIndexSquashed(squash, c.body.index)) = out
    BY DEF Where, The
  <2>. HIDE DEF out
  <2>. QED
    BY <2>1 DEF WithSquash
<1>2. out \in Seq(Carried) /\ Entries(out) = {receipt.cheques[n] : n \in chosen}
  <2>1. chosen \subseteq DOMAIN receipt.cheques
    OBVIOUS
  <2>. HIDE DEF chosen
  <2>. QED
    BY <2>1, ReceiptIs, EntriesAtSelects, EntriesAtAre
<1>. HIDE DEF out
<1>3. ASSUME NEW locked \in Locked, Keeps(receipt, locked)
      PROVE  \/ \E n \in DOMAIN out : AsSigned(out[n]) = locked
             \/ IsIndexSquashed(squash, locked.index)
  <2>1. locked.index \in Nat
    BY LockedIs
  <2>2. CASE IsIndexSquashed(receipt.squash, locked.index)
    BY <2>1, <2>2 DEF Covered
  <2>3. ASSUME NEW n \in DOMAIN receipt.cheques, AsSigned(receipt.cheques[n]) = locked,
               ~IsIndexSquashed(squash, locked.index)
        PROVE  \E k \in DOMAIN out : AsSigned(out[k]) = locked
    <3>1. receipt.cheques[n].body.index = locked.index
      BY <2>3, ReceiptIs, CarriedIs
    <3>2. receipt.cheques[n] \in Entries(out)
      BY <1>2, <2>3, <3>1
    <3>. QED
      BY <2>3, <3>2 DEF Entries
  <2>. QED
    BY <1>3, <2>2, <2>3 DEF Keeps
<1>4. WithSquash(receipt, squash) \in Receipts
  BY <1>1, <1>2 DEF Receipts
<1>. QED
  BY <1>1, <1>3, <1>4 DEF Keeps

LEMMA LockedIsKept ==
    ASSUME NEW receipt \in Receipts, NEW locked \in Locked
    PROVE  /\ WithLocked(receipt, locked) \in Receipts
           /\ WithLocked(receipt, locked).squash = receipt.squash
           /\ Keeps(WithLocked(receipt, locked), locked)
           /\ \A other : Keeps(receipt, other) => Keeps(WithLocked(receipt, locked), other)
<1>. DEFINE c == [body |-> locked, unlocked |-> FALSE]
            old == receipt.cheques
            out == Append(old, c)
<1>1. c \in Carried /\ AsSigned(c) = locked
  BY DEF Carried, AsSigned
<1>2. WithLocked(receipt, locked) = [squash |-> receipt.squash, cheques |-> out]
  BY ReceiptIs DEF WithLocked
<1>. HIDE DEF c
<1>3. old \in Seq(Carried) /\ Len(old) \in Nat /\ DOMAIN old = 1..Len(old)
  BY ReceiptIs
<1>. HIDE DEF old
<1>4. /\ out \in Seq(Carried) /\ DOMAIN out = 1..(Len(old) + 1)
      /\ out[Len(old) + 1] = c /\ \A n \in 1..Len(old) : out[n] = old[n]
  BY <1>1, <1>3
<1>. HIDE DEF out
<1>5. WithLocked(receipt, locked) \in Receipts
  BY <1>2, <1>4, ReceiptIs DEF Receipts
<1>6. Len(old) + 1 \in DOMAIN out /\ \A n \in DOMAIN old : n \in DOMAIN out /\ out[n] = old[n]
  BY <1>3, <1>4
<1>. QED
  BY <1>1, <1>2, <1>4, <1>5, <1>6 DEF Keeps, old

\* The cheques of a receipt are those of another, some of them unlocked.
Reveals(new, old) ==
    /\ new.squash = old.squash
    /\ DOMAIN new.cheques = DOMAIN old.cheques
    /\ \A n \in DOMAIN old.cheques : AsSigned(new.cheques[n]) = AsSigned(old.cheques[n])

LEMMA SecretOpens ==
    ASSUME NEW c \in Carried, NEW secret, Opens(c, secret),
           NEW new, new = [body |-> [c.body EXCEPT !.latch = secret], unlocked |-> TRUE]
    PROVE  new \in Carried /\ AsSigned(new) = AsSigned(c)
<1>. DEFINE b == c.body
            open == [b EXCEPT !.latch = secret]
<1>1. b \in Locked /\ ~c.unlocked /\ b.latch = Sha2(secret)
  BY CarriedIs DEF Opens
<1>2. /\ b.index \in 1..MaxIndexSigned /\ b.amount \in PayAmounts /\ b.timeout \in Timeouts
      /\ b = [index |-> b.index, amount |-> b.amount, timeout |-> b.timeout, latch |-> b.latch]
      /\ \E s \in Secret : Sha2(secret) = Sha2(s)
  BY <1>1, LockedIs
<1>3. secret \in Secret
  BY <1>2 DEF Sha2
<1>. HIDE DEF b
<1>4. open = [index |-> b.index, amount |-> b.amount, timeout |-> b.timeout, latch |-> secret]
  BY <1>2
<1>. HIDE DEF open
<1>5. open \in UnlockedBody
  BY <1>2, <1>3, <1>4 DEF UnlockedBody
<1>6. LockedForm(open) = b
  BY <1>1, <1>2, <1>4 DEF LockedForm
<1>7. new.body = open /\ new.unlocked = TRUE
  BY DEF open, b
<1>. QED
  BY <1>1, <1>5, <1>6, <1>7 DEF Carried, AsSigned, open, b

LEMMA SecretKeeps ==
    ASSUME NEW receipt \in Receipts, NEW secret
    PROVE  /\ WithSecretOf(receipt, secret) \in Receipts
           /\ Reveals(WithSecretOf(receipt, secret), receipt)
<1>. DEFINE old == receipt.cheques
            R(c) == IF Opens(c, secret)
                    THEN [body |-> [c.body EXCEPT !.latch = secret], unlocked |-> TRUE]
                    ELSE c
            out == [n \in DOMAIN old |-> R(old[n])]
<1>1. WithSecretOf(receipt, secret) = [squash |-> receipt.squash, cheques |-> out]
  <2>1. WithSecretOf(receipt, secret) = [receipt EXCEPT !.cheques = out]
    BY DEF WithSecretOf
  <2>. HIDE DEF out
  <2>. QED
    BY <2>1, ReceiptIs
<1>2. /\ old \in Seq(Carried) /\ Len(old) \in Nat /\ DOMAIN old = 1..Len(old)
      /\ \A n \in DOMAIN old : old[n] \in Carried
  BY ReceiptIs
<1>3. ASSUME NEW c \in Carried PROVE R(c) \in Carried /\ AsSigned(R(c)) = AsSigned(c)
  BY SecretOpens
<1>. HIDE DEF R, old
<1>4. /\ DOMAIN out = 1..Len(old)
      /\ \A n \in DOMAIN old : out[n] \in Carried /\ AsSigned(out[n]) = AsSigned(old[n])
  BY <1>2, <1>3
<1>5. out \in Seq(Carried)
  <2>1. out = [n \in 1..Len(old) |-> out[n]]
    BY <1>2
  <2>. HIDE DEF out
  <2>. QED
    BY <1>2, <1>4, <2>1
<1>. HIDE DEF out
<1>. QED
  BY <1>1, <1>2, <1>4, <1>5, ReceiptIs DEF Receipts, Reveals, old

LEMMA RevealsKeep ==
    ASSUME NEW new, NEW old, Reveals(new, old), NEW locked, Keeps(old, locked)
    PROVE  Keeps(new, locked)
  BY DEF Reveals, Keeps

-----------------------------------------------------------------------------
(* Secrets are applied in turn.                                            *)

\* The step of the fold in SecretsInto.
SecretWith(acc, s) ==
    IF acc.ok /\ TakesSecret(acc.receipt, s)
    THEN [acc EXCEPT !.receipt = WithSecretOf(@, s)]
    ELSE [acc EXCEPT !.ok = FALSE]

\* What the fold may hold: a receipt that reveals secrets of the first.
Openings(first) == {a \in [ok : BOOLEAN, receipt : Receipts] : Reveals(a.receipt, first)}

LEMMA SecretWithKeeps ==
    ASSUME NEW first, NEW acc \in Openings(first), NEW s
    PROVE  SecretWith(acc, s) \in Openings(first)
<1>1. /\ acc.ok \in BOOLEAN /\ acc.receipt \in Receipts /\ Reveals(acc.receipt, first)
      /\ acc = [ok |-> acc.ok, receipt |-> acc.receipt]
  BY DEF Openings
<1>2. CASE acc.ok /\ TakesSecret(acc.receipt, s)
  <2>. DEFINE new == WithSecretOf(acc.receipt, s)
  <2>1. SecretWith(acc, s) = [acc EXCEPT !.receipt = new]
    BY <1>2 DEF SecretWith
  <2>2. new \in Receipts /\ Reveals(new, acc.receipt)
    BY <1>1, SecretKeeps
  <2>. HIDE DEF new
  <2>3. Reveals(new, first)
    BY <1>1, <2>2 DEF Reveals
  <2>4. SecretWith(acc, s) = [ok |-> acc.ok, receipt |-> new]
    BY <1>1, <2>1
  <2>. QED
    BY <1>1, <2>2, <2>3, <2>4 DEF Openings
<1>3. CASE ~(acc.ok /\ TakesSecret(acc.receipt, s))
  <2>1. SecretWith(acc, s) = [ok |-> FALSE, receipt |-> acc.receipt]
    BY <1>1, <1>3 DEF SecretWith
  <2>. QED
    BY <1>1, <2>1 DEF Openings
<1>. QED
  BY <1>2, <1>3

LEMMA SecretsKeep ==
    ASSUME NEW row, row.receipt \in Receipts, NEW T, NEW secrets \in Seq(T)
    PROVE  SecretsInto(row, secrets) \in Openings(row.receipt)
<1>. DEFINE n == Len(secrets)
            first == row.receipt
            State == Openings(first)
            base == [ok |-> HasReceipt(row), receipt |-> first]
            F(iter) == [s \in SUBSET (1..n) |->
                          IF s = {} THEN base
                          ELSE SecretWith(iter[s \ {Max(s)}], secrets[Max(s)])]
            step == [q \in State \X (1..n) |-> SecretWith(q[1], secrets[q[2]])]
            it == CHOOSE iter : iter = F(iter)
            end == it[1..n]
<1>1. n \in Nat /\ DOMAIN secrets = 1..n
  BY ListEntries
<1>2. SecretsInto(row, secrets) = end
  <2>. HIDE DEF n
  <2>. QED
    BY <1>1 DEF SecretsInto, SecretWith, FoldLeft, MapThenFoldSet
<1>3. base \in State
  <2>1. Reveals(first, first) /\ HasReceipt(row) \in BOOLEAN
    BY DEF Reveals, HasReceipt
  <2>. QED
    BY <2>1 DEF Openings
<1>. HIDE DEF base, n
<1>4. \A a \in State : \A k \in 1..n : SecretWith(a, secrets[k]) \in State
  BY SecretWithKeeps
<1>. HIDE DEF State
<1>5. step \in [State \X (1..n) -> State]
  BY <1>4
<1>6. it = F(it)
  <2>1. PICK walk : IsWalk(walk, n, State, base, step)
    <3>. HIDE DEF step
    <3>. QED
      BY <1>1, <1>3, <1>5, WalkExists
  <2>2. ASSUME NEW s \in SUBSET (1..n), s # {}
        PROVE  walk[s] = SecretWith(walk[s \ {Max(s)}], secrets[Max(s)])
    <3>1. Max(s) \in 1..n /\ s \ {Max(s)} \in SUBSET (1..n)
      BY <1>1, <2>2, MaxIsIn
    <3>2. walk[s] = step[<<walk[s \ {Max(s)}], Max(s)>>] /\ walk[s \ {Max(s)}] \in State
      <4>. HIDE DEF step
      <4>. QED
        BY <2>1, <2>2, <3>1 DEF IsWalk
    <3>. QED
      BY <3>1, <3>2
  <2>3. walk = F(walk)
    BY <2>1, <2>2 DEF IsWalk
  <2>. HIDE DEF F
  <2>. QED
    BY <2>3
<1>. HIDE DEF it
<1>7. it[{}] = base
  BY <1>6
<1>8. ASSUME NEW s \in SUBSET (1..n), s # {}, it[s \ {Max(s)}] \in State
      PROVE  it[s] = step[<<it[s \ {Max(s)}], Max(s)>>]
  <2>1. Max(s) \in 1..n
    BY <1>1, <1>8, MaxIsIn
  <2>. QED
    BY <1>6, <1>8, <2>1
<1>9. IsFold(it, n, State, base, step)
  BY <1>7, <1>8 DEF IsFold
<1>10. it[1..n] \in State
  <2>. HIDE DEF step
  <2>. QED
    BY <1>1, <1>3, <1>5, <1>9, FoldStays
<1>. QED
  BY <1>2, <1>10 DEF State

-----------------------------------------------------------------------------
(* The invariant holds at first.                                           *)

LEMMA AdaptorInitially == Init => AdaptorInv
<1>. SUFFICES ASSUME Init PROVE AdaptorInv
  OBVIOUS
<1>1. ReceiptInv
  <2>1. record = [retainer |-> None, receipt |-> None] /\ accepted = {} /\ squashes = {ZeroBody}
    BY DEF Init, NewRecord
  <2>2. IsRow(record) /\ record.receipt = None
    BY <2>1 DEF IsRow
  <2>. QED
    BY <2>1, <2>2, ZeroBodyCovers DEF ReceiptInv, HoldsNone
<1>2. UnlocksInv
  BY DEF Init, Idle, UnlocksInv
<1>3. PaymentInv
  <2>1. bln \in [Secret -> Payments] /\ \A secret \in Secret : bln[secret].is = "idle"
    BY DEF Init, Payments
  <2>2. DOMAIN tasks = Slot /\ \A slot \in Slot : tasks[slot].pc = "idle"
    BY DEF Init, Idle
  <2>. QED
    BY <2>1, <2>2 DEF Init, PaymentInv, PaysBacked
<1>. QED
  BY <1>1, <1>2, <1>3 DEF AdaptorInv

-----------------------------------------------------------------------------
(* Steps that leave the receipt, the tasks or the payments alone.          *)

LEMMA ReceiptUntouched ==
    ASSUME ReceiptInv, IsRow(record'), record'.receipt = record.receipt,
           accepted' = accepted, squashes' = squashes
    PROVE  ReceiptInv'
  BY DEF ReceiptInv, HoldsNone, HoldsReceipt

LEMMA UnlocksUntouched ==
    ASSUME UnlocksInv, unlocks' = unlocks \/ unlocks' = Idle,
           HasReceipt(record) => HasReceipt(record')
    PROVE  UnlocksInv'
  BY DEF UnlocksInv, Idle

\* More cheques accepted back no less.
LEMMA BackedStays ==
    ASSUME NEW more, NEW cheques, cheques \subseteq more, NEW secret, NEW limit,
           Backed(cheques, secret, limit)
    PROVE  Backed(more, secret, limit)
  BY DEF Backed

\* Nothing is sent: a task ends, or goes on to something else.
LEMMA NothingSent ==
    ASSUME PaymentInv, rate' \in Rates, bln' = bln, accepted \subseteq accepted',
           DOMAIN tasks' = Slot,
           \A slot \in Slot : tasks'[slot] = tasks[slot] \/ tasks'[slot].pc # "send"
    PROVE  PaymentInv'
<1>1. \A slot \in Slot : PaysBacked(tasks'[slot], accepted')
  <2>1. ASSUME NEW slot \in Slot, tasks'[slot].pc = "send"
        PROVE  /\ tasks'[slot].secret \in Secret /\ tasks'[slot].limit \in Nat
               /\ Backed(accepted', tasks'[slot].secret, tasks'[slot].limit)
    <3>1. tasks'[slot] = tasks[slot]
      BY <2>1
    <3>2. /\ tasks[slot].secret \in Secret /\ tasks[slot].limit \in Nat
          /\ Backed(accepted, tasks[slot].secret, tasks[slot].limit)
      BY <2>1, <3>1 DEF PaymentInv, PaysBacked
    <3>. QED
      BY <3>1, <3>2, BackedStays
  <2>. QED
    BY <2>1 DEF PaysBacked
<1>2. \A secret \in Secret :
         bln'[secret].is \in {"inflight", "settled"} => Backed(accepted', secret, bln'[secret].limit)
  BY BackedStays DEF PaymentInv
<1>. QED
  BY <1>1, <1>2 DEF PaymentInv

-----------------------------------------------------------------------------
(* The steps that change the receipt.                                      *)

\* The squash is worth the unlocked cheques too, and covers them.
Proposes(squash, receipt) ==
    /\ squash.amount > receipt.squash.amount
    /\ squash.amount = receipt.squash.amount + ListTotal(Unlockeds(receipt))
    /\ Covered(squash) = Covered(receipt.squash) \cup {u.index : u \in Entries(Unlockeds(receipt))}

\* Of the squashes the consumer signed only the one held is accepted again.
LEMMA PostedIs ==
    ASSUME NEW signed, signed \subseteq Squashes, NEW squash \in Proposed \cup signed,
           HoldsReceipt(record.receipt, signed, accepted), TakesSquash(record.receipt, squash)
    PROVE  squash \in Squashes /\ (squash = record.receipt.squash \/ Proposes(squash, record.receipt))
<1>. DEFINE receipt == record.receipt
<1>1. receipt \in Receipts /\ HoldsBest(receipt, signed) /\ receipt.squash \in Squashes
  BY ReceiptIs DEF HoldsReceipt
<1>2. CASE squash \in signed
  <2>1. ListTotal(Bodies(SquashedBy(receipt, squash))) \in Nat
    <3>. DEFINE list == receipt.cheques
                chosen == {n \in DOMAIN list : IsIndexSquashed(squash, list[n].body.index)}
    <3>1. SquashedBy(receipt, squash) = EntriesAt(list, chosen)
      BY DEF SquashedBy, Where, The
    <3>2. list \in Seq(Carried)
      BY <1>1, ReceiptIs
    <3>. HIDE DEF chosen, list
    <3>. QED
      BY <3>1, <3>2, SelectedBodies, ListTotalPositive
  <2>2. squash \in Squashes /\ squash.amount \in Nat /\ receipt.squash.amount \in Nat
    BY <1>1, <1>2 DEF Squashes
  <2>3. squash.amount >= receipt.squash.amount + ListTotal(Bodies(SquashedBy(receipt, squash)))
    BY DEF TakesSquash
  <2>4. ~(squash.amount < receipt.squash.amount)
    BY <2>1, <2>2, <2>3
  <2>. QED
    BY <1>1, <1>2, <2>2, <2>4 DEF HoldsBest
<1>3. CASE squash \in Proposed
  <2>1. Proposal(receipt).ok /\ squash = Proposal(receipt).body
    BY <1>3 DEF Proposed
  <2>2. Unlockeds(receipt) \in Seq(AnyBody) /\ HaveIndexes(AnyBody)
    BY <1>1, BodiesAre, BodiesHaveIndexes
  <2>3. /\ squash \in Squashes
        /\ squash.amount = receipt.squash.amount + ListTotal(Unlockeds(receipt))
        /\ Covered(squash) = Covered(receipt.squash) \cup {u.index : u \in Entries(Unlockeds(receipt))}
        /\ Unlockeds(receipt) = <<>> => squash = receipt.squash
    BY <1>1, <2>1, <2>2, ProposalCoversUnlocked
  <2>4. ListTotal(Unlockeds(receipt)) \in Nat
        /\ (Unlockeds(receipt) # <<>> => ListTotal(Unlockeds(receipt)) >= 1)
    BY <2>2, ListTotalPositive
  <2>5. receipt.squash.amount \in Nat
    BY <1>1 DEF Squashes
  <2>. QED
    BY <2>3, <2>4, <2>5 DEF Proposes
<1>. QED
  BY <1>2, <1>3

LEMMA PostSquashKeeps ==
    ASSUME AdaptorInv, NEW squash \in Proposed \cup squashes, PostSquash(squash)
    PROVE  ReceiptInv' /\ HasReceipt(record')
<1>. DEFINE receipt == record.receipt
<1>1. /\ IsRow(record) /\ squashes \subseteq Squashes /\ accepted \subseteq Locked
      /\ \/ HoldsNone(receipt, squashes, accepted)
         \/ HoldsReceipt(receipt, squashes, accepted)
  BY DEF AdaptorInv, ReceiptInv
<1>2. /\ squashes' = squashes \cup {squash} /\ accepted' = accepted
      /\ record' = SquashInto(record, squash) /\ AcceptsSquash(record, squash)
  BY DEF PostSquash
<1>3. CASE HoldsNone(receipt, squashes, accepted)
  <2>1. receipt = None /\ Proposed = {} /\ squash = ZeroBody /\ squashes' = {ZeroBody} /\ accepted = {}
    BY <1>2, <1>3 DEF HoldsNone, Proposed, HasReceipt
  <2>2. record' = [retainer |-> record.retainer, receipt |-> NewReceipt(squash)]
    BY <1>1, <1>2, <2>1 DEF SquashInto, IsRow
  <2>3. NewReceipt(squash) = [squash |-> ZeroBody, cheques |-> <<>>]
    BY <2>1 DEF NewReceipt
  <2>4. NewReceipt(squash) \in Receipts /\ NewReceipt(squash).squash = ZeroBody
    BY <2>3, ZeroBodyCovers DEF Receipts
  <2>5. HoldsReceipt(NewReceipt(squash), squashes', accepted')
    BY <1>2, <2>1, <2>4 DEF HoldsReceipt, HoldsBest, KeepsAll
  <2>6. IsRow(record') /\ record'.receipt = NewReceipt(squash)
    BY <2>2 DEF IsRow
  <2>. QED
    BY <1>2, <2>1, <2>4, <2>5, <2>6, ZeroBodyCovers, ReceiptIs DEF ReceiptInv, HasReceipt
<1>4. CASE HoldsReceipt(receipt, squashes, accepted)
  <2>. DEFINE now == WithSquash(receipt, squash)
  <2>1. /\ receipt \in Receipts /\ HoldsBest(receipt, squashes) /\ KeepsAll(receipt, accepted)
        /\ receipt # None /\ receipt.squash \in Squashes
    BY <1>4, ReceiptIs DEF HoldsReceipt
  <2>2. record' = [retainer |-> record.retainer, receipt |-> now] /\ TakesSquash(receipt, squash)
    BY <1>1, <1>2, <2>1 DEF SquashInto, AcceptsSquash, HasReceipt, IsRow
  <2>3. /\ squash \in Squashes
        /\ \/ squash = receipt.squash
           \/ /\ squash.amount > receipt.squash.amount
              /\ Covered(receipt.squash) \subseteq Covered(squash)
    BY <1>1, <1>4, <2>2, PostedIs DEF Proposes
  <2>4. /\ now \in Receipts /\ now.squash = squash
        /\ \A locked \in Locked : Keeps(receipt, locked) => Keeps(now, locked)
    BY <2>1, <2>3, SquashKeeps
  <2>5. HoldsBest(now, squashes')
    <3>1. \A q \in squashes : q = receipt.squash \/ q.amount < receipt.squash.amount
      BY <2>1 DEF HoldsBest
    <3>2. \A q \in squashes : q.amount \in Nat
      BY <1>1 DEF Squashes
    <3>3. squash.amount \in Nat /\ receipt.squash.amount \in Nat
      BY <2>1, <2>3 DEF Squashes
    <3>4. \A q \in squashes' : q = squash \/ q.amount < squash.amount
      BY <1>2, <2>3, <3>1, <3>2, <3>3
    <3>. QED
      BY <1>2, <2>4, <3>4 DEF HoldsBest
  <2>6. KeepsAll(now, accepted')
    BY <1>1, <1>2, <2>1, <2>4 DEF KeepsAll
  <2>7. IsRow(record') /\ record'.receipt = now
    BY <2>2 DEF IsRow
  <2>8. HoldsReceipt(record'.receipt, squashes', accepted')
    BY <2>4, <2>5, <2>6, <2>7 DEF HoldsReceipt
  <2>. QED
    BY <1>1, <1>2, <2>3, <2>4, <2>7, <2>8, ReceiptIs DEF ReceiptInv, HasReceipt
<1>. QED
  BY <1>1, <1>3, <1>4

LEMMA PayRecordKeeps ==
    ASSUME AdaptorInv, NEW slot \in Slot, NEW locked \in Locked, PayRecord(slot, locked)
    PROVE  ReceiptInv' /\ HasReceipt(record')
<1>. DEFINE receipt == record.receipt
            now == WithLocked(receipt, locked)
<1>1. /\ IsRow(record) /\ squashes \subseteq Squashes /\ accepted \subseteq Locked
      /\ \/ HoldsNone(receipt, squashes, accepted)
         \/ HoldsReceipt(receipt, squashes, accepted)
  BY DEF AdaptorInv, ReceiptInv
<1>2. /\ squashes' = squashes /\ accepted' = accepted \cup {locked}
      /\ record' = ChequeInto(record, locked) /\ receipt # None
  BY DEF PayRecord, AcceptsCheque, MayCommit, HasReceipt
<1>3. receipt \in Receipts /\ HoldsBest(receipt, squashes) /\ KeepsAll(receipt, accepted)
  BY <1>1, <1>2 DEF HoldsNone, HoldsReceipt
<1>4. record' = [retainer |-> record.retainer, receipt |-> now]
  BY <1>1, <1>2 DEF ChequeInto, IsRow
<1>5. /\ now \in Receipts /\ now.squash = receipt.squash /\ Keeps(now, locked)
      /\ \A other : Keeps(receipt, other) => Keeps(now, other)
  BY <1>3, LockedIsKept
<1>6. KeepsAll(now, accepted') /\ HoldsBest(now, squashes')
  BY <1>2, <1>3, <1>5 DEF KeepsAll, HoldsBest
<1>. HIDE DEF now
<1>7. IsRow(record') /\ record'.receipt = now
  BY <1>4 DEF IsRow
<1>8. HoldsReceipt(record'.receipt, squashes', accepted')
  BY <1>5, <1>6, <1>7 DEF HoldsReceipt
<1>. QED
  BY <1>1, <1>2, <1>5, <1>7, <1>8, ReceiptIs DEF ReceiptInv, HasReceipt

\* The secrets that are applied only unlock cheques.
UnlocksInto(new, old) ==
    /\ old.receipt \in Receipts /\ new.receipt \in Receipts
    /\ new = [retainer |-> old.retainer, receipt |-> new.receipt]
    /\ Reveals(new.receipt, old.receipt)

LEMMA UnlocksReveal ==
    ASSUME AdaptorInv, UnlocksApply
    PROVE  record' = record \/ UnlocksInto(record', record)
<1>. DEFINE receipt == record.receipt
            chosen == {n \in DOMAIN unlocks.locks : bln[unlocks.locks[n][2]].is = "settled"}
            settled == EntriesAt(unlocks.locks, chosen)
            applied == SecretsInto(record, Revealed)
            now == applied.receipt
<1>1. /\ IsRow(record)
      /\ \/ HoldsNone(receipt, squashes, accepted)
         \/ HoldsReceipt(receipt, squashes, accepted)
      /\ unlocks.pc = "reveal" /\ unlocks.locks \in Seq(Latches) /\ HasReceipt(record)
  BY DEF AdaptorInv, ReceiptInv, UnlocksInv, UnlocksApply
<1>2. record' = IF Revealed # <<>> /\ applied.ok THEN [record EXCEPT !.receipt = now] ELSE record
  BY DEF UnlocksApply
<1>3. receipt \in Receipts
  BY <1>1 DEF HoldsNone, HoldsReceipt, HasReceipt
<1>4. Revealed \in Seq({l[2] : l \in Latches})
  <2>1. Where(unlocks.locks, LAMBDA l : bln[l[2]].is = "settled") = settled
    BY DEF Where, The
  <2>2. settled \in Seq(Latches)
    BY <1>1, EntriesAtSelects
  <2>. HIDE DEF settled
  <2>3. Revealed = [n \in DOMAIN settled |-> settled[n][2]]
    BY <2>1 DEF Revealed
  <2>4. Len(settled) \in Nat /\ DOMAIN settled = 1..Len(settled)
        /\ \A n \in 1..Len(settled) : settled[n] \in Latches
    BY <2>2, ListEntries
  <2>. QED
    BY <2>3, <2>4
<1>5. applied \in Openings(receipt)
  BY <1>3, <1>4, SecretsKeep
<1>. HIDE DEF applied
<1>6. now \in Receipts /\ Reveals(now, receipt)
  BY <1>5 DEF Openings
<1>. HIDE DEF now
<1>7. ASSUME record' = [record EXCEPT !.receipt = now] PROVE UnlocksInto(record', record)
  <2>1. record' = [retainer |-> record.retainer, receipt |-> now]
    BY <1>1, <1>7 DEF IsRow
  <2>2. record'.receipt = now
    BY <2>1
  <2>. QED
    BY <1>3, <1>6, <2>1, <2>2 DEF UnlocksInto
<1>. QED
  BY <1>2, <1>7

LEMMA UnlocksApplyKeeps ==
    ASSUME AdaptorInv, UnlocksApply
    PROVE  ReceiptInv'
<1>. DEFINE receipt == record.receipt
            now == record'.receipt
<1>1. /\ IsRow(record) /\ squashes \subseteq Squashes /\ accepted \subseteq Locked
      /\ \/ HoldsNone(receipt, squashes, accepted)
         \/ HoldsReceipt(receipt, squashes, accepted)
      /\ HasReceipt(record)
  BY DEF AdaptorInv, ReceiptInv, UnlocksInv, UnlocksApply
<1>2. squashes' = squashes /\ accepted' = accepted
  BY DEF UnlocksApply, history
<1>3. CASE record' = record
  BY <1>1, <1>2, <1>3, ReceiptUntouched DEF AdaptorInv
<1>4. CASE UnlocksInto(record', record)
  <2>1. receipt \in Receipts /\ HoldsBest(receipt, squashes) /\ KeepsAll(receipt, accepted)
    BY <1>1 DEF HoldsNone, HoldsReceipt, HasReceipt
  <2>2. now \in Receipts /\ Reveals(now, receipt) /\ IsRow(record')
    BY <1>4 DEF UnlocksInto, IsRow
  <2>. HIDE DEF now
  <2>3. KeepsAll(now, accepted') /\ HoldsBest(now, squashes')
    <3>1. \A locked \in accepted : Keeps(now, locked)
      BY <2>1, <2>2, RevealsKeep DEF KeepsAll
    <3>2. now.squash = receipt.squash
      BY <2>2 DEF Reveals
    <3>. QED
      BY <1>2, <2>1, <3>1, <3>2 DEF KeepsAll, HoldsBest
  <2>4. HoldsReceipt(record'.receipt, squashes', accepted')
    BY <2>2, <2>3 DEF HoldsReceipt, now
  <2>. QED
    BY <1>1, <1>2, <2>2, <2>4 DEF ReceiptInv
<1>. QED
  BY <1>3, <1>4, UnlocksReveal

-----------------------------------------------------------------------------
(* The steps that pay.                                                     *)

\* What the node may spend, at the rate the limit was taken at, is no more than
\* the cheque is worth beyond the fee: both conversions round down.
LEMMA FeeLimitIsBacked ==
    ASSUME NEW locked \in Locked, Aligned(locked), rate \in Rates
    PROVE  /\ FeeLimit(locked) \in Nat
           /\ locked.amount >= FeePlaceholder + Lovelace(Msat + FeeLimit(locked), rate)
<1>. DEFINE n == rate[1] d == rate[2]
            x == locked.amount - FeePlaceholder
            y == x % Word
            limit == FeeLimit(locked)
<1>1. n \in Nat \ {0} /\ d \in Nat \ {0} /\ x \in Nat /\ locked.amount \in Nat
  BY LockedIs
<1>2. y \in Nat /\ y <= x
  BY <1>1
<1>3. limit = Monus((y * d) \div n, Msat) /\ limit >= 1
  BY DEF Aligned, FeeLimit, Millisat
<1>4. Lovelace(Msat + limit, rate) = ((Msat + limit) * n) \div d
  BY DEF Lovelace
<1>. HIDE DEF n, d, y, x, limit
<1>5. (y * d) \div n \in Nat
  BY <1>1, <1>2
<1>6. limit \in Nat /\ Msat + limit = (y * d) \div n
  BY <1>3, <1>5 DEF Monus
<1>7. (((y * d) \div n) * n) \div d <= y /\ (((y * d) \div n) * n) \div d \in Nat
  BY <1>1, <1>2
<1>8. FeePlaceholder + Lovelace(Msat + limit, rate) <= FeePlaceholder + x
  BY <1>1, <1>2, <1>4, <1>6, <1>7
<1>9. FeePlaceholder + x = locked.amount
  BY <1>1 DEF x
<1>. QED
  BY <1>1, <1>4, <1>6, <1>7, <1>8, <1>9 DEF limit

LEMMA PayRecordBacks ==
    ASSUME PaymentInv, NEW slot \in Slot, NEW locked \in Locked, PayRecord(slot, locked)
    PROVE  PaymentInv'
<1>. DEFINE task == [pc |-> "send", secret |-> locked.latch[2], limit |-> FeeLimit(locked)]
<1>1. /\ accepted' = accepted \cup {locked} /\ tasks' = [tasks EXCEPT ![slot] = task]
      /\ bln' = bln /\ rate' = rate /\ Aligned(locked)
  BY DEF PayRecord, world
<1>2. PaysBacked(task, accepted')
  <2>1. FeeLimit(locked) \in Nat
        /\ locked.amount >= FeePlaceholder + Lovelace(Msat + FeeLimit(locked), rate)
    BY <1>1, FeeLimitIsBacked DEF PaymentInv
  <2>2. PICK s \in Secret : locked.latch = Sha2(s)
    BY LockedIs
  <2>3. locked.latch[2] = s
    BY <2>2 DEF Sha2
  <2>4. Backed(accepted', s, FeeLimit(locked))
    BY <1>1, <2>1, <2>2 DEF Backed, PaymentInv
  <2>. QED
    BY <2>1, <2>3, <2>4 DEF PaysBacked
<1>. HIDE DEF task
<1>3. ASSUME NEW other \in Slot PROVE PaysBacked(tasks'[other], accepted')
  <2>1. CASE other = slot
    BY <1>1, <1>2, <2>1 DEF PaymentInv
  <2>2. CASE other # slot
    <3>1. tasks'[other] = tasks[other] /\ PaysBacked(tasks[other], accepted) /\ accepted \subseteq accepted'
      BY <1>1, <2>2 DEF PaymentInv
    <3>. QED
      BY <3>1, BackedStays DEF PaysBacked
  <2>. QED
    BY <2>1, <2>2
<1>4. accepted \subseteq accepted'
  BY <1>1
<1>5. \A secret \in Secret :
         bln'[secret].is \in {"inflight", "settled"} => Backed(accepted', secret, bln'[secret].limit)
  BY <1>1, <1>4, BackedStays DEF PaymentInv
<1>6. DOMAIN tasks' = Slot /\ rate' \in Rates /\ bln' \in [Secret -> Payments]
  BY <1>1 DEF PaymentInv
<1>. QED
  BY <1>3, <1>5, <1>6 DEF PaymentInv

LEMMA PaySendBacks ==
    ASSUME PaymentInv, NEW slot \in Slot, PaySend(slot)
    PROVE  PaymentInv'
<1>. DEFINE task == tasks[slot]
            paid == [is |-> "inflight", limit |-> task.limit]
<1>1. /\ task.pc = "send" /\ accepted' = accepted /\ rate' = rate
      /\ tasks' = [tasks EXCEPT ![slot] = [pc |-> "sent", secret |-> task.secret]]
      /\ bln' = bln \/ bln' = [bln EXCEPT ![task.secret] = paid]
  BY DEF PaySend, history
<1>2. task.secret \in Secret /\ task.limit \in Nat /\ Backed(accepted, task.secret, task.limit)
  BY <1>1 DEF PaymentInv, PaysBacked
<1>3. /\ DOMAIN tasks' = Slot
      /\ \A other \in Slot : tasks'[other] = tasks[other] \/ tasks'[other].pc # "send"
  BY <1>1 DEF PaymentInv
<1>. HIDE DEF task
<1>4. \A other \in Slot : PaysBacked(tasks'[other], accepted')
  BY <1>1, <1>3 DEF PaymentInv, PaysBacked
<1>5. bln' \in [Secret -> Payments]
  <2>1. paid \in Payments
    BY <1>2 DEF Payments
  <2>. QED
    BY <1>1, <1>2, <2>1 DEF PaymentInv
<1>6. ASSUME NEW secret \in Secret, bln'[secret].is \in {"inflight", "settled"}
      PROVE  Backed(accepted', secret, bln'[secret].limit)
  <2>1. bln'[secret] = bln[secret] \/ (secret = task.secret /\ bln'[secret] = paid)
    BY <1>1, <1>2 DEF PaymentInv
  <2>2. paid.limit = task.limit
    OBVIOUS
  <2>. HIDE DEF paid
  <2>. QED
    BY <1>1, <1>2, <1>6, <2>1, <2>2 DEF PaymentInv
<1>7. rate' \in Rates
  BY <1>1 DEF PaymentInv
<1>. QED
  BY <1>3, <1>4, <1>5, <1>6, <1>7 DEF PaymentInv

LEMMA BlnAnswersBacks ==
    ASSUME PaymentInv, NEW secret \in Secret, BlnAnswers(secret)
    PROVE  PaymentInv'
<1>1. PICK outcome \in {"settled", "failed"} : bln' = [bln EXCEPT ![secret].is = outcome]
  BY DEF BlnAnswers
<1>2. /\ bln[secret].is = "inflight" /\ tasks' = tasks /\ accepted' = accepted /\ rate' = rate
  BY DEF BlnAnswers, tasking, history
<1>3. /\ bln[secret] \in Payments
      /\ bln[secret] = [is |-> bln[secret].is, limit |-> bln[secret].limit]
      /\ bln[secret].limit \in Nat
  BY DEF PaymentInv, Payments
<1>. DEFINE paid == [is |-> outcome, limit |-> bln[secret].limit]
<1>4. bln' = [bln EXCEPT ![secret] = paid] /\ paid \in Payments
  <2>1. bln' = [bln EXCEPT ![secret] = [bln[secret] EXCEPT !.is = outcome]]
    BY <1>1
  <2>2. [bln[secret] EXCEPT !.is = outcome] = paid
    BY <1>3
  <2>3. paid \in Payments
    BY <1>3 DEF Payments
  <2>. QED
    BY <2>1, <2>2, <2>3
<1>5. paid.limit = bln[secret].limit
  OBVIOUS
<1>. HIDE DEF paid
<1>6. ASSUME NEW s \in Secret, bln'[s].is \in {"inflight", "settled"}
      PROVE  Backed(accepted', s, bln'[s].limit)
  <2>1. bln'[s] = bln[s] \/ (s = secret /\ bln'[s] = paid)
    BY <1>4 DEF PaymentInv
  <2>. QED
    BY <1>2, <1>5, <1>6, <2>1 DEF PaymentInv
<1>. QED
  BY <1>2, <1>4, <1>6 DEF PaymentInv

-----------------------------------------------------------------------------
(* Every step keeps the invariant.                                         *)

\* The row stays what it is, but for its retainer.
KeepsReceipt ==
    /\ IsRow(record') /\ record'.receipt = record.receipt
    /\ accepted' = accepted /\ squashes' = squashes

LEMMA QuietStep ==
    ASSUME AdaptorInv, KeepsReceipt, unlocks' = unlocks \/ unlocks' = Idle,
           rate' \in Rates, bln' = bln, DOMAIN tasks' = Slot,
           \A slot \in Slot : tasks'[slot] = tasks[slot] \/ tasks'[slot].pc # "send"
    PROVE  AdaptorInv'
<1>1. ReceiptInv'
  BY ReceiptUntouched DEF AdaptorInv, KeepsReceipt
<1>2. UnlocksInv'
  BY UnlocksUntouched DEF AdaptorInv, KeepsReceipt, HasReceipt
<1>3. PaymentInv'
  BY NothingSent DEF AdaptorInv, KeepsReceipt
<1>. QED
  BY <1>1, <1>2, <1>3 DEF AdaptorInv

\* What a step of one slot leaves, when it sends nothing.
LEMMA SlotStep ==
    ASSUME AdaptorInv, NEW slot \in Slot, NEW task, task.pc # "send",
           tasks' = [tasks EXCEPT ![slot] = task],
           UNCHANGED <<unlocks, admin, world, database, history>>
    PROVE  AdaptorInv'
<1>1. /\ DOMAIN tasks' = Slot
      /\ \A other \in Slot : tasks'[other] = tasks[other] \/ tasks'[other].pc # "send"
  BY DEF AdaptorInv, PaymentInv
<1>2. unlocks' = unlocks /\ rate' = rate /\ bln' = bln /\ rate' \in Rates
  BY DEF world, AdaptorInv, PaymentInv
<1>3. KeepsReceipt
  BY DEF database, history, KeepsReceipt, AdaptorInv, ReceiptInv
<1>. QED
  BY <1>1, <1>2, <1>3, QuietStep

\* A step that touches neither the slots nor what the invariant is about.
LEMMA IdleStep ==
    ASSUME AdaptorInv, tasks' = tasks, bln' = bln, rate' \in Rates,
           unlocks' = unlocks \/ unlocks' = Idle, KeepsReceipt
    PROVE  AdaptorInv'
<1>1. /\ DOMAIN tasks' = Slot
      /\ \A slot \in Slot : tasks'[slot] = tasks[slot] \/ tasks'[slot].pc # "send"
  BY DEF AdaptorInv, PaymentInv
<1>. QED
  BY <1>1, QuietStep

LEMMA AdaptorStep == AdaptorInv /\ [Next]_vars => AdaptorInv'
<1>. SUFFICES ASSUME AdaptorInv, [Next]_vars PROVE AdaptorInv'
  OBVIOUS
<1>i. ReceiptInv /\ UnlocksInv /\ PaymentInv /\ IsRow(record) /\ rate \in Rates
  BY DEF AdaptorInv, ReceiptInv, PaymentInv
<1>1. ASSUME NEW squash \in Proposed \cup squashes, PostSquash(squash) PROVE AdaptorInv'
  <2>1. ReceiptInv' /\ HasReceipt(record')
    BY <1>1, PostSquashKeeps
  <2>2. /\ tasks' = tasks /\ unlocks' = unlocks /\ bln' = bln /\ rate' = rate /\ accepted' = accepted
        /\ DOMAIN tasks' = Slot
    BY <1>1, <1>i DEF PostSquash, tasking, world, PaymentInv
  <2>3. UnlocksInv' /\ PaymentInv'
    BY <1>i, <2>1, <2>2, UnlocksUntouched, NothingSent
  <2>. QED
    BY <2>1, <2>3 DEF AdaptorInv
<1>2. ASSUME NEW slot \in Slot, QuoteBegin(slot) PROVE AdaptorInv'
  <2>. DEFINE task == [pc |-> "quote", snap |-> record]
  <2>1. task.pc # "send"
    OBVIOUS
  <2>. HIDE DEF task
  <2>2. tasks' = [tasks EXCEPT ![slot] = task] /\ UNCHANGED <<unlocks, admin, world, database, history>>
    BY <1>2 DEF QuoteBegin, task
  <2>. QED
    BY <2>1, <2>2, SlotStep
<1>3. ASSUME NEW slot \in Slot, QuoteEnd(slot) \/ PayEnd(slot) \/ HangUp(slot) PROVE AdaptorInv'
  <2>1. tasks' = [tasks EXCEPT ![slot] = Idle] /\ UNCHANGED <<unlocks, admin, world, database, history>>
    BY <1>3 DEF QuoteEnd, PayEnd, HangUp
  <2>2. Idle.pc # "send"
    BY DEF Idle
  <2>. QED
    BY <2>1, <2>2, SlotStep
<1>4. ASSUME NEW slot \in Slot, NEW locked \in Locked, PayRecord(slot, locked) PROVE AdaptorInv'
  <2>1. ReceiptInv' /\ HasReceipt(record') /\ PaymentInv'
    BY <1>4, <1>i, PayRecordKeeps, PayRecordBacks
  <2>2. unlocks' = unlocks
    BY <1>4 DEF PayRecord
  <2>3. UnlocksInv'
    BY <1>i, <2>1, <2>2, UnlocksUntouched
  <2>. QED
    BY <2>1, <2>3 DEF AdaptorInv
<1>5. ASSUME NEW slot \in Slot, PaySend(slot) PROVE AdaptorInv'
  <2>1. PaymentInv'
    BY <1>5, <1>i, PaySendBacks
  <2>2. unlocks' = unlocks /\ KeepsReceipt
    BY <1>5, <1>i DEF PaySend, database, history, KeepsReceipt
  <2>3. ReceiptInv' /\ UnlocksInv'
    BY <1>i, <2>2, ReceiptUntouched, UnlocksUntouched DEF KeepsReceipt, HasReceipt
  <2>. QED
    BY <2>1, <2>3 DEF AdaptorInv
<1>6. ASSUME UnlocksBegin PROVE AdaptorInv'
  <2>1. /\ HasReceipt(record) /\ tasks' = tasks /\ bln' = bln /\ rate' = rate /\ KeepsReceipt
        /\ unlocks' = [pc |-> "reveal", locks |-> LocksOf(record.receipt)]
    BY <1>6, <1>i DEF UnlocksBegin, world, database, history, KeepsReceipt
  <2>2. record.receipt \in Receipts
    BY <1>i, <2>1 DEF ReceiptInv, HoldsNone, HoldsReceipt, HasReceipt
  <2>3. LocksOf(record.receipt) \in Seq(Latches)
    <3>. DEFINE list == Lockeds(record.receipt)
    <3>1. list \in Seq(AnyBody)
      BY <2>2, BodiesAre
    <3>. HIDE DEF list
    <3>2. /\ Len(list) \in Nat /\ DOMAIN list = 1..Len(list)
          /\ \A n \in 1..Len(list) : list[n] \in AnyBody
      BY <3>1, ListEntries
    <3>3. \A n \in 1..Len(list) : list[n].latch \in Latches
      BY <3>2 DEF AnyBody, Latches
    <3>4. LocksOf(record.receipt) = [n \in 1..Len(list) |-> list[n].latch]
      BY <3>2 DEF LocksOf, list
    <3>. QED
      BY <3>2, <3>3, <3>4
  <2>4. UnlocksInv'
    BY <2>1, <2>3 DEF UnlocksInv, KeepsReceipt, HasReceipt
  <2>5. ReceiptInv' /\ PaymentInv'
    <3>1. DOMAIN tasks' = Slot
      BY <1>i, <2>1 DEF PaymentInv
    <3>. QED
      BY <1>i, <2>1, <3>1, ReceiptUntouched, NothingSent DEF KeepsReceipt
  <2>. QED
    BY <2>4, <2>5 DEF AdaptorInv
<1>7. ASSUME UnlocksApply PROVE AdaptorInv'
  <2>1. ReceiptInv'
    BY <1>7, UnlocksApplyKeeps
  <2>2. unlocks' = Idle /\ tasks' = tasks /\ bln' = bln /\ rate' = rate /\ accepted' = accepted
    BY <1>7 DEF UnlocksApply, world, history
  <2>3. UnlocksInv'
    BY <2>2 DEF UnlocksInv, Idle
  <2>4. PaymentInv'
    <3>1. DOMAIN tasks' = Slot
      BY <1>i, <2>2 DEF PaymentInv
    <3>. QED
      BY <1>i, <2>2, <3>1, NothingSent
  <2>. QED
    BY <2>1, <2>3, <2>4 DEF AdaptorInv
<1>8. ASSUME Admin PROVE AdaptorInv'
  <2>1. CASE SyncApply
    <3>. DEFINE seen == admin.snap.channel
                candidates == IF seen.stage = "Opened" THEN <<RetainerOf(seen)>> ELSE <<>>
    <3>1. record' = WithRetainer(record, candidates)
      BY <2>1 DEF SyncApply
    <3>. HIDE DEF candidates
    <3>2. PICK retainer : record' = [record EXCEPT !.retainer = retainer]
      BY <3>1 DEF WithRetainer
    <3>3. IsRow(record') /\ record'.receipt = record.receipt
      BY <1>i, <3>2 DEF IsRow
    <3>4. /\ tasks' = tasks /\ unlocks' = unlocks /\ bln' = bln /\ rate' = rate
          /\ accepted' = accepted /\ squashes' = squashes
      BY <2>1 DEF SyncApply, world, history
    <3>5. KeepsReceipt
      BY <3>3, <3>4 DEF KeepsReceipt
    <3>. QED
      BY <1>i, <3>4, <3>5, IdleStep
  <2>2. CASE SyncSnapshot \/ ClaimSnapshot \/ ClaimRead \/ ClaimSubmit
    <3>1. tasks' = tasks /\ unlocks' = unlocks /\ bln' = bln /\ rate' = rate /\ KeepsReceipt
      BY <2>2, <1>i DEF SyncSnapshot, ClaimSnapshot, ClaimRead, ClaimSubmit, world, database,
                        history, KeepsReceipt
    <3>. QED
      BY <1>i, <3>1, IdleStep
  <2>. QED
    BY <1>8, <2>1, <2>2 DEF Admin
<1>9. ASSUME Include \/ TopUp \/ Close \/ Elapse PROVE AdaptorInv'
  <2>1. tasks' = tasks /\ unlocks' = unlocks /\ bln' = bln /\ rate' = rate /\ KeepsReceipt
    BY <1>9, <1>i DEF Include, TopUp, Close, ConsumerTx, Elapse, tasking, database, history, KeepsReceipt
  <2>. QED
    BY <1>i, <2>1, IdleStep
<1>10. ASSUME NEW secret \in Secret, BlnAnswers(secret) PROVE AdaptorInv'
  <2>1. PaymentInv'
    BY <1>10, <1>i, BlnAnswersBacks
  <2>2. unlocks' = unlocks /\ KeepsReceipt
    BY <1>10, <1>i DEF BlnAnswers, tasking, database, history, KeepsReceipt
  <2>3. ReceiptInv' /\ UnlocksInv'
    BY <1>i, <2>2, ReceiptUntouched, UnlocksUntouched DEF KeepsReceipt, HasReceipt
  <2>. QED
    BY <2>1, <2>3 DEF AdaptorInv
<1>11. ASSUME FxUpdate PROVE AdaptorInv'
  <2>1. tasks' = tasks /\ unlocks' = unlocks /\ bln' = bln /\ rate' \in Rates /\ KeepsReceipt
    BY <1>11, <1>i DEF FxUpdate, tasking, database, history, KeepsReceipt
  <2>. QED
    BY <2>1, IdleStep
<1>12. ASSUME Crash PROVE AdaptorInv'
  <2>1. /\ tasks' = [slot \in Slot |-> Idle] /\ unlocks' = Idle /\ bln' = bln /\ rate' = rate
        /\ KeepsReceipt
    BY <1>12, <1>i DEF Crash, world, database, KeepsReceipt
  <2>2. DOMAIN tasks' = Slot /\ \A slot \in Slot : tasks'[slot].pc # "send"
    BY <2>1 DEF Idle
  <2>. QED
    BY <1>i, <2>1, <2>2, QuietStep
<1>13. ASSUME CallFails PROVE AdaptorInv'
  <2>1. /\ unlocks' = unlocks \/ unlocks' = Idle
        /\ tasks' = tasks /\ bln' = bln /\ rate' = rate /\ KeepsReceipt
    BY <1>13, <1>i DEF CallFails, world, database, KeepsReceipt
  <2>. QED
    BY <1>i, <2>1, IdleStep
<1>14. ASSUME UNCHANGED vars PROVE AdaptorInv'
  <2>1. tasks' = tasks /\ unlocks' = unlocks /\ bln' = bln /\ rate' = rate /\ KeepsReceipt
    BY <1>14, <1>i DEF vars, KeepsReceipt
  <2>. QED
    BY <1>i, <2>1, IdleStep
<1>. QED
  BY <1>1, <1>2, <1>3, <1>4, <1>5, <1>6, <1>7, <1>8, <1>9, <1>10, <1>11, <1>12, <1>13, <1>14
  DEF Next

LEMMA AdaptorAlways == Spec => []AdaptorInv
  BY AdaptorInitially, AdaptorStep, PTL DEF Spec

-----------------------------------------------------------------------------
(* What it implies.                                                        *)

\* A cheque the server accepted is in the receipt until a squash pays for it,
\* whatever squashes are posted again or late, secrets are applied, calls fail
\* and crashes come between: the consumer signs no squash that is worth more
\* and covers less.
THEOREM ChequesAreKeptAlways == Spec => []ChequesAreKept
<1>1. AdaptorInv => ChequesAreKept
  <2>. SUFFICES ASSUME AdaptorInv, NEW locked \in accepted
                PROVE  InReceipt(locked) \/ IsIndexSquashed(Receipt.squash, locked.index)
    BY DEF ChequesAreKept
  <2>1. HoldsReceipt(record.receipt, squashes, accepted)
    BY DEF AdaptorInv, ReceiptInv, HoldsNone
  <2>2. Keeps(record.receipt, locked)
    BY <2>1 DEF HoldsReceipt, KeepsAll
  <2>. QED
    BY <2>2 DEF Keeps, AsSigned, InReceipt, Receipt
<1>. QED
  BY <1>1, AdaptorAlways, PTL

\* The lightning node is asked to pay only for an accepted cheque of the same
\* lock, and never more than the cheque is worth at a rate the feed reported,
\* however requests, hang-ups, new rates and crashes interleave.
THEOREM PaymentsAreBackedAlways == Spec => []PaymentsAreBacked
<1>1. AdaptorInv /\ ChequesAreKept => PaymentsAreBacked
  BY DEF AdaptorInv, PaymentInv, Backed, ChequesAreKept, PaymentsAreBacked
<1>. QED
  BY <1>1, AdaptorAlways, ChequesAreKeptAlways, PTL

-----------------------------------------------------------------------------
(* What the ledger and the server know of the accepted cheques.            *)

\* The cheques of a receipt are among those accepted, and so is every index a
\* channel lists as used.
CarriedOf(cheques) == {c \in Carried : AsSigned(c) \in cheques}
Uses(cheques) == {UsedOf(locked) : locked \in cheques}

IsBook(c, cheques) == c.amount \in Nat /\ c.subbed \in Nat /\ c.useds \in Seq(Uses(cheques))

IsOpened(c, cheques) ==
    c.stage = "Opened" /\ c = OpenedWith(c.amount, c.subbed, c.useds) /\ IsBook(c, cheques)
IsClosed(c, cheques) ==
    /\ c.stage = "Closed" /\ c = ClosedWith(c.amount, c.subbed, c.useds, c.elapseAt)
    /\ IsBook(c, cheques)
IsResponded(c) ==
    /\ c.stage = "Responded"
    /\ c = [stage |-> c.stage, amount |-> c.amount, pendsAmount |-> c.pendsAmount, pends |-> c.pends]

IsUTxO(c, cheques) == IsOpened(c, cheques) \/ IsClosed(c, cheques) \/ IsResponded(c)
IsChannel(c, cheques) == c = Spent \/ IsUTxO(c, cheques)

\* A transaction of the provider continues the channel.
IsClaim(stepping, cheques) ==
    \/ stepping.step = "Sub" /\ IsOpened(stepping.out, cheques)
    \/ stepping.step \in {"Respond", "Unlock"} /\ IsResponded(stepping.out)

ChainInv ==
    /\ IsChannel(chain.channel, accepted)
    /\ \A tx \in mempool : IsClaim(tx.stepping, accepted)

Holds(receipt, cheques) == receipt \in Receipts /\ receipt.cheques \in Seq(CarriedOf(cheques))

AdminInv ==
    /\ admin.pc \in {"sync", "claim"} => IsChannel(admin.snap.channel, accepted)
    /\ admin.pc = "build" => IsUTxO(admin.snap.channel, accepted) /\ Holds(admin.receipt, accepted)

\* No accepted cheque has an index past the receipt.
Reaches(receipt, cheques) == \A locked \in cheques : locked.index <= MaxIndex(receipt)

RecordInv ==
    /\ record.retainer # None => IsBook(record.retainer, accepted)
    /\ HasReceipt(record) => Holds(record.receipt, accepted) /\ Reaches(record.receipt, accepted)

-----------------------------------------------------------------------------
(* What the channel covers.                                                *)

Worth(c) == c.amount + c.subbed
Covers(c, amount) == c.stage \in {"Opened", "Closed"} => amount <= Worth(c)

\* While it is open or closed a channel is worth no less than any snapshot of
\* it, and covers what the server committed to on one.
FundsInv ==
    /\ record.retainer # None => Covers(chain.channel, Worth(record.retainer))
    /\ admin.pc = "sync" /\ admin.snap.channel.stage = "Opened" =>
          Covers(chain.channel, Worth(admin.snap.channel))
    /\ HasReceipt(record) => Covers(chain.channel, Committed(record.receipt))

LedgerInv == ChainInv /\ AdminInv /\ RecordInv /\ FundsInv

-----------------------------------------------------------------------------
(* The parts of the invariant grow with the accepted cheques.              *)

LEMMA UsesAre ==
    ASSUME NEW cheques \in SUBSET Locked
    PROVE  /\ HaveAmounts(Uses(cheques))
           /\ \A u \in Uses(cheques) : \E locked \in cheques : u.index = locked.index
<1>1. ASSUME NEW locked \in cheques
      PROVE  UsedOf(locked).amount \in Nat /\ UsedOf(locked).index = locked.index
  BY LockedIs DEF UsedOf
<1>. QED
  BY <1>1 DEF Uses, HaveAmounts

LEMMA SignedAmount ==
    ASSUME NEW c \in Carried
    PROVE  AsSigned(c).amount = c.body.amount
<1>1. CASE c.unlocked
  <2>. DEFINE b == c.body
  <2>1. b \in UnlockedBody
    BY <1>1, CarriedIs
  <2>. HIDE DEF b
  <2>2. LockedForm(b).amount = b.amount
    BY <2>1 DEF LockedForm, UnlockedBody
  <2>. QED
    BY <1>1, <2>2 DEF AsSigned, b
<1>2. CASE ~c.unlocked
  BY <1>2 DEF AsSigned
<1>. QED
  BY <1>1, <1>2

LEMMA CarriedHave ==
    ASSUME NEW cheques, NEW c \in CarriedOf(cheques)
    PROVE  c \in Carried /\ UsedOf(c.body) \in Uses(cheques)
<1>1. c \in Carried /\ AsSigned(c) \in cheques
  BY DEF CarriedOf
<1>2. AsSigned(c).index = c.body.index /\ AsSigned(c).amount = c.body.amount
  BY <1>1, CarriedIs, SignedAmount
<1>3. UsedOf(AsSigned(c)) = UsedOf(c.body)
  BY <1>2 DEF UsedOf
<1>. QED
  BY <1>1, <1>3 DEF Uses

LEMMA BookGrows ==
    ASSUME NEW cheques, NEW more, cheques \subseteq more, NEW c, IsBook(c, cheques)
    PROVE  IsBook(c, more)
<1>1. Uses(cheques) \subseteq Uses(more)
  BY DEF Uses
<1>. QED
  BY <1>1, SeqGrows DEF IsBook

LEMMA ChannelGrows ==
    ASSUME NEW cheques, NEW more, cheques \subseteq more, NEW c
    PROVE  /\ IsUTxO(c, cheques) => IsUTxO(c, more)
           /\ IsChannel(c, cheques) => IsChannel(c, more)
  BY BookGrows DEF IsChannel, IsUTxO, IsOpened, IsClosed

LEMMA ClaimGrows ==
    ASSUME NEW cheques, NEW more, cheques \subseteq more, NEW stepping, IsClaim(stepping, cheques)
    PROVE  IsClaim(stepping, more)
  BY BookGrows DEF IsClaim, IsOpened

LEMMA HoldsGrows ==
    ASSUME NEW cheques, NEW more, cheques \subseteq more, NEW receipt, Holds(receipt, cheques)
    PROVE  Holds(receipt, more)
<1>1. CarriedOf(cheques) \subseteq CarriedOf(more)
  BY DEF CarriedOf
<1>. QED
  BY <1>1, SeqGrows DEF Holds

-----------------------------------------------------------------------------
(* What the provider builds.                                               *)

\* The useds of a Sub are accepted cheques, as those of the channel were.
LEMMA PrepSubUses ==
    ASSUME NEW cheques, NEW receipt, Holds(receipt, cheques), NEW useds \in Seq(Uses(cheques))
    PROVE  PrepSub(receipt, useds, Upper).useds \in Seq(Uses(cheques))
<1>. DEFINE list == receipt.cheques
            open == EntriesAt(list, {n \in DOMAIN list : list[n].unlocked})
            bodies == Bodies(open)
            T == {c.body : c \in CarriedOf(cheques)}
<1>1. Where(list, LAMBDA c : c.unlocked) = open
  BY DEF Where, The
<1>2. open \in Seq(CarriedOf(cheques))
  BY EntriesAtSelects DEF Holds
<1>. HIDE DEF open
<1>3. Unlockeds(receipt) = bodies
  BY <1>1 DEF Unlockeds
<1>4. bodies \in Seq(T)
  <2>1. /\ Len(open) \in Nat /\ DOMAIN open = 1..Len(open)
        /\ \A k \in 1..Len(open) : open[k].body \in T
    BY <1>2, ListEntries
  <2>2. bodies = [k \in 1..Len(open) |-> open[k].body]
    BY <2>1 DEF Bodies
  <2>. QED
    BY <2>1, <2>2
<1>. HIDE DEF bodies
<1>5. \A b \in T : UsedOf(b) \in Uses(cheques)
  BY CarriedHave
<1>. QED
  BY <1>3, <1>4, <1>5, PrepSubStays

\* A Sub takes no more than the channel has, and leaves its worth.
LEMMA SubIsClaim ==
    ASSUME NEW cheques \in SUBSET Locked, NEW c, IsOpened(c, cheques),
           NEW receipt, Holds(receipt, cheques)
    PROVE  \/ SubStepping(c, receipt, Upper) = NoStepping
           \/ IsClaim(SubStepping(c, receipt, Upper), cheques)
<1>. DEFINE prep == PrepSub(receipt, c.useds, Upper)
            owed == receipt.squash.amount + ListTotal(prep.useds)
            gain == GainOf(c, owed)
            out == OpenedWith(c.amount - gain, c.subbed + gain, prep.useds)
<1>1. c.amount \in Nat /\ c.subbed \in Nat /\ c.useds \in Seq(Uses(cheques))
  BY DEF IsOpened, IsBook
<1>2. SubStepping(c, receipt, Upper) = SubOf(c, receipt, prep)
  BY DEF SubStepping, The
<1>3. prep.useds \in Seq(Uses(cheques))
  BY <1>1, PrepSubUses
<1>. HIDE DEF prep
<1>4. owed \in Nat
  <2>1. ListTotal(prep.useds) \in Nat
    BY <1>3, UsesAre, ListTotalTail
  <2>2. receipt.squash.amount \in Nat
    BY ReceiptIs DEF Holds, Squashes
  <2>. QED
    BY <2>1, <2>2
<1>5. SubOf(c, receipt, prep) = NoStepping
      \/ /\ SubOf(c, receipt, prep).step = "Sub"
         /\ SubOf(c, receipt, prep).out = out
  BY DEF SubOf
<1>. HIDE DEF owed
<1>6. gain \in Nat /\ gain <= c.amount
  BY <1>1, <1>4 DEF GainOf, Least, Monus
<1>. HIDE DEF gain
<1>7. /\ out.stage = "Opened" /\ out.amount = c.amount - gain /\ out.subbed = c.subbed + gain
      /\ out.useds = prep.useds /\ out = OpenedWith(out.amount, out.subbed, out.useds)
  BY DEF OpenedWith
<1>8. c.amount - gain \in Nat /\ c.subbed + gain \in Nat
  BY <1>1, <1>6
<1>. HIDE DEF out
<1>9. IsOpened(out, cheques)
  BY <1>3, <1>7, <1>8 DEF IsOpened, IsBook
<1>. QED
  BY <1>2, <1>5, <1>9 DEF IsClaim

LEMMA AnsweredIs ==
    ASSUME NEW amount, NEW pends
    PROVE  IsResponded(RespondedWith(amount, pends))
  BY DEF RespondedWith, IsResponded

LEMMA AnySubIsClaim ==
    ASSUME NEW cheques \in SUBSET Locked, NEW c, IsUTxO(c, cheques),
           NEW receipt, Holds(receipt, cheques)
    PROVE  AnySub(c, receipt, Upper) = NoStepping \/ IsClaim(AnySub(c, receipt, Upper), cheques)
<1>1. CASE IsOpened(c, cheques)
  <2>1. AnySub(c, receipt, Upper) = SubStepping(c, receipt, Upper)
    BY <1>1 DEF AnySub, IsOpened
  <2>. QED
    BY <1>1, <2>1, SubIsClaim
<1>2. CASE IsClosed(c, cheques)
  <2>1. AnySub(c, receipt, Upper) = RespondStepping(c, receipt, Upper)
    BY <1>2 DEF AnySub, IsClosed
  <2>2. \E amount, pends : /\ RespondStepping(c, receipt, Upper).out = RespondedWith(amount, pends)
                           /\ RespondStepping(c, receipt, Upper).step = "Respond"
    BY DEF RespondStepping
  <2>. QED
    BY <2>1, <2>2, AnsweredIs DEF IsClaim
<1>3. CASE IsResponded(c)
  <2>1. AnySub(c, receipt, Upper) = UnlockStepping(c, receipt, Upper)
    BY <1>3 DEF AnySub, IsResponded
  <2>2. \E amount, pends : /\ UnlockStepping(c, receipt, Upper).out = RespondedWith(amount, pends)
                           /\ UnlockStepping(c, receipt, Upper).step = "Unlock"
    BY DEF UnlockStepping
  <2>. QED
    BY <2>1, <2>2, AnsweredIs DEF IsClaim
<1>. QED
  BY <1>1, <1>2, <1>3 DEF IsUTxO

-----------------------------------------------------------------------------
(* What the validator lets a channel become.                               *)

\* A claim that verifies leaves the channel's worth, or answers it.
LEMMA ClaimKeepsWorth ==
    ASSUME NEW cheques, NEW c, IsChannel(c, cheques), NEW stepping, IsClaim(stepping, cheques),
           NEW signed, Verifies(signed, 0, Upper, c, stepping)
    PROVE  /\ IsUTxO(stepping.out, cheques)
           /\ \A amount : Covers(c, amount) => Covers(stepping.out, amount)
<1>1. CASE stepping.step = "Sub" /\ IsOpened(stepping.out, cheques)
  <2>. DEFINE in == Buffered(c) out == Buffered(stepping.out)
  <2>1. /\ stepping.out = OpenedWith(stepping.out.amount, stepping.out.subbed, stepping.out.useds)
        /\ stepping.out.amount \in Nat /\ stepping.out.subbed \in Nat
    BY <1>1 DEF IsOpened, IsBook
  <2>2. in.stage = "Opened" /\ out.subbed - in.subbed = in.amount - out.amount
    <3>1. StepHolds(signed, 0, Upper, in, out, stepping)
      BY <1>1 DEF Verifies, Ends
    <3>. HIDE DEF in, out
    <3>2. SubStep(signed, Upper, in, out, stepping.squash, stepping.unlockeds)
      BY <1>1, <3>1 DEF StepHolds
    <3>. QED
      BY <3>2 DEF SubStep, RecordsWithdrawal
  <2>3. IsOpened(c, cheques)
    <3>1. CASE c = Spent
      BY <2>2, <3>1 DEF Buffered, Spent
    <3>2. CASE IsClosed(c, cheques)
      BY <2>2, <3>2 DEF IsClosed, ClosedWith, Buffered
    <3>3. CASE IsResponded(c)
      BY <2>2, <3>3 DEF IsResponded, Buffered
    <3>. QED
      BY <3>1, <3>2, <3>3 DEF IsChannel, IsUTxO
  <2>4. /\ c = OpenedWith(c.amount, c.subbed, c.useds) /\ c.amount \in Nat /\ c.subbed \in Nat
        /\ c.stage = "Opened"
    BY <2>3 DEF IsOpened, IsBook
  <2>5. in.amount = c.amount + MinAdaBuffer /\ in.subbed = c.subbed
    BY <2>4 DEF Buffered, OpenedWith
  <2>6. out.amount = stepping.out.amount + MinAdaBuffer /\ out.subbed = stepping.out.subbed
    BY <2>1 DEF Buffered, OpenedWith
  <2>. HIDE DEF in, out
  <2>7. Worth(stepping.out) = Worth(c)
    BY <2>1, <2>2, <2>4, <2>5, <2>6, MinAdaBufferAssumption DEF Worth
  <2>. QED
    BY <1>1, <2>4, <2>7 DEF Covers, IsUTxO
<1>2. CASE stepping.step \in {"Respond", "Unlock"} /\ IsResponded(stepping.out)
  BY <1>2 DEF IsUTxO, Covers, IsResponded
<1>. QED
  BY <1>1, <1>2 DEF IsClaim

\* The consumer adds to its channel, or closes it: it is worth no less.
LEMMA AddKeepsWorth ==
    ASSUME NEW cheques, NEW c, IsChannel(c, cheques), c.stage = "Opened"
    PROVE  /\ IsUTxO(AddStepping(c, 1).out, cheques)
           /\ \A amount \in Nat : Covers(c, amount) => Covers(AddStepping(c, 1).out, amount)
<1>1. IsOpened(c, cheques)
  BY DEF IsChannel, IsUTxO, Spent, IsClosed, IsResponded
<1>2. /\ c = OpenedWith(c.amount, c.subbed, c.useds)
      /\ c.amount \in Nat /\ c.subbed \in Nat /\ c.useds \in Seq(Uses(cheques))
  BY <1>1 DEF IsOpened, IsBook
<1>. DEFINE out == OpenedWith(c.amount + 1, c.subbed, c.useds)
<1>3. AddStepping(c, 1).out = [c EXCEPT !.amount = @ + 1]
  BY DEF AddStepping
<1>4. [c EXCEPT !.amount = @ + 1] = out
  BY <1>2 DEF OpenedWith
<1>5. /\ out.stage = "Opened" /\ out.amount = c.amount + 1 /\ out.subbed = c.subbed
      /\ out.useds = c.useds /\ out = OpenedWith(out.amount, out.subbed, out.useds)
  BY DEF OpenedWith
<1>. HIDE DEF out
<1>6. IsOpened(out, cheques)
  BY <1>2, <1>5 DEF IsOpened, IsBook
<1>7. \A amount \in Nat : Covers(c, amount) => Covers(out, amount)
  BY <1>2, <1>5 DEF Covers, Worth
<1>. QED
  BY <1>3, <1>4, <1>6, <1>7 DEF IsUTxO

LEMMA CloseKeepsWorth ==
    ASSUME NEW cheques, NEW c, IsChannel(c, cheques), c.stage = "Opened"
    PROVE  /\ IsUTxO(CloseStepping(c, Upper).out, cheques)
           /\ \A amount : Covers(c, amount) => Covers(CloseStepping(c, Upper).out, amount)
<1>1. IsOpened(c, cheques)
  BY DEF IsChannel, IsUTxO, Spent, IsClosed, IsResponded
<1>. DEFINE elapseAt == Upper + ClosePeriod
            out == ClosedWith(c.amount, c.subbed, c.useds, elapseAt)
<1>2. CloseStepping(c, Upper).out = out
  BY DEF CloseStepping
<1>. HIDE DEF elapseAt
<1>3. /\ out.stage = "Closed" /\ out.amount = c.amount /\ out.subbed = c.subbed
      /\ out.useds = c.useds /\ out = ClosedWith(out.amount, out.subbed, out.useds, out.elapseAt)
  BY DEF ClosedWith
<1>. HIDE DEF out
<1>4. IsClosed(out, cheques)
  BY <1>1, <1>3 DEF IsOpened, IsClosed, IsBook
<1>. QED
  BY <1>2, <1>3, <1>4 DEF IsUTxO, Covers, Worth

-----------------------------------------------------------------------------
(* The greatest index and the commitments of a receipt.                    *)

LEMMA MaxIndexIs ==
    ASSUME NEW receipt \in Receipts
    PROVE  LET n == Len(receipt.cheques)
           IN  /\ receipt.squash.index \in Nat /\ MaxIndex(receipt) \in Nat
               /\ n = 0 => MaxIndex(receipt) = receipt.squash.index
               /\ n # 0 => /\ n \in DOMAIN receipt.cheques
                           /\ receipt.cheques[n].body.index \in Nat
                           /\ MaxIndex(receipt) =
                                 Greatest(receipt.squash.index, receipt.cheques[n].body.index)
<1>. DEFINE list == receipt.cheques
            n == Len(list)
            i == receipt.squash.index
<1>1. i \in Nat /\ n \in Nat /\ DOMAIN list = 1..n /\ \A k \in DOMAIN list : list[k] \in Carried
  BY ReceiptIs DEF Squashes
<1>2. MaxIndex(receipt) = Greatest(i, IF list = <<>> THEN 0 ELSE list[n].body.index)
  BY DEF MaxIndex, Last
<1>3. list = <<>> <=> n = 0
  BY ReceiptIs
<1>. HIDE DEF list, n, i
<1>4. CASE n = 0
  BY <1>1, <1>2, <1>3, <1>4 DEF Greatest, list, n, i
<1>5. CASE n # 0
  <2>1. n \in DOMAIN list /\ list[n].body.index \in Nat
    BY <1>1, <1>5, CarriedIs
  <2>2. MaxIndex(receipt) = Greatest(i, list[n].body.index)
    BY <1>2, <1>3, <1>5
  <2>3. MaxIndex(receipt) \in Nat
    BY <1>1, <2>1, <2>2 DEF Greatest
  <2>. QED
    BY <1>1, <1>5, <2>1, <2>2, <2>3 DEF list, n, i
<1>. QED
  BY <1>4, <1>5

\* What a list of cheques is worth, as a sum over its places.
LEMMA CarriedTotal ==
    ASSUME NEW list \in Seq(Carried), NEW w, \A n \in DOMAIN list : w[n] = list[n].body.amount
    PROVE  /\ IsFiniteSet(DOMAIN list) /\ \A n \in DOMAIN list : w[n] \in Nat
           /\ ListTotal(Bodies(list)) = SumOver(DOMAIN list, w)
<1>. DEFINE bodies == Bodies(list)
<1>1. /\ DOMAIN list = 1..Len(list) /\ Len(list) \in Nat
      /\ \A n \in DOMAIN list : list[n] \in Carried
  BY ListEntries
<1>2. DOMAIN bodies = DOMAIN list /\ \A n \in DOMAIN list : bodies[n] = list[n].body
  BY DEF Bodies
<1>. HIDE DEF bodies
<1>3. \A n \in DOMAIN bodies : w[n] = bodies[n].amount
  BY <1>2
<1>4. ListTotal(bodies) = SumOver(DOMAIN bodies, w)
  BY <1>3, ListTotalIsSum
<1>5. IsFiniteSet(DOMAIN list)
  BY <1>1, FS_Interval
<1>6. \A n \in DOMAIN list : w[n] \in Nat
  BY <1>1, CarriedIs
<1>. QED
  BY <1>2, <1>4, <1>5, <1>6 DEF bodies

LEMMA CommittedIs ==
    ASSUME NEW receipt \in Receipts
    PROVE  /\ Committed(receipt) \in Nat /\ receipt.squash.amount \in Nat
           /\ Committed(receipt) = receipt.squash.amount + ListTotal(Bodies(receipt.cheques))
           /\ ListTotal(Bodies(receipt.cheques)) \in Nat
<1>1. ListTotal(Bodies(receipt.cheques)) \in Nat
  BY ReceiptIs, BodiesOfCarried, ListTotalPositive
<1>2. receipt.squash.amount \in Nat
  BY ReceiptIs DEF Squashes
<1>. QED
  BY <1>1, <1>2 DEF Committed

\* A squash that is worth no more than what it squashes commits to no more.
LEMMA SquashCommits ==
    ASSUME NEW receipt \in Receipts, NEW squash \in Squashes,
           squash.amount <= receipt.squash.amount + ListTotal(Bodies(SquashedBy(receipt, squash)))
    PROVE  Committed(WithSquash(receipt, squash)) <= Committed(receipt)
<1>. DEFINE list == receipt.cheques
            all == DOMAIN list
            gone == {n \in all : IsIndexSquashed(squash, list[n].body.index)}
            left == {n \in all : ~IsIndexSquashed(squash, list[n].body.index)}
            w == [n \in all |-> list[n].body.amount]
<1>1. list \in Seq(Carried)
  BY ReceiptIs
<1>2. SquashedBy(receipt, squash) = EntriesAt(list, gone)
  BY DEF SquashedBy, Where, The
<1>3. WithSquash(receipt, squash) = [squash |-> squash, cheques |-> EntriesAt(list, left)]
  <2>. DEFINE out == EntriesAt(list, left)
  <2>1. Where(list, LAMBDA c : ~IsIndexSquashed(squash, c.body.index)) = out
    BY DEF Where, The
  <2>. HIDE DEF out
  <2>2. WithSquash(receipt, squash) = [squash |-> squash, cheques |-> out]
    BY <2>1 DEF WithSquash
  <2>. QED
    BY <2>2 DEF out
<1>4. gone \in SUBSET all /\ left \in SUBSET all /\ gone \cap left = {} /\ gone \cup left = all
  OBVIOUS
<1>5. \A n \in all : w[n] = list[n].body.amount
  OBVIOUS
<1>. HIDE DEF gone, left, w
<1>6. /\ ListTotal(Bodies(EntriesAt(list, gone))) = SumOver(gone, w)
      /\ ListTotal(Bodies(EntriesAt(list, left))) = SumOver(left, w)
  BY <1>1, <1>4, <1>5, CarriedIs, SelectedTotal
<1>7. /\ IsFiniteSet(all) /\ \A n \in all : w[n] \in Nat
      /\ ListTotal(Bodies(list)) = SumOver(all, w)
  BY <1>1, <1>5, CarriedTotal
<1>. HIDE DEF list
<1>8. SumOver(gone \cup left, w) = SumOver(gone, w) + SumOver(left, w)
  BY <1>4, <1>7, SumOfBoth
<1>9. SumOver(gone, w) \in Nat /\ SumOver(left, w) \in Nat
  BY <1>4, <1>7, SumType
<1>10. Committed(receipt) = receipt.squash.amount + (SumOver(gone, w) + SumOver(left, w))
  BY <1>4, <1>7, <1>8 DEF Committed, list
<1>11. Committed(WithSquash(receipt, squash)) = squash.amount + SumOver(left, w)
  BY <1>3, <1>6 DEF Committed
<1>12. squash.amount <= receipt.squash.amount + SumOver(gone, w)
  BY <1>2, <1>6
<1>13. squash.amount \in Nat /\ receipt.squash.amount \in Nat
  BY CommittedIs DEF Squashes
<1>. QED
  BY <1>9, <1>10, <1>11, <1>12, <1>13

\* A squash that covers no less leaves no smaller index the greatest.
LEMMA SquashReaches ==
    ASSUME NEW receipt \in Receipts, NEW squash \in Squashes,
           Covered(receipt.squash) \subseteq Covered(squash)
    PROVE  MaxIndex(receipt) <= MaxIndex(WithSquash(receipt, squash))
<1>. DEFINE list == receipt.cheques
            n == Len(list)
            left == {k \in DOMAIN list : ~IsIndexSquashed(squash, list[k].body.index)}
            out == EntriesAt(list, left)
            new == WithSquash(receipt, squash)
<1>1. /\ new \in Receipts /\ new.squash = squash /\ new.cheques = out
  <2>1. Where(list, LAMBDA c : ~IsIndexSquashed(squash, c.body.index)) = out
    BY DEF Where, The
  <2>. HIDE DEF out
  <2>2. new = [squash |-> squash, cheques |-> out]
    BY <2>1 DEF WithSquash
  <2>. QED
    BY <2>2, SquashKeeps
<1>2. /\ list \in Seq(Carried) /\ n \in Nat /\ DOMAIN list = 1..n
      /\ \A k \in DOMAIN list : list[k].body.index \in Nat
  BY ReceiptIs, CarriedIs
<1>3. PICK places : IsSelection(out, list, left, n, places)
  BY <1>2, EntriesAtSelects DEF Selects
<1>. HIDE DEF new
<1>4. /\ squash.index \in Nat /\ MaxIndex(new) \in Nat /\ Len(out) \in Nat
      /\ Len(out) = 0 => MaxIndex(new) = squash.index
      /\ Len(out) # 0 => /\ out[Len(out)].body.index \in Nat
                         /\ MaxIndex(new) = Greatest(squash.index, out[Len(out)].body.index)
  BY <1>1, MaxIndexIs, ReceiptIs
<1>5. squash.index <= MaxIndex(new) /\ \A i \in Nat : IsIndexSquashed(squash, i) => i <= squash.index
  <2>. HIDE DEF list, left, out, n
  <2>1. squash.index <= MaxIndex(new)
    BY <1>4 DEF Greatest
  <2>2. \A i \in Nat : IsIndexSquashed(squash, i) => i <= squash.index
    BY <1>4 DEF IsIndexSquashed
  <2>. QED
    BY <2>1, <2>2
<1>6. receipt.squash.index <= squash.index /\ receipt.squash.index \in Nat
  <2>1. receipt.squash \in Squashes /\ receipt.squash.index \in Nat
    BY ReceiptIs DEF Squashes
  <2>2. receipt.squash.index \in Covered(receipt.squash)
    BY <2>1 DEF Covered, IsIndexSquashed
  <2>3. receipt.squash.index \in Covered(squash)
    BY <2>2
  <2>. QED
    BY <2>1, <2>3, <1>4, CoveredIs
<1>7. ASSUME n # 0 PROVE list[n].body.index <= MaxIndex(new)
  <2>1. n \in DOMAIN list /\ list[n].body.index \in Nat
    BY <1>2, <1>7
  <2>2. CASE n \notin left
    <3>1. IsIndexSquashed(squash, list[n].body.index)
      BY <2>1, <2>2
    <3>2. list[n].body.index <= squash.index
      BY <1>5, <2>1, <3>1
    <3>. HIDE DEF list, n
    <3>. QED
      BY <1>4, <1>5, <2>1, <3>2
  <2>3. CASE n \in left
    <3>. HIDE DEF out, left
    <3>1. PICK k \in 1..Len(out) : places[k] = n
      BY <1>2, <1>3, <1>7, <2>3 DEF IsSelection
    <3>2. k = Len(out)
      <4>1. ~(k < Len(out))
        <5>1. ASSUME k < Len(out) PROVE FALSE
          <6>1. Len(out) \in 1..Len(out)
            BY <1>4, <5>1
          <6>2. places[k] < places[Len(out)] /\ places[Len(out)] \in 1..n
            BY <1>3, <5>1, <6>1 DEF IsSelection
          <6>. QED
            BY <1>2, <3>1, <6>2
        <5>. QED
          BY <5>1
      <4>. QED
        BY <1>4, <4>1
    <3>3. out[Len(out)] = list[n] /\ Len(out) # 0
      BY <1>3, <1>4, <3>1, <3>2 DEF IsSelection
    <3>. HIDE DEF list, n
    <3>. QED
      BY <1>4, <3>3 DEF Greatest
  <2>. QED
    BY <2>2, <2>3
<1>8. /\ n = 0 => MaxIndex(receipt) = receipt.squash.index
      /\ n # 0 => /\ list[n].body.index \in Nat
                  /\ MaxIndex(receipt) = Greatest(receipt.squash.index, list[n].body.index)
  BY MaxIndexIs
<1>. HIDE DEF list, n
<1>. QED
  BY <1>4, <1>5, <1>6, <1>7, <1>8 DEF Greatest, new

LEMMA SquashHolds ==
    ASSUME NEW cheques, NEW receipt, Holds(receipt, cheques), NEW squash \in Squashes
    PROVE  WithSquash(receipt, squash).cheques \in Seq(CarriedOf(cheques))
<1>. DEFINE list == receipt.cheques
            left == {k \in DOMAIN list : ~IsIndexSquashed(squash, list[k].body.index)}
            out == EntriesAt(list, left)
<1>1. Where(list, LAMBDA c : ~IsIndexSquashed(squash, c.body.index)) = out
  BY DEF Where, The
<1>2. list \in Seq(CarriedOf(cheques))
  BY DEF Holds
<1>. HIDE DEF list, left
<1>3. out \in Seq(CarriedOf(cheques))
  BY <1>2, EntriesAtSelects
<1>. HIDE DEF out
<1>. QED
  BY <1>1, <1>3 DEF WithSquash, list

\* A cheque is appended with the next index.
LEMMA LockedCommits ==
    ASSUME NEW cheques, NEW receipt, Holds(receipt, cheques), NEW locked \in Locked
    PROVE  LET new == WithLocked(receipt, locked)
           IN  /\ new.cheques \in Seq(CarriedOf(cheques \cup {locked}))
               /\ Committed(new) = Committed(receipt) + locked.amount
               /\ MaxIndex(new) = Greatest(receipt.squash.index, locked.index)
<1>. DEFINE c == [body |-> locked, unlocked |-> FALSE]
            old == receipt.cheques
            all == Append(old, c)
            new == WithLocked(receipt, locked)
            n == Len(old) + 1
<1>1. receipt \in Receipts /\ old \in Seq(CarriedOf(cheques)) /\ old \in Seq(Carried)
  BY ReceiptIs DEF Holds
<1>2. new \in Receipts /\ new.squash = receipt.squash /\ new.cheques = all
  BY <1>1, LockedIsKept, ReceiptIs DEF WithLocked
<1>3. c \in CarriedOf(cheques \cup {locked}) /\ c.body = locked
  BY DEF CarriedOf, Carried, AsSigned
<1>4. old \in Seq(CarriedOf(cheques \cup {locked}))
  <2>1. CarriedOf(cheques) \subseteq CarriedOf(cheques \cup {locked})
    BY DEF CarriedOf
  <2>. QED
    BY <1>1, <2>1, SeqGrows
<1>. HIDE DEF c, old, new
<1>5. /\ all \in Seq(CarriedOf(cheques \cup {locked})) /\ Len(all) = n /\ Len(old) \in Nat
      /\ DOMAIN old = 1..Len(old) /\ DOMAIN all = 1..n /\ all[n] = c
      /\ \A k \in 1..Len(old) : all[k] = old[k]
  BY <1>3, <1>4
<1>6. all \in Seq(Carried)
  BY <1>2, ReceiptIs
<1>. HIDE DEF all
<1>7. MaxIndex(new) = Greatest(receipt.squash.index, locked.index)
  BY <1>2, <1>3, <1>5, MaxIndexIs
<1>8. ListTotal(Bodies(all)) = ListTotal(Bodies(old)) + locked.amount
  <2>. DEFINE w == [k \in 1..n |-> all[k].body.amount]
  <2>1. \A k \in DOMAIN all : w[k] = all[k].body.amount
    BY <1>5
  <2>2. \A k \in DOMAIN old : w[k] = old[k].body.amount
    BY <1>5
  <2>3. w[n] = locked.amount
    BY <1>3, <1>5
  <2>. HIDE DEF w
  <2>4. /\ IsFiniteSet(DOMAIN all) /\ \A k \in DOMAIN all : w[k] \in Nat
        /\ ListTotal(Bodies(all)) = SumOver(DOMAIN all, w)
    BY <1>6, <2>1, CarriedTotal
  <2>5. ListTotal(Bodies(old)) = SumOver(DOMAIN old, w) /\ IsFiniteSet(DOMAIN old)
        /\ \A k \in DOMAIN old : w[k] \in Nat
    BY <1>1, <2>2, CarriedTotal
  <2>6. DOMAIN all \in SUBSET DOMAIN all /\ n \in DOMAIN all /\ DOMAIN all \ {n} = DOMAIN old
    BY <1>5
  <2>7. SumOver(DOMAIN all, w) = w[n] + SumOver(DOMAIN all \ {n}, w)
    BY <2>4, <2>6, SumRemoves
  <2>8. SumOver(DOMAIN old, w) \in Nat /\ w[n] \in Nat
    <3>1. DOMAIN old \in SUBSET DOMAIN old
      OBVIOUS
    <3>2. SumOver(DOMAIN old, w) \in Nat
      BY <2>5, <3>1, SumType
    <3>. QED
      BY <2>4, <2>6, <3>2
  <2>9. SumOver(DOMAIN all, w) = SumOver(DOMAIN old, w) + w[n]
    BY <2>6, <2>7, <2>8
  <2>. QED
    BY <2>3, <2>4, <2>5, <2>9
<1>9. Committed(new) = Committed(receipt) + locked.amount
  <2>1. /\ Committed(receipt) = receipt.squash.amount + ListTotal(Bodies(old))
        /\ receipt.squash.amount \in Nat /\ ListTotal(Bodies(old)) \in Nat
    BY <1>1, CommittedIs DEF old
  <2>2. Committed(new) = receipt.squash.amount + (ListTotal(Bodies(old)) + locked.amount)
    BY <1>2, <1>8 DEF Committed
  <2>. QED
    BY <2>1, <2>2, LockedIs
<1>. QED
  BY <1>2, <1>5, <1>7, <1>9 DEF new

\* Secrets change neither what a receipt commits to nor its indexes.
LEMMA RevealsCommit ==
    ASSUME NEW cheques, NEW old, Holds(old, cheques), NEW new \in Receipts, Reveals(new, old)
    PROVE  /\ Holds(new, cheques) /\ Committed(new) = Committed(old)
           /\ MaxIndex(new) = MaxIndex(old)
<1>. DEFINE n == Len(old.cheques)
            w == [k \in DOMAIN old.cheques |-> old.cheques[k].body.amount]
<1>1. /\ old \in Receipts /\ old.cheques \in Seq(CarriedOf(cheques))
      /\ old.cheques \in Seq(Carried) /\ new.cheques \in Seq(Carried)
      /\ new.squash = old.squash /\ DOMAIN new.cheques = DOMAIN old.cheques
      /\ n \in Nat /\ Len(new.cheques) \in Nat
      /\ DOMAIN old.cheques = 1..n /\ DOMAIN new.cheques = 1..Len(new.cheques)
  BY ReceiptIs DEF Holds, Reveals
<1>2. Len(new.cheques) = n
  BY <1>1
<1>3. ASSUME NEW k \in DOMAIN old.cheques
      PROVE  /\ new.cheques[k] \in CarriedOf(cheques)
             /\ new.cheques[k].body.index = old.cheques[k].body.index
             /\ new.cheques[k].body.amount = old.cheques[k].body.amount
  <2>. DEFINE a == new.cheques[k] b == old.cheques[k]
  <2>1. a \in Carried /\ b \in Carried /\ AsSigned(a) = AsSigned(b)
    BY <1>1, ListEntries DEF Reveals
  <2>2. b \in CarriedOf(cheques)
    BY <1>1, ListEntries
  <2>. HIDE DEF a, b
  <2>3. a \in CarriedOf(cheques)
    BY <2>1, <2>2 DEF CarriedOf
  <2>4. a.body.index = b.body.index
    BY <2>1, CarriedIs
  <2>5. a.body.amount = b.body.amount
    BY <2>1, SignedAmount
  <2>. QED
    BY <2>3, <2>4, <2>5 DEF a, b
<1>4. new.cheques \in Seq(CarriedOf(cheques))
  <2>1. \A k \in DOMAIN new.cheques : new.cheques[k] \in CarriedOf(cheques)
    BY <1>1, <1>3
  <2>. QED
    BY <1>1, <2>1, SeqOver
<1>5. MaxIndex(new) = MaxIndex(old)
  BY <1>1, <1>2, <1>3, MaxIndexIs
<1>6. /\ \A k \in DOMAIN old.cheques : w[k] = old.cheques[k].body.amount
      /\ \A k \in DOMAIN new.cheques : w[k] = new.cheques[k].body.amount
  BY <1>1, <1>3
<1>. HIDE DEF w
<1>7. ListTotal(Bodies(new.cheques)) = ListTotal(Bodies(old.cheques))
  <2>1. ListTotal(Bodies(new.cheques)) = SumOver(DOMAIN new.cheques, w)
    BY <1>1, <1>6, CarriedTotal
  <2>2. ListTotal(Bodies(old.cheques)) = SumOver(DOMAIN old.cheques, w)
    BY <1>1, <1>6, CarriedTotal
  <2>. QED
    BY <1>1, <2>1, <2>2
<1>8. Committed(new) = Committed(old)
  BY <1>1, <1>7 DEF Committed
<1>. QED
  BY <1>4, <1>5, <1>8 DEF Holds

\* An accepted squash is worth no more than what it squashes: a proposal covers
\* every unlocked cheque.
LEMMA PostedIsWorth ==
    ASSUME NEW receipt \in Receipts, NEW squash \in Squashes,
           squash = receipt.squash \/ Proposes(squash, receipt)
    PROVE  squash.amount <= receipt.squash.amount + ListTotal(Bodies(SquashedBy(receipt, squash)))
<1>. DEFINE list == receipt.cheques
            all == DOMAIN list
            gone == {n \in all : IsIndexSquashed(squash, list[n].body.index)}
            open == {n \in all : list[n].unlocked}
            w == [n \in all |-> list[n].body.amount]
<1>1. list \in Seq(Carried) /\ \A n \in all : list[n] \in Carried
  BY ReceiptIs
<1>2. SquashedBy(receipt, squash) = EntriesAt(list, gone)
  BY DEF SquashedBy, Where, The
<1>3. Unlockeds(receipt) = Bodies(EntriesAt(list, open))
  <2>. DEFINE out == EntriesAt(list, open)
  <2>1. Where(list, LAMBDA c : c.unlocked) = out
    BY DEF Where, The
  <2>. HIDE DEF out
  <2>2. Unlockeds(receipt) = Bodies(out)
    BY <2>1 DEF Unlockeds
  <2>. QED
    BY <2>2 DEF out
<1>4. \A n \in all : w[n] = list[n].body.amount
  OBVIOUS
<1>5. gone \subseteq all /\ open \subseteq all
  OBVIOUS
<1>6. /\ receipt.squash.amount \in Nat /\ squash.amount \in Nat
      /\ IsFiniteSet(all) /\ \A n \in all : w[n] \in Nat
  <2>1. IsFiniteSet(all) /\ \A n \in all : w[n] \in Nat
    <3>. HIDE DEF w
    <3>. QED
      BY <1>1, <1>4, CarriedTotal
  <2>2. receipt.squash.amount \in Nat /\ squash.amount \in Nat
    BY CommittedIs DEF Squashes
  <2>. QED
    BY <2>1, <2>2
<1>7. ListTotal(Bodies(EntriesAt(list, gone))) = SumOver(gone, w)
  <2>. HIDE DEF gone, w, list
  <2>. QED
    BY <1>1, <1>4, <1>5, CarriedIs, SelectedTotal
<1>8. ListTotal(Bodies(EntriesAt(list, open))) = SumOver(open, w)
  <2>. HIDE DEF open, w, list
  <2>. QED
    BY <1>1, <1>4, <1>5, CarriedIs, SelectedTotal
<1>9. SumOver(gone, w) \in Nat
  <2>. HIDE DEF gone, w, list
  <2>. QED
    BY <1>5, <1>6, SumType
<1>10. CASE squash = receipt.squash
  <2>. HIDE DEF gone, w, list, all, open
  <2>. QED
    BY <1>2, <1>6, <1>7, <1>9, <1>10
<1>11. CASE Proposes(squash, receipt)
  <2>1. open \subseteq gone
    <3>1. ASSUME NEW n \in all, list[n].unlocked PROVE IsIndexSquashed(squash, list[n].body.index)
      <4>. DEFINE out == EntriesAt(list, open)
      <4>1. list[n] \in Entries(out)
        <5>1. Entries(out) = {list[k] : k \in open}
          <6>. HIDE DEF open, list
          <6>. QED
            BY <1>1, <1>5, EntriesAtAre
        <5>. QED
          BY <3>1, <5>1
      <4>. HIDE DEF out
      <4>2. list[n].body \in Entries(Bodies(out))
        BY <4>1 DEF Entries, Bodies
      <4>3. list[n].body.index \in Covered(squash)
        BY <1>3, <1>11, <4>2 DEF Proposes, out
      <4>. QED
        BY <4>3 DEF Covered
    <3>. QED
      BY <3>1
  <2>2. SumOver(open, w) <= SumOver(gone, w)
    <3>. HIDE DEF gone, w, list, open
    <3>1. IsFiniteSet(gone) /\ open \in SUBSET gone /\ \A n \in gone : w[n] \in Nat
      BY <1>5, <1>6, <2>1, FS_Subset
    <3>. QED
      BY <3>1, SumMonotone
  <2>3. SumOver(open, w) \in Nat
    <3>. HIDE DEF w, list, open
    <3>. QED
      BY <1>5, <1>6, SumType
  <2>4. squash.amount = receipt.squash.amount + SumOver(open, w)
    BY <1>3, <1>8, <1>11 DEF Proposes
  <2>. HIDE DEF gone, w, list, open
  <2>. QED
    BY <1>2, <1>6, <1>7, <1>9, <2>2, <2>3, <2>4
<1>. QED
  BY <1>10, <1>11

-----------------------------------------------------------------------------
(* The invariant holds at first, and what leaves most of it alone.         *)

LEMMA LedgerInitially == Init => LedgerInv
<1>. SUFFICES ASSUME Init PROVE LedgerInv
  OBVIOUS
<1>. DEFINE c == OpenedWith(Deposit, 0, <<>>)
<1>1. /\ chain.channel = c /\ mempool = {} /\ admin.pc = "idle" /\ accepted = {}
      /\ record.retainer = None /\ record.receipt = None
  BY DEF Init, Idle, NewRecord
<1>2. IsOpened(c, {})
  BY DepositAssumption DEF OpenedWith, IsOpened, IsBook
<1>. HIDE DEF c
<1>3. ChainInv
  BY <1>1, <1>2 DEF ChainInv, IsChannel, IsUTxO
<1>4. AdminInv /\ RecordInv /\ FundsInv
  BY <1>1 DEF AdminInv, RecordInv, FundsInv, HasReceipt
<1>. QED
  BY <1>3, <1>4 DEF LedgerInv

LEMMA WorthIs ==
    ASSUME NEW cheques, NEW c, IsChannel(c, cheques), c.stage \in {"Opened", "Closed"}
    PROVE  Worth(c) \in Nat
<1>1. IsOpened(c, cheques) \/ IsClosed(c, cheques)
  BY DEF IsChannel, IsUTxO, Spent, IsResponded
<1>. QED
  BY <1>1 DEF IsOpened, IsClosed, IsBook, Worth

LEMMA ChainStays ==
    ASSUME ChainInv, chain' = chain, mempool' = mempool, accepted \subseteq accepted'
    PROVE  ChainInv'
  BY ChannelGrows, ClaimGrows DEF ChainInv

LEMMA AdminStays ==
    ASSUME AdminInv, admin' = admin \/ admin'.pc \notin {"sync", "claim", "build"},
           accepted \subseteq accepted'
    PROVE  AdminInv'
<1>1. CASE admin'.pc \notin {"sync", "claim", "build"}
  BY <1>1 DEF AdminInv
<1>2. CASE admin' = admin
  BY <1>2, ChannelGrows, HoldsGrows DEF AdminInv
<1>. QED
  BY <1>1, <1>2

LEMMA LedgerIdles ==
    ASSUME LedgerInv, record' = record, accepted' = accepted, chain' = chain, mempool' = mempool,
           admin' = admin \/ admin'.pc \notin {"sync", "claim", "build"}
    PROVE  LedgerInv'
<1>1. ChainInv' /\ AdminInv'
  BY ChainStays, AdminStays DEF LedgerInv
<1>2. RecordInv'
  BY DEF LedgerInv, RecordInv
<1>3. FundsInv'
  BY DEF LedgerInv, FundsInv
<1>. QED
  BY <1>1, <1>2, <1>3 DEF LedgerInv

\* The receipt changes, and nothing else but the accepted cheques.
LEMMA ReceiptChanges ==
    ASSUME LedgerInv, chain' = chain, mempool' = mempool, admin' = admin,
           accepted \subseteq accepted', record'.retainer = record.retainer,
           HasReceipt(record') =>
              /\ Holds(record'.receipt, accepted') /\ Reaches(record'.receipt, accepted')
              /\ Covers(chain.channel, Committed(record'.receipt))
    PROVE  LedgerInv'
<1>1. ChainInv' /\ AdminInv'
  BY ChainStays, AdminStays DEF LedgerInv
<1>2. RecordInv'
  BY BookGrows DEF LedgerInv, RecordInv
<1>3. FundsInv'
  BY DEF LedgerInv, FundsInv
<1>. QED
  BY <1>1, <1>2, <1>3 DEF LedgerInv

\* The channel changes, and is worth no less.
LEMMA ChannelChanges ==
    ASSUME LedgerInv, mempool' \subseteq mempool, admin' = admin, record' = record,
           accepted' = accepted, IsChannel(chain'.channel, accepted),
           \A amount \in Nat : Covers(chain.channel, amount) => Covers(chain'.channel, amount)
    PROVE  LedgerInv'
<1>1. ChainInv'
  BY DEF LedgerInv, ChainInv
<1>2. AdminInv' /\ RecordInv'
  BY AdminStays DEF LedgerInv, RecordInv
<1>3. record.retainer # None => Worth(record.retainer) \in Nat
  BY DEF LedgerInv, RecordInv, IsBook, Worth
<1>4. HasReceipt(record) => Committed(record.receipt) \in Nat
  BY CommittedIs DEF LedgerInv, RecordInv, Holds
<1>5. ASSUME admin.pc = "sync", admin.snap.channel.stage = "Opened"
      PROVE  Worth(admin.snap.channel) \in Nat
  <2>1. IsChannel(admin.snap.channel, accepted)
    BY <1>5 DEF LedgerInv, AdminInv
  <2>2. IsOpened(admin.snap.channel, accepted)
    BY <1>5, <2>1 DEF IsChannel, IsUTxO, Spent, IsClosed, IsResponded
  <2>. QED
    BY <2>2 DEF IsOpened, IsBook, Worth
<1>6. FundsInv'
  BY <1>3, <1>4, <1>5 DEF LedgerInv, FundsInv
<1>. QED
  BY <1>1, <1>2, <1>6 DEF LedgerInv

-----------------------------------------------------------------------------
(* The steps that change the receipt.                                      *)

LEMMA PostSquashCommits ==
    ASSUME AdaptorInv, LedgerInv, NEW squash \in Proposed \cup squashes, PostSquash(squash)
    PROVE  LedgerInv'
<1>. DEFINE receipt == record.receipt
<1>1. /\ IsRow(record) /\ squashes \subseteq Squashes
      /\ \/ HoldsNone(receipt, squashes, accepted)
         \/ HoldsReceipt(receipt, squashes, accepted)
  BY DEF AdaptorInv, ReceiptInv
<1>2. /\ record' = SquashInto(record, squash) /\ AcceptsSquash(record, squash)
      /\ chain' = chain /\ mempool' = mempool /\ admin' = admin /\ accepted' = accepted
  BY DEF PostSquash, tasking, world
<1>3. CASE HoldsNone(receipt, squashes, accepted)
  <2>1. receipt = None /\ squash = ZeroBody /\ accepted = {}
    BY <1>3 DEF HoldsNone, Proposed, HasReceipt
  <2>. DEFINE new == [squash |-> ZeroBody, cheques |-> <<>>]
  <2>2. record' = [retainer |-> record.retainer, receipt |-> new]
    BY <1>1, <1>2, <2>1 DEF SquashInto, IsRow, NewReceipt
  <2>3. new \in Receipts /\ new.cheques \in Seq(CarriedOf({})) /\ new.squash = ZeroBody /\ new.cheques = <<>>
    BY ZeroBodyCovers DEF Receipts
  <2>. HIDE DEF new
  <2>4. record'.retainer = record.retainer /\ record'.receipt = new
    BY <2>2
  <2>5. Committed(new) = 0
    <3>1. Bodies(<<>>) = <<>> /\ <<>> \in Seq(AnyBody) /\ HaveAmounts(AnyBody)
      BY BodiesHaveIndexes DEF Bodies
    <3>2. ListTotal(Bodies(<<>>)) = 0
      BY <3>1, ListTotalTail
    <3>. QED
      BY <2>3, <3>2, ZeroBodyCovers DEF Committed
  <2>6. Holds(new, accepted') /\ Reaches(new, accepted')
    BY <1>2, <2>1, <2>3 DEF Holds, Reaches
  <2>7. Covers(chain.channel, 0)
    BY DEF LedgerInv, ChainInv, IsChannel, IsUTxO, IsOpened, IsClosed, IsBook, IsResponded, Spent,
           Covers, Worth
  <2>. QED
    BY <1>2, <2>4, <2>5, <2>6, <2>7, ReceiptChanges
<1>4. CASE HoldsReceipt(receipt, squashes, accepted)
  <2>. DEFINE now == WithSquash(receipt, squash)
  <2>1. receipt \in Receipts /\ receipt # None /\ HasReceipt(record)
    BY <1>4, ReceiptIs DEF HoldsReceipt, HasReceipt
  <2>2. record' = [retainer |-> record.retainer, receipt |-> now] /\ TakesSquash(receipt, squash)
    BY <1>1, <1>2, <2>1 DEF SquashInto, AcceptsSquash, IsRow
  <2>3. squash \in Squashes /\ (squash = receipt.squash \/ Proposes(squash, receipt))
    BY <1>1, <1>4, <2>2, PostedIs
  <2>4. now \in Receipts /\ Covered(receipt.squash) \subseteq Covered(squash)
    <3>1. Covered(receipt.squash) \subseteq Covered(squash)
      BY <2>3 DEF Proposes
    <3>. QED
      BY <2>1, <2>3, <3>1, SquashKeeps
  <2>5. MaxIndex(receipt) <= MaxIndex(now) /\ MaxIndex(receipt) \in Nat /\ MaxIndex(now) \in Nat
    BY <2>1, <2>3, <2>4, SquashReaches, MaxIndexIs
  <2>6. Committed(now) <= Committed(receipt) /\ Committed(now) \in Nat /\ Committed(receipt) \in Nat
    BY <2>1, <2>3, <2>4, PostedIsWorth, SquashCommits, CommittedIs
  <2>7. Holds(receipt, accepted) /\ Reaches(receipt, accepted) /\ Covers(chain.channel, Committed(receipt))
    BY <2>1 DEF LedgerInv, RecordInv, FundsInv
  <2>8. now.cheques \in Seq(CarriedOf(accepted))
    BY <2>3, <2>7, SquashHolds
  <2>. HIDE DEF now
  <2>9. record'.retainer = record.retainer /\ record'.receipt = now
    BY <2>2
  <2>10. Holds(now, accepted')
    BY <1>2, <2>4, <2>8 DEF Holds
  <2>11. Reaches(now, accepted')
    <3>1. \A locked \in accepted : locked.index \in Nat /\ locked.index <= MaxIndex(receipt)
      BY <2>7, LockedIs DEF Reaches, AdaptorInv, ReceiptInv
    <3>2. \A locked \in accepted : locked.index <= MaxIndex(now)
      BY <2>5, <3>1
    <3>. QED
      BY <1>2, <3>2 DEF Reaches
  <2>12. Covers(chain.channel, Committed(now))
    <3>1. chain.channel.stage \in {"Opened", "Closed"} => Worth(chain.channel) \in Nat
      BY WorthIs DEF LedgerInv, ChainInv
    <3>. QED
      BY <2>6, <2>7, <3>1 DEF Covers
  <2>. QED
    BY <1>2, <2>9, <2>10, <2>11, <2>12, ReceiptChanges
<1>. QED
  BY <1>1, <1>3, <1>4

LEMMA PayRecordCommits ==
    ASSUME AdaptorInv, LedgerInv, NEW slot \in Slot, NEW locked \in Locked, PayRecord(slot, locked)
    PROVE  LedgerInv'
<1>. DEFINE receipt == record.receipt
            retainer == record.retainer
            now == WithLocked(receipt, locked)
<1>1. IsRow(record) /\ accepted \subseteq Locked
  BY DEF AdaptorInv, ReceiptInv
<1>2. /\ record' = ChequeInto(record, locked) /\ accepted' = accepted \cup {locked}
      /\ chain' = chain /\ mempool' = mempool /\ admin' = admin
      /\ retainer # None /\ HasReceipt(record) /\ locked.amount <= Uncommitted(record)
      /\ locked.index = MaxIndex(receipt) + 1
  BY DEF PayRecord, world, AcceptsCheque, MayCommit, TakesLocked
<1>3. /\ Holds(receipt, accepted) /\ Reaches(receipt, accepted) /\ IsBook(retainer, accepted)
      /\ Covers(chain.channel, Worth(retainer)) /\ receipt \in Receipts
  BY <1>2 DEF LedgerInv, RecordInv, FundsInv, Holds
<1>4. record' = [retainer |-> retainer, receipt |-> now]
  BY <1>1, <1>2 DEF ChequeInto, IsRow
<1>5. /\ now \in Receipts /\ now.cheques \in Seq(CarriedOf(accepted \cup {locked}))
      /\ Committed(now) = Committed(receipt) + locked.amount
      /\ MaxIndex(now) = Greatest(receipt.squash.index, locked.index)
  BY <1>3, LockedIsKept, LockedCommits
<1>6. /\ Committed(receipt) \in Nat /\ retainer.amount \in Nat /\ retainer.subbed \in Nat
      /\ locked.amount \in Nat /\ locked.amount > 0 /\ locked.index \in Nat
      /\ receipt.squash.index \in Nat /\ MaxIndex(receipt) \in Nat
  <2>1. retainer.amount \in Nat /\ retainer.subbed \in Nat
    BY <1>3 DEF IsBook
  <2>2. locked.amount \in Nat /\ locked.amount > FeePlaceholder /\ locked.index \in Nat
    BY LockedIs
  <2>3. /\ Committed(receipt) \in Nat /\ receipt.squash.index \in Nat
        /\ MaxIndex(receipt) \in Nat
    BY <1>3, CommittedIs, MaxIndexIs
  <2>. HIDE DEF receipt, retainer
  <2>4. \A i, j \in Nat : i > j => i > 0
    BY ONLY SMT
  <2>5. locked.amount > 0
    BY ONLY <2>2, <2>4, FeePlaceholderAssumption
  <2>. QED
    BY ONLY <2>1, <2>2, <2>3, <2>5
<1>7. locked.amount <= Monus(retainer.amount, Monus(Committed(receipt), retainer.subbed))
  BY <1>2 DEF Uncommitted
<1>. HIDE DEF now, receipt, retainer
<1>8. record'.retainer = retainer /\ record'.receipt = now
  BY <1>4
<1>9. Holds(now, accepted')
  BY <1>2, <1>5 DEF Holds
<1>10. Reaches(now, accepted')
  <2>1. locked.index <= MaxIndex(now) /\ MaxIndex(receipt) <= MaxIndex(now) /\ MaxIndex(now) \in Nat
    BY <1>2, <1>5, <1>6 DEF Greatest
  <2>2. \A other \in accepted : other.index \in Nat /\ other.index <= MaxIndex(receipt)
    BY <1>1, <1>3, LockedIs DEF Reaches
  <2>3. \A other \in accepted : other.index <= MaxIndex(now)
    BY <1>6, <2>1, <2>2
  <2>. QED
    BY <1>2, <2>1, <2>3 DEF Reaches
<1>11. Committed(now) <= Worth(retainer) /\ Committed(now) \in Nat /\ Worth(retainer) \in Nat
  BY <1>5, <1>6, <1>7 DEF Monus, Worth
<1>12. Covers(chain.channel, Committed(now))
  <2>1. chain.channel.stage \in {"Opened", "Closed"} => Worth(chain.channel) \in Nat
    BY WorthIs DEF LedgerInv, ChainInv
  <2>. QED
    BY <1>3, <1>11, <2>1 DEF Covers
<1>. QED
  BY <1>2, <1>8, <1>9, <1>10, <1>12, ReceiptChanges DEF retainer

LEMMA UnlocksApplyCommits ==
    ASSUME AdaptorInv, LedgerInv, UnlocksApply
    PROVE  LedgerInv'
<1>1. /\ chain' = chain /\ mempool' = mempool /\ admin' = admin /\ accepted' = accepted
  BY DEF UnlocksApply, world, history
<1>2. CASE record' = record
  BY <1>1, <1>2, LedgerIdles
<1>3. CASE UnlocksInto(record', record)
  <2>. DEFINE old == record.receipt new == record'.receipt
  <2>1. /\ old \in Receipts /\ new \in Receipts /\ Reveals(new, old)
        /\ record'.retainer = record.retainer /\ HasReceipt(record)
    BY <1>3, ReceiptIs DEF UnlocksInto, HasReceipt
  <2>2. Holds(old, accepted) /\ Reaches(old, accepted) /\ Covers(chain.channel, Committed(old))
    BY <2>1 DEF LedgerInv, RecordInv, FundsInv
  <2>. HIDE DEF old, new
  <2>3. Holds(new, accepted) /\ Committed(new) = Committed(old) /\ MaxIndex(new) = MaxIndex(old)
    BY <2>1, <2>2, RevealsCommit
  <2>4. Reaches(new, accepted) /\ Covers(chain.channel, Committed(new))
    BY <2>2, <2>3 DEF Reaches
  <2>. QED
    BY <1>1, <2>1, <2>3, <2>4, ReceiptChanges DEF new
<1>. QED
  BY <1>2, <1>3, UnlocksReveal

-----------------------------------------------------------------------------
(* The steps of the admin loop and of the ledger.                          *)

\* The retainer is one of the candidates, if there is one.
LEMMA RetainerIsCandidate ==
    ASSUME NEW row, IsRow(row), NEW T, NEW candidates \in Seq(T)
    PROVE  WithRetainer(row, candidates).retainer \in T \cup {None}
<1>. DEFINE n == Len(candidates)
            State == T \cup {None}
            G(best, c) == IF best = None \/ Outranks(row.receipt, c, best) THEN c ELSE best
            F(iter) == [s \in SUBSET (1..n) |->
                          IF s = {} THEN None ELSE G(iter[s \ {Max(s)}], candidates[Max(s)])]
            step == [q \in State \X (1..n) |-> G(q[1], candidates[q[2]])]
            it == CHOOSE iter : iter = F(iter)
            end == it[1..n]
            best == FoldLeft(LAMBDA b, c : IF b = None \/ Outranks(row.receipt, c, b) THEN c ELSE b,
                             None, candidates)
<1>1. n \in Nat /\ DOMAIN candidates = 1..n /\ \A k \in 1..n : candidates[k] \in T
  BY ListEntries
<1>2. best = end
  <2>. HIDE DEF n
  <2>. QED
    BY <1>1 DEF FoldLeft, MapThenFoldSet
<1>3. WithRetainer(row, candidates) = [row EXCEPT !.retainer = best]
  BY DEF WithRetainer
<1>. HIDE DEF best, n
<1>4. WithRetainer(row, candidates).retainer = best
  BY <1>3 DEF IsRow
<1>5. \A a \in State : \A k \in 1..n : G(a, candidates[k]) \in State
  BY <1>1
<1>6. None \in State
  OBVIOUS
<1>. HIDE DEF G, State
<1>7. step \in [State \X (1..n) -> State]
  BY <1>5
<1>8. it = F(it)
  <2>1. PICK walk : IsWalk(walk, n, State, None, step)
    <3>. HIDE DEF step
    <3>. QED
      BY <1>1, <1>6, <1>7, WalkExists
  <2>2. ASSUME NEW s \in SUBSET (1..n), s # {}
        PROVE  walk[s] = G(walk[s \ {Max(s)}], candidates[Max(s)])
    <3>1. Max(s) \in 1..n /\ s \ {Max(s)} \in SUBSET (1..n)
      BY <1>1, <2>2, MaxIsIn
    <3>2. walk[s] = step[<<walk[s \ {Max(s)}], Max(s)>>] /\ walk[s \ {Max(s)}] \in State
      <4>. HIDE DEF step
      <4>. QED
        BY <2>1, <2>2, <3>1 DEF IsWalk
    <3>. QED
      BY <3>1, <3>2
  <2>3. walk = F(walk)
    BY <2>1, <2>2 DEF IsWalk
  <2>. HIDE DEF F
  <2>. QED
    BY <2>3
<1>. HIDE DEF it
<1>9. it[{}] = None
  BY <1>8
<1>10. ASSUME NEW s \in SUBSET (1..n), s # {}, it[s \ {Max(s)}] \in State
       PROVE  it[s] = step[<<it[s \ {Max(s)}], Max(s)>>]
  <2>1. Max(s) \in 1..n
    BY <1>1, <1>10, MaxIsIn
  <2>. QED
    BY <1>8, <1>10, <2>1
<1>11. IsFold(it, n, State, None, step)
  BY <1>9, <1>10 DEF IsFold
<1>12. it[1..n] \in State
  <2>. HIDE DEF step
  <2>. QED
    BY <1>1, <1>6, <1>7, <1>11, FoldStays
<1>. QED
  BY <1>2, <1>4, <1>12 DEF State

LEMMA SyncSnapshotCommits ==
    ASSUME LedgerInv, SyncSnapshot
    PROVE  LedgerInv'
<1>1. /\ admin' = Goes("sync", chain) /\ chain' = chain /\ mempool' = mempool /\ record' = record
      /\ accepted' = accepted
  BY DEF SyncSnapshot, world, database, history
<1>2. admin'.pc = "sync" /\ admin'.snap = chain
  BY <1>1 DEF Goes
<1>3. AdminInv'
  BY <1>1, <1>2 DEF AdminInv, LedgerInv, ChainInv
<1>4. ChainInv' /\ RecordInv'
  BY <1>1, ChainStays DEF LedgerInv, RecordInv
<1>5. chain.channel.stage = "Opened" => Covers(chain.channel, Worth(chain.channel))
  BY WorthIs DEF LedgerInv, ChainInv, Covers
<1>6. FundsInv'
  BY <1>1, <1>2, <1>5 DEF LedgerInv, FundsInv
<1>. QED
  BY <1>3, <1>4, <1>6 DEF LedgerInv

LEMMA SyncApplyCommits ==
    ASSUME AdaptorInv, LedgerInv, SyncApply
    PROVE  LedgerInv'
<1>. DEFINE seen == admin.snap.channel
            candidates == IF seen.stage = "Opened" THEN <<RetainerOf(seen)>> ELSE <<>>
<1>1. /\ record' = WithRetainer(record, candidates) /\ admin.pc = "sync" /\ admin'.pc = "synced"
      /\ chain' = chain /\ mempool' = mempool /\ accepted' = accepted /\ IsRow(record)
  BY DEF SyncApply, world, history, AdaptorInv, ReceiptInv
<1>2. candidates \in Seq({RetainerOf(seen)}) /\ (seen.stage # "Opened" => candidates \in Seq({}))
  <2>. DEFINE retainer == RetainerOf(seen)
  <2>1. <<retainer>> \in Seq({retainer}) /\ <<>> \in Seq({retainer}) /\ <<>> \in Seq({})
    <3>. HIDE DEF retainer
    <3>. QED
      OBVIOUS
  <2>. HIDE DEF retainer, seen
  <2>2. candidates = IF seen.stage = "Opened" THEN <<retainer>> ELSE <<>>
    BY DEF candidates, retainer
  <2>. HIDE DEF candidates
  <2>3. candidates \in Seq({retainer}) /\ (seen.stage # "Opened" => candidates \in Seq({}))
    BY <2>1, <2>2
  <2>. QED
    BY <2>3 DEF retainer
<1>. HIDE DEF candidates
<1>3. /\ record'.retainer = None \/ (record'.retainer = RetainerOf(seen) /\ seen.stage = "Opened")
      /\ record'.receipt = record.receipt
  <2>1. \A T : candidates \in Seq(T) => WithRetainer(record, candidates).retainer \in T \cup {None}
    BY <1>1, RetainerIsCandidate
  <2>2. WithRetainer(record, candidates).receipt = record.receipt
    BY <1>1 DEF WithRetainer, IsRow
  <2>. QED
    BY <1>1, <1>2, <2>1, <2>2
<1>4. IsChannel(seen, accepted)
  BY <1>1 DEF LedgerInv, AdminInv
<1>5. ASSUME seen.stage = "Opened"
      PROVE  /\ IsBook(RetainerOf(seen), accepted) /\ Worth(RetainerOf(seen)) = Worth(seen)
             /\ Covers(chain.channel, Worth(seen))
  <2>1. IsOpened(seen, accepted)
    BY <1>4, <1>5 DEF IsChannel, IsUTxO, Spent, IsClosed, IsResponded
  <2>2. Covers(chain.channel, Worth(seen))
    BY <1>1, <1>5 DEF LedgerInv, FundsInv
  <2>. QED
    BY <2>1, <2>2 DEF IsOpened, IsBook, RetainerOf, Worth
<1>. HIDE DEF seen
<1>6. ChainInv' /\ AdminInv'
  BY <1>1, ChainStays, AdminStays DEF LedgerInv
<1>7. RecordInv'
  BY <1>1, <1>3, <1>5 DEF LedgerInv, RecordInv, HasReceipt
<1>8. FundsInv'
  BY <1>1, <1>3, <1>5 DEF LedgerInv, FundsInv, HasReceipt
<1>. QED
  BY <1>6, <1>7, <1>8 DEF LedgerInv

LEMMA ClaimSnapshotCommits ==
    ASSUME LedgerInv, ClaimSnapshot \/ ClaimRead
    PROVE  LedgerInv'
<1>1. /\ chain' = chain /\ mempool' = mempool /\ record' = record /\ accepted' = accepted
  BY DEF ClaimSnapshot, ClaimRead, world, database, history
<1>2. AdminInv' /\ admin'.pc # "sync"
  <2>1. CASE ClaimSnapshot
    <3>1. admin'.pc = "claim" /\ admin'.snap = chain
      BY <2>1 DEF ClaimSnapshot, Goes
    <3>. QED
      BY <1>1, <3>1 DEF LedgerInv, ChainInv, AdminInv
  <2>2. CASE ClaimRead /\ HasReceipt(record) /\ admin.snap.channel # Spent
    <3>1. /\ admin'.pc = "build" /\ admin'.snap = admin.snap /\ admin'.receipt = record.receipt
          /\ admin.pc = "claim"
      BY <2>2 DEF ClaimRead
    <3>2. IsUTxO(admin.snap.channel, accepted) /\ Holds(record.receipt, accepted)
      BY <2>2, <3>1 DEF LedgerInv, AdminInv, RecordInv, IsChannel
    <3>. QED
      BY <1>1, <3>1, <3>2 DEF AdminInv
  <2>3. CASE ClaimRead /\ ~(HasReceipt(record) /\ admin.snap.channel # Spent)
    <3>1. admin'.pc = "idle"
      BY <2>3 DEF ClaimRead, Idle
    <3>. QED
      BY <3>1 DEF AdminInv
  <2>. QED
    BY <2>1, <2>2, <2>3
<1>3. ChainInv' /\ RecordInv'
  BY <1>1, ChainStays DEF LedgerInv, RecordInv
<1>4. FundsInv'
  BY <1>1, <1>2 DEF LedgerInv, FundsInv
<1>. QED
  BY <1>2, <1>3, <1>4 DEF LedgerInv

LEMMA ClaimSubmitCommits ==
    ASSUME AdaptorInv, LedgerInv, ClaimSubmit
    PROVE  LedgerInv'
<1>. DEFINE built == AnySub(admin.snap.channel, admin.receipt, Upper)
            tx == [version |-> admin.snap.version, stepping |-> built]
<1>1. /\ admin.pc = "build" /\ admin' = Idle /\ chain' = chain /\ record' = record
      /\ accepted' = accepted
      /\ \/ mempool' = mempool
         \/ built # NoStepping /\ mempool' = mempool \cup {tx}
  BY DEF ClaimSubmit, database, history
<1>2. /\ accepted \in SUBSET Locked
      /\ IsUTxO(admin.snap.channel, accepted) /\ Holds(admin.receipt, accepted)
  BY <1>1 DEF AdaptorInv, ReceiptInv, LedgerInv, AdminInv
<1>3. built = NoStepping \/ IsClaim(built, accepted)
  BY <1>2, AnySubIsClaim
<1>4. tx.stepping = built
  OBVIOUS
<1>. HIDE DEF built, tx
<1>5. ChainInv'
  BY <1>1, <1>3, <1>4 DEF LedgerInv, ChainInv
<1>6. AdminInv' /\ RecordInv' /\ FundsInv'
  BY <1>1 DEF LedgerInv, AdminInv, RecordInv, FundsInv, Idle
<1>. QED
  BY <1>5, <1>6 DEF LedgerInv

LEMMA LedgerMoves ==
    ASSUME LedgerInv, Include \/ TopUp \/ Close \/ Elapse
    PROVE  LedgerInv'
<1>1. admin' = admin /\ record' = record /\ accepted' = accepted
  BY DEF Include, TopUp, Close, ConsumerTx, Elapse, tasking, database, history
<1>2. IsChannel(chain.channel, accepted) /\ chain.channel = Channel
  BY DEF LedgerInv, ChainInv, Channel
<1>3. CASE Include
  <2>1. PICK tx \in mempool :
           /\ mempool' = mempool \ {tx}
           /\ \/ chain' = chain
              \/ /\ chain'.channel = tx.stepping.out
                 /\ Verifies(Signed, 0, Upper, Channel, tx.stepping)
    BY <1>3 DEF Include, Becomes
  <2>2. IsClaim(tx.stepping, accepted)
    BY DEF LedgerInv, ChainInv
  <2>3. IsChannel(chain'.channel, accepted)
        /\ \A amount \in Nat : Covers(chain.channel, amount) => Covers(chain'.channel, amount)
    BY <1>2, <2>1, <2>2, ClaimKeepsWorth DEF IsChannel
  <2>. QED
    BY <1>1, <2>1, <2>3, ChannelChanges
<1>4. CASE TopUp
  <2>1. mempool' = mempool /\ chain'.channel = AddStepping(Channel, 1).out /\ Channel.stage = "Opened"
    BY <1>4 DEF TopUp, ConsumerTx, Becomes
  <2>2. IsChannel(chain'.channel, accepted)
        /\ \A amount \in Nat : Covers(chain.channel, amount) => Covers(chain'.channel, amount)
    BY <1>2, <2>1, AddKeepsWorth DEF IsChannel
  <2>. QED
    BY <1>1, <2>1, <2>2, ChannelChanges
<1>5. CASE Close
  <2>1. /\ mempool' = mempool /\ chain'.channel = CloseStepping(Channel, Upper).out
        /\ Channel.stage = "Opened"
    BY <1>5 DEF Close, ConsumerTx, Becomes
  <2>2. IsChannel(chain'.channel, accepted)
        /\ \A amount \in Nat : Covers(chain.channel, amount) => Covers(chain'.channel, amount)
    BY <1>2, <2>1, CloseKeepsWorth DEF IsChannel
  <2>. QED
    BY <1>1, <2>1, <2>2, ChannelChanges
<1>6. CASE Elapse
  <2>1. mempool' = mempool /\ chain'.channel = Spent
    BY <1>6 DEF Elapse, Becomes
  <2>2. \A amount : Covers(Spent, amount)
    BY DEF Covers, Spent
  <2>. QED
    BY <1>1, <2>1, <2>2, ChannelChanges DEF IsChannel
<1>. QED
  BY <1>3, <1>4, <1>5, <1>6

LEMMA LedgerStep == AdaptorInv /\ LedgerInv /\ [Next]_vars => LedgerInv'
<1>. SUFFICES ASSUME AdaptorInv, LedgerInv, [Next]_vars PROVE LedgerInv'
  OBVIOUS
<1>1. ASSUME NEW slot \in Slot,
             QuoteBegin(slot) \/ QuoteEnd(slot) \/ PaySend(slot) \/ PayEnd(slot) \/ HangUp(slot)
      PROVE  LedgerInv'
  <2>1. /\ record' = record /\ accepted' = accepted /\ chain' = chain /\ mempool' = mempool
        /\ admin' = admin
    BY <1>1 DEF QuoteBegin, QuoteEnd, PaySend, PayEnd, HangUp, world, database, history
  <2>. QED
    BY <2>1, LedgerIdles
<1>2. ASSUME NEW slot \in Slot, NEW locked \in Locked, PayRecord(slot, locked) PROVE LedgerInv'
  BY <1>2, PayRecordCommits
<1>3. ASSUME NEW squash \in Proposed \cup squashes, PostSquash(squash) PROVE LedgerInv'
  BY <1>3, PostSquashCommits
<1>4. ASSUME UnlocksBegin PROVE LedgerInv'
  <2>1. /\ record' = record /\ accepted' = accepted /\ chain' = chain /\ mempool' = mempool
        /\ admin' = admin
    BY <1>4 DEF UnlocksBegin, world, database, history
  <2>. QED
    BY <2>1, LedgerIdles
<1>5. ASSUME UnlocksApply PROVE LedgerInv'
  BY <1>5, UnlocksApplyCommits
<1>6. ASSUME Admin PROVE LedgerInv'
  BY <1>6, SyncSnapshotCommits, SyncApplyCommits, ClaimSnapshotCommits, ClaimSubmitCommits DEF Admin
<1>7. ASSUME Include \/ TopUp \/ Close \/ Elapse PROVE LedgerInv'
  BY <1>7, LedgerMoves
<1>8. ASSUME NEW secret \in Secret, BlnAnswers(secret) PROVE LedgerInv'
  <2>1. /\ record' = record /\ accepted' = accepted /\ chain' = chain /\ mempool' = mempool
        /\ admin' = admin
    BY <1>8 DEF BlnAnswers, tasking, database, history
  <2>. QED
    BY <2>1, LedgerIdles
<1>9. ASSUME FxUpdate PROVE LedgerInv'
  <2>1. /\ record' = record /\ accepted' = accepted /\ chain' = chain /\ mempool' = mempool
        /\ admin' = admin
    BY <1>9 DEF FxUpdate, tasking, database, history
  <2>. QED
    BY <2>1, LedgerIdles
<1>10. ASSUME Crash \/ CallFails PROVE LedgerInv'
  <2>1. /\ record' = record /\ accepted' = accepted /\ chain' = chain /\ mempool' = mempool
        /\ admin' = admin \/ admin'.pc = "idle"
    BY <1>10 DEF Crash, CallFails, world, database, Idle
  <2>. QED
    BY <2>1, LedgerIdles
<1>11. ASSUME UNCHANGED vars PROVE LedgerInv'
  <2>1. /\ record' = record /\ accepted' = accepted /\ chain' = chain /\ mempool' = mempool
        /\ admin' = admin
    BY <1>11 DEF vars
  <2>. QED
    BY <2>1, LedgerIdles
<1>. QED
  BY <1>1, <1>2, <1>3, <1>4, <1>5, <1>6, <1>7, <1>8, <1>9, <1>10, <1>11 DEF Next

LEMMA LedgerAlways == Spec => [](AdaptorInv /\ LedgerInv)
  BY AdaptorInitially, AdaptorStep, LedgerInitially, LedgerStep, PTL DEF Spec

-----------------------------------------------------------------------------
(* What it implies.                                                        *)

\* While it is open or closed the channel covers every cheque the server
\* accepted, though the server accepts on a retainer that is a snapshot: what
\* the provider takes meanwhile the datum counts as subbed, the consumer only
\* adds, and a squash pays for no more than it squashes.
THEOREM CommitmentsCoveredAlways == Spec => []CommitmentsCovered
<1>1. LedgerInv => CommitmentsCovered
  BY DEF LedgerInv, FundsInv, Covers, Worth, CommitmentsCovered, Channel, Receipt
<1>. QED
  BY <1>1, LedgerAlways, PTL

\* A quote names the index and an amount the server accepts, while the record
\* stays what it was: no index the retainer lists as used is past the receipt.
THEOREM QuoteIsHonouredAlways == Spec => []QuoteIsHonoured
<1>1. AdaptorInv /\ LedgerInv => QuoteIsHonoured
  <2>. SUFFICES ASSUME AdaptorInv, LedgerInv, NEW quote \in Quotes(record),
                       NEW timeout \in Timeouts, NEW secret \in Secret
                PROVE  AcceptsCheque(record, [index |-> quote.index, amount |-> quote.amount,
                                              timeout |-> timeout, latch |-> Sha2(secret)])
    BY DEF QuoteIsHonoured
  <2>. DEFINE receipt == record.receipt
              retainer == record.retainer
              locked == [index |-> quote.index, amount |-> quote.amount,
                         timeout |-> timeout, latch |-> Sha2(secret)]
  <2>1. PICK fee \in RouteFees :
           /\ CanCommit(record, QuoteAmount(Msat + fee))
           /\ quote = [index |-> NextIndexOf(record), amount |-> QuoteAmount(Msat + fee)]
    BY DEF Quotes
  <2>2. /\ quote.index = NextIndexOf(record) /\ quote.amount = QuoteAmount(Msat + fee)
        /\ MayCommit(record) /\ Uncommitted(record) > quote.amount
    BY <2>1 DEF CanCommit
  <2>3. /\ retainer # None /\ HasReceipt(record) /\ IsBook(retainer, accepted)
        /\ receipt \in Receipts /\ Reaches(receipt, accepted) /\ accepted \in SUBSET Locked
    BY <2>2 DEF MayCommit, LedgerInv, RecordInv, Holds, AdaptorInv, ReceiptInv
  <2>4. quote.amount <= Uncommitted(record)
    <3>1. quote.amount \in Nat
      <4>. DEFINE asked == Msat + fee
      <4>1. rate[1] \in Nat /\ rate[2] \in Nat \ {0} /\ asked \in Nat
        <5>1. rate \in Rates /\ fee \in Nat
          BY RouteFeesAssumption DEF AdaptorInv, PaymentInv
        <5>2. rate \in (Nat \ {0}) \X (Nat \ {0})
          BY ONLY <5>1, RatesAssumption, Zenon
        <5>3. rate[1] \in Nat /\ rate[2] \in Nat \ {0}
          BY ONLY <5>2
        <5>4. asked \in Nat
          BY ONLY <5>1, MsatAssumption DEF asked
        <5>. QED
          BY ONLY <5>3, <5>4
      <4>. HIDE DEF asked
      <4>2. Lovelace(asked, rate) \in Nat
        BY <4>1 DEF Lovelace
      <4>. QED
        <5>1. quote.amount = Lovelace(asked, rate) + FeePlaceholder + 1
          BY <2>2 DEF QuoteAmount, asked
        <5>2. \A i, j \in Nat : i + j + 1 \in Nat
          BY ONLY SMT
        <5>. QED
          BY ONLY <4>2, <5>1, <5>2, FeePlaceholderAssumption
    <3>2. Uncommitted(record) \in Nat
      <4>1. retainer.amount \in Nat /\ retainer.subbed \in Nat /\ Committed(receipt) \in Nat
        BY <2>3, CommittedIs DEF IsBook
      <4>. HIDE DEF retainer, receipt
      <4>2. Monus(retainer.amount, Monus(Committed(receipt), retainer.subbed)) \in Nat
        BY <4>1 DEF Monus
      <4>. QED
        BY <4>2 DEF Uncommitted, retainer, receipt
    <3>. QED
      BY <2>2, <3>1, <3>2
  <2>5. quote.index = MaxIndex(receipt) + 1
    <3>1. MaxIndex(receipt) \in Nat
      BY <2>3, MaxIndexIs
    <3>2. LastUsed(retainer) \in Nat /\ LastUsed(retainer) <= MaxIndex(receipt)
      <4>1. CASE retainer.useds = <<>>
        BY <3>1, <4>1 DEF LastUsed
      <4>2. CASE retainer.useds # <<>>
        <5>. DEFINE useds == retainer.useds
        <5>1. useds \in Seq(Uses(accepted))
          BY <2>3 DEF IsBook
        <5>2. useds[Len(useds)] \in Uses(accepted)
          BY <4>2, <5>1
        <5>3. LastUsed(retainer) = useds[Len(useds)].index
          BY <4>2 DEF LastUsed, Last
        <5>. HIDE DEF useds
        <5>4. PICK other \in accepted : useds[Len(useds)].index = other.index
          BY <2>3, <5>2, UsesAre
        <5>. QED
          BY <2>3, <5>3, <5>4, LockedIs DEF Reaches
      <4>. QED
        BY <4>1, <4>2
    <3>. QED
      BY <2>2, <3>1, <3>2 DEF NextIndexOf, ProposeIndex, Greatest
  <2>6. locked.amount = quote.amount /\ locked.index = quote.index
    OBVIOUS
  <2>. HIDE DEF locked, receipt
  <2>7. TakesLocked(receipt, locked)
    BY <2>5, <2>6 DEF TakesLocked
  <2>8. AcceptsCheque(record, locked)
    BY <2>2, <2>4, <2>6, <2>7 DEF AcceptsCheque, receipt
  <2>. QED
    BY <2>8 DEF locked
<1>. QED
  BY <1>1, LedgerAlways, PTL
=============================================================================
