------------------------ MODULE KonduitClient_proofs ------------------------
(***************************************************************************)
(* Proofs about the client: a squash it signs is worth what was paid for,  *)
(* and the browser knows the locks the server holds.                       *)
(*                                                                         *)
(* Whatever becomes of the calls, a squash that was signed pays for the    *)
(* cheques it covers (PaysFor), and the payments of those have settled.    *)
(* The server takes a squash on its amount alone; of squashes that pay for *)
(* what they cover, the one it takes covers what it held (TakesCovers).    *)
(***************************************************************************)
EXTENDS KonduitClient, KonduitReceipt_proofs

\* all are the cheques accepted, status what became of the payments.
AreSettled(cheques, status) == \A a \in cheques : status[a.latch[2]] = "settled"
OwedIn(squash, all, status) ==
    PaysFor(squash, all) /\ AreSettled(CoveredOf(squash, all), status)

\* A cheque the client asks the server to take, and any request.
IsLocked(l) ==
    /\ l = [index |-> l.index, amount |-> Price, timeout |-> l.timeout, latch |-> l.latch]
    /\ l.timeout \in Nat /\ \E s \in Secret : l.latch = Sha2(s)
IsRequest(r, all, status) ==
    /\ r.what \in {"squash", "receipt", "pay"}
    /\ r.what = "squash" => OwedIn(r.with, all, status)
    /\ r.what = "pay" => IsLocked(r.with)

\* The receipt of the server accounts for the cheques it accepted.
Holds(receipt, all, status) ==
    /\ Accounts(receipt, all) /\ OwedIn(receipt.squash, all, status)
    /\ AreSettled(OpenOf(receipt, all), status)
Books(rec, all, status) ==
    /\ Numbered(all) /\ \A a \in all : IsLocked(a)
    /\ rec = [retainer |-> rec.retainer, receipt |-> rec.receipt]
    /\ rec.receipt = None => all = {}
    /\ rec.receipt # None => Holds(rec.receipt, all, status)
BookInv == Books(record, accepted, bln) /\ DOMAIN bln = Secret /\ now \in Nat

IsCall(c, rec, all, status) ==
    /\ c.pc = "request" => IsRequest(c, all, status)
    /\ c.pc = "answer" /\ c.what = "status" => OwedIn(c.with.proposal, all, status)
    /\ c.pc = "paying" => rec.receipt # None
CallInv ==
    /\ IsCall(call, record, accepted, bln)
    /\ \A r \in late : IsRequest(r, accepted, bln)
    /\ \A squash \in signed : OwedIn(squash, accepted, bln)
    /\ quote # None => quote.secret \in Secret

IsList(list) == list \in Seq(Entries(list))

\* The browser knows the lock, or the cheque has expired.
IsKnown(l) == (lockeds # None /\ l.latch \in lockeds.locks) \/ l.timeout <= now - Grace
HeldOf(rec) == IF rec.receipt = None THEN {} ELSE LockedOf(rec.receipt)
KnowsHeld == \A l \in HeldOf(record) \ lost : IsKnown(l)
KnowsCalled == call.pc = "request" /\ call.what = "pay" => IsKnown(call.with)
LateAreLost == \A r \in late : r.what = "pay" => r.with \in lost
AnswersHeld ==
    call.pc = "answer" /\ call.what = "receipt" /\ call.with # None
        => /\ IsList(call.with.cheques)
           /\ HeldOf(record) \subseteq LockedOf(call.with) \cup lost
ListInv == LateAreLost /\ (client = "browser" => KnowsHeld /\ KnowsCalled /\ AnswersHeld)

ClientInv == BookInv /\ CallInv /\ ListInv

-----------------------------------------------------------------------------
(* What is settled and accepted stays so.                                  *)

Stays(status, next) == \A s \in Secret : status[s] = "settled" => next[s] = "settled"

\* Squashes that pay for cheques pay for more of them, covering the same.
GoesOnPaying(all, more) ==
    \A q : PaysFor(q, all) => PaysFor(q, more) /\ CoveredOf(q, more) = CoveredOf(q, all)

LEMMA LockedIs ==
    ASSUME NEW l, IsLocked(l)
    PROVE  /\ l.latch[2] \in Secret /\ l.latch = Sha2(l.latch[2])
           /\ l.timeout \in Nat /\ l.amount = Price
<1>1. PICK s \in Secret : l.latch = Sha2(s)
  BY DEF IsLocked
<1>2. Sha2(s)[2] = s
  BY DEF Sha2
<1>3. l.amount = Price
  BY DEF IsLocked
<1>. QED
  BY <1>1, <1>2, <1>3 DEF IsLocked

LEMMA SettledStays ==
    ASSUME NEW all, \A a \in all : IsLocked(a), NEW status, NEW next, Stays(status, next),
           NEW cheques, cheques \subseteq all, AreSettled(cheques, status)
    PROVE  AreSettled(cheques, next)
<1>1. \A a \in cheques : a.latch[2] \in Secret
  BY LockedIs
<1>. QED
  BY <1>1 DEF AreSettled, Stays

LEMMA OwedStays ==
    ASSUME NEW all, \A a \in all : IsLocked(a), NEW status, NEW next, Stays(status, next),
           NEW more, GoesOnPaying(all, more), NEW squash, OwedIn(squash, all, status)
    PROVE  OwedIn(squash, more, next)
<1>1. /\ PaysFor(squash, more) /\ CoveredOf(squash, more) = CoveredOf(squash, all)
      /\ AreSettled(CoveredOf(squash, all), status)
  BY DEF GoesOnPaying, OwedIn
<1>2. CoveredOf(squash, all) \subseteq all
  BY DEF CoveredOf
<1>3. AreSettled(CoveredOf(squash, all), next)
  BY <1>1, <1>2, SettledStays
<1>. QED
  BY <1>1, <1>3 DEF OwedIn

LEMMA RequestStays ==
    ASSUME NEW all, \A a \in all : IsLocked(a), NEW status, NEW next, Stays(status, next),
           NEW more, GoesOnPaying(all, more), NEW r, IsRequest(r, all, status)
    PROVE  IsRequest(r, more, next)
  BY OwedStays DEF IsRequest

LEMMA CallStays ==
    ASSUME NEW all, \A a \in all : IsLocked(a), NEW status, NEW next, Stays(status, next),
           NEW more, GoesOnPaying(all, more), NEW c, NEW rec, IsCall(c, rec, all, status),
           NEW new, rec.receipt # None => new.receipt # None
    PROVE  IsCall(c, new, more, next)
  BY OwedStays, RequestStays DEF IsCall

LEMMA SamePays ==
    ASSUME NEW all, NEW status
    PROVE  GoesOnPaying(all, all) /\ Stays(status, status)
  BY DEF GoesOnPaying, Stays

LEMMA AreList ==
    ASSUME NEW T, NEW list \in Seq(T)
    PROVE  IsList(list)
<1>1. \A k \in DOMAIN list : list[k] \in Entries(list)
  BY DEF Entries
<1>. QED
  BY <1>1, SeqOver DEF IsList

LEMMA ReceiptIsSome ==
    ASSUME NEW cheques, NEW receipt, Accounts(receipt, cheques)
    PROVE  receipt # None
<1>1. "squash" \in DOMAIN receipt
  <2>1. receipt = [squash |-> receipt.squash, cheques |-> receipt.cheques]
    BY DEF Accounts
  <2>. QED
    BY ONLY <2>1
<1>2. "squash" \notin DOMAIN None
  BY DEF None
<1>. QED
  BY <1>1, <1>2

-----------------------------------------------------------------------------
(* What the server makes of its book.                                      *)

LEMMA BooksStay ==
    ASSUME NEW rec, NEW all, NEW status, Books(rec, all, status), NEW next, Stays(status, next)
    PROVE  Books(rec, all, next)
<1>1. \A a \in all : IsLocked(a)
  BY DEF Books
<1>2. ASSUME Holds(rec.receipt, all, status) PROVE Holds(rec.receipt, all, next)
  <2>1. OwedIn(rec.receipt.squash, all, next)
    BY <1>1, <1>2, OwedStays, SamePays DEF Holds
  <2>2. OpenOf(rec.receipt, all) \subseteq all
    BY DEF OpenOf, AtPlaces
  <2>3. AreSettled(OpenOf(rec.receipt, all), next)
    BY <1>1, <1>2, <2>2, SettledStays DEF Holds
  <2>. QED
    BY <1>2, <2>1, <2>3 DEF Holds
<1>. QED
  BY <1>2 DEF Books

LEMMA ProposalOwed ==
    ASSUME NEW all, Numbered(all), NEW status, NEW receipt, Holds(receipt, all, status),
           Proposal(receipt).ok
    PROVE  OwedIn(Proposal(receipt).body, all, status)
<1>1. /\ PaysFor(Proposal(receipt).body, all)
      /\ CoveredOf(Proposal(receipt).body, all) = CoveredOf(receipt.squash, all) \cup OpenOf(receipt, all)
  BY ProposalPays DEF Holds, OwedIn
<1>. QED
  BY <1>1 DEF Holds, OwedIn, AreSettled

\* A call that is answered with the status.
LEMMA StatusAnswers ==
    ASSUME NEW rec, NEW all, NEW status, Books(rec, all, status), rec.receipt # None
    PROVE  /\ IsCall(StatusOf(rec.receipt), rec, all, status)
           /\ StatusOf(rec.receipt).pc # "request"
           /\ StatusOf(rec.receipt).pc = "answer" => StatusOf(rec.receipt).what = "status"
<1>1. CASE ~Proposal(rec.receipt).ok
  <2>1. StatusOf(rec.receipt) = Failure
    BY <1>1 DEF StatusOf
  <2>. QED
    BY <2>1 DEF Failure, IsCall
<1>2. CASE Proposal(rec.receipt).ok
  <2>1. OwedIn(Proposal(rec.receipt).body, all, status)
    BY <1>2, ProposalOwed DEF Books
  <2>2. PICK with : StatusOf(rec.receipt) = Answer("status", with) /\ with.proposal = Proposal(rec.receipt).body
    BY <1>2 DEF StatusOf
  <2>3. /\ Answer("status", with).pc = "answer" /\ Answer("status", with).what = "status"
        /\ Answer("status", with).with = with
    BY DEF Answer
  <2>. QED
    BY <2>1, <2>2, <2>3 DEF IsCall
<1>. QED
  BY <1>1, <1>2

LEMMA SquashBooks ==
    ASSUME NEW rec, NEW all, NEW status, Books(rec, all, status),
           NEW squash, OwedIn(squash, all, status), AcceptsSquash(rec, squash)
    PROVE  /\ Books(SquashInto(rec, squash), all, status)
           /\ SquashInto(rec, squash).receipt # None
           /\ HeldOf(SquashInto(rec, squash)) \subseteq HeldOf(rec)
<1>. DEFINE old == rec.receipt
            receipt == IF old = None THEN NewReceipt(squash) ELSE WithSquash(old, squash)
            new == SquashInto(rec, squash)
<1>1. new = [retainer |-> rec.retainer, receipt |-> receipt]
  <2>1. new = [rec EXCEPT !.receipt = receipt]
    BY DEF SquashInto
  <2>2. rec = [retainer |-> rec.retainer, receipt |-> rec.receipt]
    BY DEF Books
  <2>. HIDE DEF receipt, new
  <2>. QED
    BY ONLY <2>1, <2>2
<1>2. /\ Numbered(all) /\ \A a \in all : IsLocked(a)
      /\ PaysFor(squash, all) /\ AreSettled(CoveredOf(squash, all), status)
  BY DEF Books, OwedIn
<1>3. Holds(receipt, all, status) /\ LockedOf(receipt) \subseteq HeldOf(rec)
  <2>1. CASE old = None
    <3>1. all = {} /\ receipt = NewReceipt(squash)
      BY <2>1 DEF Books
    <3>2. /\ Accounts(receipt, {}) /\ receipt.squash = squash
          /\ OpenOf(receipt, {}) = {} /\ LockedOf(receipt) = {}
      BY <1>2, <3>1, NewAccounts
    <3>. HIDE DEF receipt
    <3>. QED
      BY <3>1, <3>2 DEF Holds, AreSettled
  <2>2. CASE old # None
    <3>1. Holds(old, all, status) /\ receipt = WithSquash(old, squash)
      BY <2>2 DEF Books
    <3>2. TakesSquash(old, squash)
      BY <2>2 DEF AcceptsSquash, HasReceipt
    <3>3. /\ Accounts(receipt, all) /\ receipt.squash = squash
          /\ OpenOf(receipt, all) \subseteq OpenOf(old, all)
          /\ Entries(receipt.cheques) \subseteq Entries(old.cheques)
      BY <1>2, <3>1, <3>2, SquashedAccounts DEF Holds, OwedIn
    <3>. HIDE DEF receipt, old
    <3>4. Holds(receipt, all, status)
      BY <3>1, <3>3 DEF Holds, AreSettled
    <3>5. LockedOf(receipt) \subseteq LockedOf(old)
      BY <3>3 DEF LockedOf, Entries
    <3>. QED
      BY <2>2, <3>4, <3>5 DEF HeldOf, old
  <2>. QED
    BY <2>1, <2>2
<1>4. receipt # None
  BY <1>3, ReceiptIsSome DEF Holds
<1>5. new.receipt = receipt /\ new.retainer = rec.retainer
  BY <1>1
<1>. HIDE DEF receipt, new
<1>6. Books(new, all, status)
  BY <1>1, <1>2, <1>3, <1>4, <1>5 DEF Books
<1>7. HeldOf(new) \subseteq HeldOf(rec)
  BY <1>3, <1>4, <1>5 DEF HeldOf
<1>. QED
  BY <1>4, <1>5, <1>6, <1>7 DEF new

LEMMA ChequeBooks ==
    ASSUME NEW rec, NEW all, NEW status, Books(rec, all, status),
           NEW locked, IsLocked(locked), AcceptsCheque(rec, locked)
    PROVE  /\ Books(ChequeInto(rec, locked), all \cup {locked}, status)
           /\ GoesOnPaying(all, all \cup {locked})
           /\ ChequeInto(rec, locked).receipt # None
           /\ HeldOf(ChequeInto(rec, locked)) = HeldOf(rec) \cup {locked}
<1>. DEFINE old == rec.receipt
            receipt == WithLocked(old, locked)
            new == ChequeInto(rec, locked)
            more == all \cup {locked}
<1>1. new = [retainer |-> rec.retainer, receipt |-> receipt]
  <2>1. new = [rec EXCEPT !.receipt = receipt]
    BY DEF ChequeInto
  <2>2. rec = [retainer |-> rec.retainer, receipt |-> rec.receipt]
    BY DEF Books
  <2>. HIDE DEF receipt, new
  <2>. QED
    BY ONLY <2>1, <2>2
<1>2. old # None /\ locked.index = MaxIndex(old) + 1
  BY DEF AcceptsCheque, MayCommit, HasReceipt, TakesLocked
<1>3. /\ Numbered(all) /\ Accounts(old, all) /\ OwedIn(old.squash, all, status)
      /\ AreSettled(OpenOf(old, all), status) /\ \A a \in all : IsLocked(a)
  BY <1>2 DEF Books, Holds
<1>4. /\ locked = [index |-> locked.index, amount |-> locked.amount,
                   timeout |-> locked.timeout, latch |-> locked.latch]
      /\ locked.amount = Price /\ Price \in Nat \ {0} /\ locked.latch = Sha2(locked.latch[2])
  <2>1. locked.amount = Price /\ locked.latch = Sha2(locked.latch[2])
    BY LockedIs
  <2>2. locked = [index |-> locked.index, amount |-> Price, timeout |-> locked.timeout, latch |-> locked.latch]
    BY DEF IsLocked
  <2>. QED
    BY <2>1, <2>2, PriceAssumption
<1>5. /\ Numbered(more) /\ Accounts(receipt, more) /\ receipt.squash = old.squash
      /\ OpenOf(receipt, more) = OpenOf(old, all)
      /\ Entries(receipt.cheques) = Entries(old.cheques) \cup {[body |-> locked, unlocked |-> FALSE]}
  <2>1. PaysFor(old.squash, all) /\ locked.amount \in Nat /\ locked.amount > 0
    BY <1>3, <1>4 DEF OwedIn
  <2>. HIDE DEF old
  <2>. QED
    BY <1>2, <1>3, <1>4, <2>1, LockedAccounts
<1>. HIDE DEF receipt, old
<1>6. GoesOnPaying(all, more)
  <2>1. locked.index \in Nat /\ locked.index > MaxIndex(old)
    BY <1>2, <1>3, MaxIndexAt
  <2>2. \A q : PaysFor(q, all) => PaysFor(q, more) /\ CoveredOf(q, more) = CoveredOf(q, all)
    BY <1>3, <2>1, NewPays
  <2>. QED
    BY <2>2 DEF GoesOnPaying
<1>. HIDE DEF more
<1>7. Holds(receipt, more, status)
  <2>1. OwedIn(old.squash, more, status)
    BY <1>3, <1>6, OwedStays, SamePays
  <2>. QED
    BY <1>3, <1>5, <2>1 DEF Holds
<1>8. receipt # None
  BY <1>7, ReceiptIsSome DEF Holds
<1>9. new.receipt = receipt /\ new.retainer = rec.retainer
  BY <1>1
<1>. HIDE DEF new
<1>10. \A a \in more : IsLocked(a)
  BY <1>3 DEF more
<1>11. Books(new, more, status)
  BY <1>1, <1>5, <1>7, <1>8, <1>9, <1>10 DEF Books
<1>12. LockedOf(receipt) = LockedOf(old) \cup {locked}
  <2>. DEFINE c == [body |-> locked, unlocked |-> FALSE]
  <2>1. c.body = locked /\ c.unlocked = FALSE /\ Entries(receipt.cheques) = Entries(old.cheques) \cup {c}
    BY <1>5
  <2>. HIDE DEF c
  <2>2. \A r : LockedOf(r) = {e.body : e \in {d \in Entries(r.cheques) : ~d.unlocked}}
    BY DEF LockedOf, Entries
  <2>3. /\ LockedOf(receipt) = {e.body : e \in {d \in Entries(receipt.cheques) : ~d.unlocked}}
        /\ LockedOf(old) = {e.body : e \in {d \in Entries(old.cheques) : ~d.unlocked}}
    BY <2>2
  <2>. QED
    BY ONLY <2>1, <2>3
<1>13. HeldOf(new) = HeldOf(rec) \cup {locked}
  BY <1>2, <1>8, <1>9, <1>12 DEF HeldOf, old
<1>. QED
  BY <1>6, <1>8, <1>9, <1>11, <1>13 DEF new, more

LEMMA SecretBooks ==
    ASSUME NEW rec, NEW all, NEW status, Books(rec, all, status), rec.receipt # None,
           NEW secret, status[secret] = "settled",
           NEW new, new = [rec EXCEPT !.receipt = WithSecretOf(rec.receipt, secret)]
    PROVE  /\ Books(new, all, status) /\ new.receipt # None
           /\ HeldOf(new) \subseteq HeldOf(rec)
<1>. DEFINE old == rec.receipt
            receipt == WithSecretOf(old, secret)
<1>1. new = [retainer |-> rec.retainer, receipt |-> receipt]
  <2>1. new = [rec EXCEPT !.receipt = receipt]
    OBVIOUS
  <2>2. rec = [retainer |-> rec.retainer, receipt |-> rec.receipt]
    BY DEF Books
  <2>. HIDE DEF receipt
  <2>. QED
    BY ONLY <2>1, <2>2
<1>2. /\ Numbered(all) /\ Accounts(old, all) /\ OwedIn(old.squash, all, status)
      /\ AreSettled(OpenOf(old, all), status) /\ \A a \in all : IsLocked(a)
  BY DEF Books, Holds
<1>3. /\ Accounts(receipt, all) /\ receipt.squash = old.squash
      /\ \A a \in OpenOf(receipt, all) : a \in OpenOf(old, all) \/ a.latch = Sha2(secret)
      /\ LockedOf(receipt) \subseteq LockedOf(old)
  BY <1>2, SecretAccounts
<1>. HIDE DEF receipt, old
<1>4. Sha2(secret)[2] = secret
  BY DEF Sha2
<1>5. AreSettled(OpenOf(receipt, all), status)
  BY <1>2, <1>3, <1>4 DEF AreSettled
<1>6. Holds(receipt, all, status) /\ receipt # None
  BY <1>2, <1>3, <1>5, ReceiptIsSome DEF Holds
<1>7. new.receipt = receipt /\ new.retainer = rec.retainer
  BY <1>1
<1>8. Books(new, all, status)
  BY <1>1, <1>2, <1>6, <1>7 DEF Books
<1>9. HeldOf(new) \subseteq HeldOf(rec)
  BY <1>3, <1>6, <1>7 DEF HeldOf, old
<1>. QED
  BY <1>6, <1>7, <1>8, <1>9

-----------------------------------------------------------------------------
(* Requests the server serves, in time or late.                            *)

\* What the server does keeps its book, and squashes paid for.
Serves ==
    /\ Books(record', accepted', bln') /\ DOMAIN bln' = Secret
    /\ Stays(bln, bln') /\ GoesOnPaying(accepted, accepted')
    /\ record.receipt # None => record'.receipt # None

\* What becomes of the call: it is left alone or answered.
Answers ==
    \/ call' = call
    \/ /\ IsCall(call', record', accepted', bln') /\ call'.pc # "request"
       /\ call'.pc = "answer" /\ call'.what = "receipt" =>
             call'.with = record.receipt /\ record' = record

AddsHeld(more) == HeldOf(record') \subseteq HeldOf(record) \cup more

LEMMA SquashServed ==
    ASSUME BookInv, NEW squash, OwedIn(squash, accepted, bln), ServeSquash(squash)
    PROVE  Serves /\ Answers /\ AddsHeld({})
<1>. DEFINE next == IF AcceptsSquash(record, squash) THEN SquashInto(record, squash) ELSE record
<1>1. Books(record, accepted, bln) /\ DOMAIN bln = Secret
  BY DEF BookInv
<1>2. /\ record' = next /\ bln' = bln /\ accepted' = accepted
      /\ call' = IF call = Request("squash", squash) THEN StatusOf(next.receipt) ELSE call
  BY DEF ServeSquash
<1>3. Books(next, accepted, bln) /\ next.receipt # None /\ HeldOf(next) \subseteq HeldOf(record)
  <2>1. CASE AcceptsSquash(record, squash)
    BY <1>1, <2>1, SquashBooks
  <2>2. CASE ~AcceptsSquash(record, squash)
    <3>1. record.receipt # None
      BY <2>2 DEF AcceptsSquash, HasReceipt
    <3>. QED
      BY <1>1, <2>2, <3>1
  <2>. QED
    BY <2>1, <2>2
<1>. HIDE DEF next
<1>4. Serves
  BY <1>1, <1>2, <1>3, SamePays DEF Serves
<1>5. Answers
  <2>1. CASE call = Request("squash", squash)
    <3>1. /\ IsCall(StatusOf(next.receipt), next, accepted, bln)
          /\ StatusOf(next.receipt).pc # "request"
          /\ StatusOf(next.receipt).pc = "answer" => StatusOf(next.receipt).what = "status"
      BY <1>3, StatusAnswers
    <3>2. call' = StatusOf(next.receipt)
      BY <1>2, <2>1
    <3>. QED
      BY <1>2, <3>1, <3>2 DEF Answers
  <2>2. CASE call # Request("squash", squash)
    BY <1>2, <2>2 DEF Answers
  <2>. QED
    BY <2>1, <2>2
<1>. QED
  BY <1>2, <1>3, <1>4, <1>5 DEF AddsHeld

LEMMA ReceiptServed ==
    ASSUME BookInv, ServeReceipt
    PROVE  Serves /\ Answers /\ AddsHeld({})
<1>1. /\ record' = record /\ bln' = bln /\ accepted' = accepted
      /\ call' = IF call = Request("receipt", None) THEN Answer("receipt", Receipt) ELSE call
  BY DEF ServeReceipt, server
<1>2. Serves /\ AddsHeld({})
  BY <1>1, SamePays DEF Serves, AddsHeld, BookInv
<1>3. Answers
  <2>1. CASE call = Request("receipt", None)
    <3>1. /\ call'.pc = "answer" /\ call'.what = "receipt" /\ call'.with = record.receipt
      BY <1>1, <2>1 DEF Answer, Receipt
    <3>. QED
      BY <1>1, <3>1 DEF Answers, IsCall
  <2>. QED
    BY <1>1, <2>1 DEF Answers
<1>. QED
  BY <1>2, <1>3

\* A payment of the lightning node that was not settled changes.
LEMMA PaymentStays ==
    ASSUME NEW status, DOMAIN status = Secret, NEW next, NEW secret, status[secret] # "settled",
           NEW outcome, next = [status EXCEPT ![secret] = outcome]
    PROVE  Stays(status, next) /\ DOMAIN next = Secret
  BY DEF Stays

LEMMA PayServed ==
    ASSUME BookInv, NEW locked, IsLocked(locked), ServePay(locked)
    PROVE  Serves /\ Answers /\ AddsHeld({locked})
<1>. DEFINE secret == locked.latch[2]
            takes == InTime(locked) /\ AcceptsCheque(record, locked)
            pays == takes /\ bln[secret] \in {"idle", "failed"}
<1>1. Books(record, accepted, bln) /\ DOMAIN bln = Secret
  BY DEF BookInv
<1>2. /\ record' = IF takes THEN ChequeInto(record, locked) ELSE record
      /\ accepted' = IF takes THEN accepted \cup {locked} ELSE accepted
      /\ bln' = IF pays THEN [bln EXCEPT ![secret] = "inflight"] ELSE bln
      /\ call' = IF call = Request("pay", locked)
                 THEN IF pays THEN [pc |-> "paying", secret |-> secret] ELSE Failure
                 ELSE call
  BY DEF ServePay
<1>3. takes => AcceptsCheque(record, locked)
  OBVIOUS
<1>4. pays => takes /\ bln[secret] # "settled"
  OBVIOUS
<1>. HIDE DEF takes, pays, secret
<1>5. Stays(bln, bln') /\ DOMAIN bln' = Secret
  <2>1. CASE pays
    BY <1>1, <1>2, <1>4, <2>1, PaymentStays
  <2>2. CASE ~pays
    BY <1>1, <1>2, <2>2, SamePays
  <2>. QED
    BY <2>1, <2>2
<1>6. CASE takes
  <2>1. /\ Books(record', accepted', bln)
        /\ GoesOnPaying(accepted, accepted') /\ record'.receipt # None
        /\ HeldOf(record') = HeldOf(record) \cup {locked}
    BY <1>1, <1>2, <1>3, <1>6, ChequeBooks
  <2>2. Books(record', accepted', bln')
    BY <1>5, <2>1, BooksStay
  <2>3. Answers
    <3>1. CASE call = Request("pay", locked)
      <4>1. call' = [pc |-> "paying", secret |-> secret] \/ call' = Failure
        BY <1>2, <3>1
      <4>2. call'.pc \in {"paying", "failed"}
        BY <4>1 DEF Failure
      <4>. QED
        BY <2>1, <4>2 DEF Answers, IsCall
    <3>. QED
      BY <1>2, <3>1 DEF Answers
  <2>. QED
    BY <1>5, <2>1, <2>2, <2>3 DEF Serves, AddsHeld
<1>7. CASE ~takes
  <2>1. record' = record /\ accepted' = accepted /\ bln' = bln
    BY <1>2, <1>4, <1>7
  <2>2. call' = call \/ call' = Failure
    BY <1>2, <1>4, <1>7
  <2>3. Answers
    BY <2>2 DEF Answers, IsCall, Failure
  <2>. QED
    BY <1>1, <2>1, <2>3, SamePays DEF Serves, AddsHeld
<1>. QED
  BY <1>6, <1>7

LEMMA RequestServed ==
    ASSUME BookInv, NEW r, IsRequest(r, accepted, bln), Serve(r)
    PROVE  /\ Serves /\ Answers
           /\ r.what = "pay" => AddsHeld({r.with})
           /\ r.what # "pay" => AddsHeld({})
<1>1. CASE r.what = "squash"
  <2>1. ServeSquash(r.with) /\ OwedIn(r.with, accepted, bln)
    BY <1>1 DEF Serve, IsRequest
  <2>. QED
    BY <1>1, <2>1, SquashServed
<1>2. CASE r.what = "pay"
  <2>1. ServePay(r.with) /\ IsLocked(r.with)
    BY <1>2 DEF Serve, IsRequest
  <2>. QED
    BY <1>2, <2>1, PayServed
<1>3. CASE r.what = "receipt"
  <2>1. ServeReceipt
    BY <1>3 DEF Serve
  <2>. QED
    BY <1>3, <2>1, ReceiptServed
<1>. QED
  BY <1>1, <1>2, <1>3 DEF IsRequest

-----------------------------------------------------------------------------
(* Steps of the server.                                                    *)

\* The client's part of the invariant, when the server alone has moved.
LEMMA ServedCalls ==
    ASSUME ClientInv, Serves, Answers, now' = now, late' \subseteq late,
           UNCHANGED <<user, lost, signed>>
    PROVE  BookInv' /\ CallInv'
<1>1. /\ Stays(bln, bln') /\ GoesOnPaying(accepted, accepted') /\ \A a \in accepted : IsLocked(a)
      /\ record.receipt # None => record'.receipt # None
  BY DEF Serves, ClientInv, BookInv, Books
<1>2. BookInv'
  BY DEF Serves, ClientInv, BookInv
<1>3. IsCall(call', record', accepted', bln')
  <2>1. IsCall(call, record, accepted, bln)
    BY DEF ClientInv, CallInv
  <2>2. IsCall(call, record', accepted', bln')
    BY <1>1, <2>1, CallStays
  <2>. QED
    BY <2>2 DEF Answers
<1>4. \A r \in late' : IsRequest(r, accepted', bln')
  <2>1. \A r \in late' : IsRequest(r, accepted, bln)
    BY DEF ClientInv, CallInv
  <2>. QED
    BY <1>1, <2>1, RequestStays
<1>5. \A squash \in signed' : OwedIn(squash, accepted', bln')
  <2>1. \A squash \in signed' : OwedIn(squash, accepted, bln)
    BY DEF ClientInv, CallInv
  <2>. QED
    BY <1>1, <2>1, OwedStays
<1>6. quote' # None => quote'.secret \in Secret
  BY DEF ClientInv, CallInv, user
<1>. QED
  BY <1>2, <1>3, <1>4, <1>5, <1>6 DEF CallInv

LEMMA ServedLists ==
    ASSUME ClientInv, Answers, now' = now, late' \subseteq late, UNCHANGED <<user, lost, signed>>,
           NEW more, AddsHeld(more), \A l \in more \ lost : client = "browser" => IsKnown(l),
           call.pc = "request" \/ more \subseteq lost
    PROVE  ListInv'
<1>1. /\ client' = client /\ lockeds' = lockeds /\ lost' = lost
      /\ \A l : IsKnown(l)' <=> IsKnown(l)
  BY DEF user, IsKnown
<1>2. LateAreLost'
  BY <1>1 DEF ClientInv, ListInv, LateAreLost
<1>3. ASSUME client = "browser" PROVE KnowsHeld' /\ KnowsCalled' /\ AnswersHeld'
  <2>1. KnowsHeld /\ KnowsCalled /\ AnswersHeld
    BY <1>3 DEF ClientInv, ListInv
  <2>2. KnowsHeld'
    BY <1>1, <1>3, <2>1 DEF KnowsHeld, AddsHeld
  <2>3. KnowsCalled'
    <3>1. CASE call' = call
      BY <1>1, <2>1, <3>1 DEF KnowsCalled
    <3>2. CASE call'.pc # "request"
      BY <3>2 DEF KnowsCalled
    <3>. QED
      BY <3>1, <3>2 DEF Answers
  <2>4. AnswersHeld'
    <3>1. CASE call' = call
      <4>1. call.pc = "answer" => more \subseteq lost
        OBVIOUS
      <4>. QED
        BY <1>1, <2>1, <3>1, <4>1 DEF AnswersHeld, AddsHeld
    <3>2. CASE /\ call'.pc # "request"
               /\ call'.pc = "answer" /\ call'.what = "receipt" =>
                     call'.with = record.receipt /\ record' = record
      <4>1. ASSUME call'.pc = "answer", call'.what = "receipt", call'.with # None
            PROVE  /\ IsList(call'.with.cheques)
                   /\ HeldOf(record') \subseteq LockedOf(call'.with) \cup lost'
        <5>1. call'.with = record.receipt /\ record' = record /\ record.receipt # None
          BY <3>2, <4>1
        <5>2. Numbered(accepted) /\ Accounts(record.receipt, accepted)
          BY <5>1 DEF ClientInv, BookInv, Books, Holds
        <5>3. IsList(record.receipt.cheques)
          BY <5>2, AccountsIs, AreList
        <5>. QED
          BY <5>1, <5>3 DEF HeldOf
      <4>. QED
        BY <4>1 DEF AnswersHeld
    <3>. QED
      BY <3>1, <3>2 DEF Answers
  <2>. QED
    BY <2>2, <2>3, <2>4
<1>. QED
  BY <1>1, <1>2, <1>3 DEF ListInv

LEMMA ServeCallKeeps ==
    ASSUME ClientInv, ServeCall
    PROVE  ClientInv'
<1>1. /\ call.pc = "request" /\ Serve(call)
      /\ now' = now /\ late' = late /\ UNCHANGED <<user, lost, signed>>
  BY DEF ServeCall
<1>2. IsRequest(call, accepted, bln) /\ BookInv
  BY <1>1 DEF ClientInv, CallInv, IsCall
<1>3. /\ Serves /\ Answers
      /\ call.what = "pay" => AddsHeld({call.with})
      /\ call.what # "pay" => AddsHeld({})
  BY <1>1, <1>2, RequestServed
<1>4. BookInv' /\ CallInv'
  BY <1>1, <1>3, ServedCalls
<1>5. ListInv'
  <2>1. CASE call.what = "pay"
    <3>1. client = "browser" => IsKnown(call.with)
      BY <1>1, <2>1 DEF ClientInv, ListInv, KnowsCalled
    <3>. QED
      BY <1>1, <1>3, <2>1, <3>1, ServedLists
  <2>2. CASE call.what # "pay"
    BY <1>1, <1>3, <2>2, ServedLists
  <2>. QED
    BY <2>1, <2>2
<1>. QED
  BY <1>4, <1>5 DEF ClientInv

LEMMA ServeLateKeeps ==
    ASSUME ClientInv, ServeLate
    PROVE  ClientInv'
<1>1. PICK r \in late :
         /\ late' = late \ {r} /\ Serve(r)
         /\ now' = now /\ UNCHANGED <<user, lost, signed>>
  BY DEF ServeLate
<1>2. IsRequest(r, accepted, bln) /\ BookInv
  BY <1>1 DEF ClientInv, CallInv
<1>3. /\ Serves /\ Answers
      /\ r.what = "pay" => AddsHeld({r.with})
      /\ r.what # "pay" => AddsHeld({})
  BY <1>1, <1>2, RequestServed
<1>4. BookInv' /\ CallInv'
  BY <1>1, <1>3, ServedCalls
<1>5. ListInv'
  <2>1. CASE r.what = "pay"
    <3>1. r.with \in lost
      BY <2>1 DEF ClientInv, ListInv, LateAreLost
    <3>. QED
      BY <1>1, <1>3, <2>1, <3>1, ServedLists
  <2>2. CASE r.what # "pay"
    BY <1>1, <1>3, <2>2, ServedLists
  <2>. QED
    BY <2>1, <2>2
<1>. QED
  BY <1>4, <1>5 DEF ClientInv

LEMMA PaidAnswerKeeps ==
    ASSUME ClientInv, PaidAnswer
    PROVE  ClientInv'
<1>1. /\ call.pc = "paying" /\ now' = now /\ late' = late /\ UNCHANGED <<user, lost, signed>>
      /\ record' = record /\ bln' = bln /\ accepted' = accepted
      /\ call' = StatusOf(record.receipt) \/ call' = Failure
  BY DEF PaidAnswer, server, Receipt
<1>2. Books(record, accepted, bln) /\ DOMAIN bln = Secret /\ record.receipt # None
  BY <1>1 DEF ClientInv, BookInv, CallInv, IsCall
<1>3. Serves /\ AddsHeld({})
  BY <1>1, <1>2, SamePays DEF Serves, AddsHeld
<1>4. Answers
  <2>1. CASE call' = StatusOf(record.receipt)
    <3>1. /\ IsCall(StatusOf(record.receipt), record, accepted, bln)
          /\ StatusOf(record.receipt).pc # "request"
          /\ StatusOf(record.receipt).pc = "answer" => StatusOf(record.receipt).what = "status"
      BY <1>2, StatusAnswers
    <3>. QED
      BY <1>1, <2>1, <3>1 DEF Answers
  <2>2. CASE call' = Failure
    BY <2>2 DEF Answers, IsCall, Failure
  <2>. QED
    BY <1>1, <2>1, <2>2
<1>5. BookInv' /\ CallInv'
  BY <1>1, <1>3, <1>4, ServedCalls
<1>6. ListInv'
  BY <1>1, <1>3, <1>4, ServedLists
<1>. QED
  BY <1>5, <1>6 DEF ClientInv

LEMMA BlnAnswersKeeps ==
    ASSUME ClientInv, NEW secret \in Secret, BlnAnswers(secret)
    PROVE  ClientInv'
<1>1. /\ now' = now /\ late' = late /\ UNCHANGED <<user, lost, signed>>
      /\ record' = record /\ accepted' = accepted /\ call' = call
  BY DEF BlnAnswers
<1>2. Books(record, accepted, bln) /\ DOMAIN bln = Secret
  BY DEF ClientInv, BookInv
<1>3. Stays(bln, bln') /\ DOMAIN bln' = Secret
  <2>1. PICK outcome : bln' = [bln EXCEPT ![secret] = outcome] /\ bln[secret] # "settled"
    BY DEF BlnAnswers
  <2>. QED
    BY <1>2, <2>1, PaymentStays
<1>4. Books(record, accepted, bln')
  BY <1>2, <1>3, BooksStay
<1>5. Serves /\ Answers /\ AddsHeld({})
  BY <1>1, <1>3, <1>4, SamePays DEF Serves, Answers, AddsHeld
<1>6. BookInv' /\ CallInv'
  BY <1>1, <1>5, ServedCalls
<1>7. ListInv'
  BY <1>1, <1>5, ServedLists
<1>. QED
  BY <1>6, <1>7 DEF ClientInv

LEMMA UnlockKeeps ==
    ASSUME ClientInv, NEW secret \in Secret, Unlock(secret)
    PROVE  ClientInv'
<1>1. /\ now' = now /\ late' = late /\ UNCHANGED <<user, lost, signed>>
      /\ bln' = bln /\ accepted' = accepted /\ call' = call
      /\ bln[secret] = "settled" /\ record.receipt # None
      /\ record' = [record EXCEPT !.receipt = WithSecretOf(@, secret)]
  BY DEF Unlock, HasReceipt
<1>2. Books(record, accepted, bln) /\ DOMAIN bln = Secret
  BY DEF ClientInv, BookInv
<1>3. /\ Books(record', accepted, bln) /\ record'.receipt # None
      /\ HeldOf(record') \subseteq HeldOf(record)
  <2>1. record' = [record EXCEPT !.receipt = WithSecretOf(record.receipt, secret)]
    BY <1>1
  <2>. QED
    BY ONLY <1>1, <1>2, <2>1, SecretBooks
<1>4. Serves /\ Answers /\ AddsHeld({})
  BY <1>1, <1>2, <1>3, SamePays DEF Serves, Answers, AddsHeld
<1>5. BookInv' /\ CallInv'
  BY <1>1, <1>4, ServedCalls
<1>6. ListInv'
  BY <1>1, <1>4, ServedLists
<1>. QED
  BY <1>5, <1>6 DEF ClientInv

-----------------------------------------------------------------------------
(* Steps of the client.                                                    *)

\* The server does nothing.
ServerRests == record' = record /\ bln' = bln /\ accepted' = accepted

LEMMA ServerAsWas ==
    ASSUME ClientInv, ServerRests, now' \in Nat
    PROVE  BookInv'
  BY DEF ClientInv, BookInv, ServerRests

\* The user moves on, and nothing is sent.
LEMMA CallDropped ==
    ASSUME ClientInv, ServerRests, now' = now, client' = client, lockeds' = lockeds,
           late' = late, lost' = lost, signed' = signed,
           call'.pc \in {"idle", "failed"} \/ call' = call,
           quote' # None => quote'.secret \in Secret
    PROVE  ClientInv'
<1>1. BookInv'
  BY ServerAsWas DEF ClientInv, BookInv
<1>2. CallInv'
  BY DEF ClientInv, CallInv, ServerRests, IsCall
<1>3. ListInv'
  BY DEF ClientInv, ListInv, ServerRests, LateAreLost, KnowsHeld, KnowsCalled, AnswersHeld, IsKnown
<1>. QED
  BY <1>1, <1>2, <1>3 DEF ClientInv

\* A squash of nothing covers nothing.
LEMMA ZeroOwed ==
    ASSUME NEW all, Numbered(all), NEW status
    PROVE  OwedIn(ZeroBody, all, status)
<1>1. ZeroBody \in Squashes /\ ZeroBody.amount = 0 /\ ZeroBody.index = 0 /\ Covered(ZeroBody) = {0}
  BY ZeroBodyCovers DEF ZeroBody
<1>2. CoveredOf(ZeroBody, all) = {}
  <2>1. \A a \in all : a.index \in Nat /\ a.index > 0
    BY NumberedAre
  <2>. QED
    BY <1>1, <2>1 DEF CoveredOf, Covered
<1>3. Total({}) = 0
  BY TotalAdds DEF Numbered
<1>. QED
  BY <1>1, <1>2, <1>3 DEF OwedIn, PaysFor, AreSettled

\* A cheque that is held locked was accepted, and is one the client sent.
LEMMA HeldAccepted ==
    ASSUME NEW rec, NEW all, NEW status, Books(rec, all, status)
    PROVE  \A l \in HeldOf(rec) : IsLocked(l) /\ l.timeout \in Nat
<1>. SUFFICES ASSUME NEW l \in HeldOf(rec) PROVE IsLocked(l)
  BY LockedIs
<1>1. rec.receipt # None /\ l \in LockedOf(rec.receipt)
  BY DEF HeldOf
<1>2. /\ Numbered(all) /\ Accounts(rec.receipt, all) /\ \A a \in all : IsLocked(a)
  BY <1>1 DEF Books, Holds
<1>3. PICK n \in DOMAIN rec.receipt.cheques :
         ~rec.receipt.cheques[n].unlocked /\ rec.receipt.cheques[n].body = l
  BY <1>1 DEF LockedOf
<1>4. PICK a \in all : IsOf(rec.receipt.cheques[n], a)
  BY <1>2, AccountsIs, CarriesAre
<1>5. l = a
  BY <1>3, <1>4 DEF IsOf
<1>. QED
  BY <1>2, <1>5

LEMMA GetQuoteKeeps ==
    ASSUME ClientInv, NEW secret \in Secret, GetQuote(secret)
    PROVE  ClientInv'
<1>1. /\ ServerRests /\ now' = now /\ client' = client /\ lockeds' = lockeds
      /\ late' = late /\ lost' = lost /\ signed' = signed /\ call' = call
      /\ quote' = [secret |-> secret, index |-> NextIndexOf(record)]
  BY DEF GetQuote, server, ServerRests
<1>2. quote'.secret \in Secret
  BY <1>1
<1>. QED
  BY <1>1, <1>2, CallDropped

LEMMA TakeFailureKeeps ==
    ASSUME ClientInv, TakeFailure
    PROVE  ClientInv'
<1>1. /\ ServerRests /\ now' = now /\ client' = client /\ lockeds' = lockeds /\ quote' = quote
      /\ late' = late /\ lost' = lost /\ signed' = signed /\ call'.pc = "idle"
  BY DEF TakeFailure, server, user, ServerRests, Idle
<1>. QED
  BY <1>1, CallDropped DEF ClientInv, CallInv

LEMMA PayKeeps ==
    ASSUME ClientInv, Pay
    PROVE  ClientInv'
<1>. DEFINE locked == [index |-> quote.index, amount |-> Price,
                       timeout |-> now + RelativeTimeout, latch |-> Sha2(quote.secret)]
<1>1. /\ ServerRests /\ now' = now /\ client' = client /\ quote' = quote
      /\ late' = late /\ lost' = lost /\ signed' = signed /\ quote # None
      /\ call' = Request("pay", locked)
      /\ lockeds' = IF client = "browser" THEN Added(Sha2(quote.secret)) ELSE lockeds
  BY DEF Pay, server, ServerRests
<1>2. call'.pc = "request" /\ call'.what = "pay" /\ call'.with = locked
  BY <1>1 DEF Request
<1>3. quote.secret \in Secret /\ now \in Nat
  BY <1>1 DEF ClientInv, CallInv, BookInv
<1>4. IsLocked(locked)
  BY <1>3, RelativeTimeoutAssumption DEF IsLocked
<1>5. locked.latch = Sha2(quote.secret)
  OBVIOUS
<1>. HIDE DEF locked
<1>6. BookInv'
  BY <1>1, <1>3, ServerAsWas
<1>7. CallInv'
  BY <1>1, <1>2, <1>4 DEF ClientInv, CallInv, IsCall, IsRequest, ServerRests
<1>8. ListInv'
  <2>1. LateAreLost'
    BY <1>1 DEF ClientInv, ListInv, LateAreLost
  <2>2. ASSUME client = "browser" PROVE KnowsHeld' /\ KnowsCalled' /\ AnswersHeld'
    <3>1. /\ lockeds' = [locks |-> IF lockeds = None THEN {locked.latch}
                                   ELSE lockeds.locks \cup {locked.latch}]
          /\ KnowsHeld
      BY <1>1, <1>5, <2>2 DEF Added, ClientInv, ListInv
    <3>2. lockeds' # None
      <4>1. "locks" \in DOMAIN lockeds' /\ "locks" \notin DOMAIN None
        BY <3>1 DEF None
      <4>. QED
        BY <4>1
    <3>3. /\ locked.latch \in lockeds'.locks
          /\ \A l : lockeds # None /\ l \in lockeds.locks => l \in lockeds'.locks
      BY <3>1
    <3>4. KnowsHeld'
      BY <1>1, <3>1, <3>2, <3>3 DEF KnowsHeld, IsKnown, ServerRests
    <3>5. KnowsCalled'
      BY <1>2, <3>2, <3>3 DEF KnowsCalled, IsKnown
    <3>6. AnswersHeld'
      BY <1>2 DEF AnswersHeld
    <3>. QED
      BY <3>4, <3>5, <3>6
  <2>. QED
    BY <1>1, <2>1, <2>2 DEF ListInv
<1>. QED
  BY <1>6, <1>7, <1>8 DEF ClientInv

\* The client makes a call, or ends one, but for that of a payment.
LEMMA CallMade ==
    ASSUME ClientInv, ServerRests, now' = now, client' = client, lockeds' = lockeds, quote' = quote,
           late' = late, lost' = lost,
           IsCall(call', record, accepted, bln), \A q \in signed' : OwedIn(q, accepted, bln),
           call'.pc = "idle" \/ (call'.pc = "request" /\ call'.what # "pay")
    PROVE  ClientInv'
<1>1. BookInv'
  BY ServerAsWas DEF ClientInv, BookInv
<1>2. CallInv'
  BY DEF ClientInv, CallInv, ServerRests
<1>3. ListInv'
  BY DEF ClientInv, ListInv, ServerRests, LateAreLost, KnowsHeld, KnowsCalled, AnswersHeld, IsKnown
<1>. QED
  BY <1>1, <1>2, <1>3 DEF ClientInv

LEMMA SyncKeeps ==
    ASSUME ClientInv, Sync
    PROVE  ClientInv'
<1>1. /\ ServerRests /\ now' = now /\ client' = client /\ lockeds' = lockeds /\ quote' = quote
      /\ late' = late /\ lost' = lost /\ signed' = signed \cup {ZeroBody}
      /\ call'.pc = "request" /\ call'.what = "squash" /\ call'.with = ZeroBody
  BY DEF Sync, server, user, ServerRests, Request
<1>2. OwedIn(ZeroBody, accepted, bln)
  BY ZeroOwed DEF ClientInv, BookInv, Books
<1>3. IsCall(call', record, accepted, bln)
  BY <1>1, <1>2 DEF IsCall, IsRequest
<1>4. \A q \in signed' : OwedIn(q, accepted, bln)
  BY <1>1, <1>2 DEF ClientInv, CallInv
<1>. QED
  BY <1>1, <1>3, <1>4, CallMade

LEMMA TakeStatusKeeps ==
    ASSUME ClientInv, TakeStatus
    PROVE  ClientInv'
<1>. DEFINE body == call.with.proposal
<1>1. /\ ServerRests /\ now' = now /\ client' = client /\ lockeds' = lockeds /\ quote' = quote
      /\ late' = late /\ lost' = lost /\ call.pc = "answer" /\ call.what = "status"
      /\ signed' = signed \/ signed' = signed \cup {body}
      /\ call' = Request("squash", body) \/ call' = Synced \/ call' = Idle
  BY DEF TakeStatus, server, user, ServerRests
<1>2. OwedIn(body, accepted, bln)
  BY <1>1 DEF ClientInv, CallInv, IsCall
<1>. HIDE DEF body
<1>3. \A q \in signed' : OwedIn(q, accepted, bln)
  BY <1>1, <1>2 DEF ClientInv, CallInv
<1>4. CASE call' = Request("squash", body)
  <2>1. call'.pc = "request" /\ call'.what = "squash" /\ call'.with = body
    BY <1>4 DEF Request
  <2>2. IsCall(call', record, accepted, bln)
    BY <1>2, <2>1 DEF IsCall, IsRequest
  <2>. QED
    BY <1>1, <1>3, <2>1, <2>2, CallMade
<1>5. CASE call' = Request("receipt", None) \/ call' = Idle
  <2>1. call'.pc = "idle" \/ (call'.pc = "request" /\ call'.what = "receipt")
    BY <1>5 DEF Request, Idle
  <2>2. IsCall(call', record, accepted, bln)
    BY <2>1 DEF IsCall, IsRequest
  <2>. QED
    BY <1>1, <1>3, <2>1, <2>2, CallMade
<1>. QED
  BY <1>1, <1>4, <1>5 DEF Synced

LEMMA TickKeeps ==
    ASSUME ClientInv, Tick
    PROVE  ClientInv'
<1>1. /\ ServerRests /\ now' = now + 1 /\ client' = client /\ lockeds' = lockeds /\ quote' = quote
      /\ late' = late /\ lost' = lost /\ signed' = signed /\ call' = call
  BY DEF Tick, server, user, ServerRests
<1>2. now \in Nat
  BY DEF ClientInv, BookInv
<1>3. BookInv'
  BY <1>1, <1>2, ServerAsWas
<1>4. CallInv'
  BY <1>1 DEF ClientInv, CallInv, ServerRests
<1>5. ASSUME NEW l, l.timeout \in Nat, IsKnown(l) PROVE IsKnown(l)'
  BY <1>1, <1>2, <1>5, GraceAssumption DEF IsKnown
<1>6. ListInv'
  <2>1. \A l \in HeldOf(record) : l.timeout \in Nat
    BY HeldAccepted DEF ClientInv, BookInv
  <2>2. call.pc = "request" /\ call.what = "pay" => call.with.timeout \in Nat
    BY LockedIs DEF ClientInv, CallInv, IsCall, IsRequest
  <2>3. KnowsHeld => KnowsHeld'
    BY <1>1, <1>5, <2>1 DEF KnowsHeld, ServerRests
  <2>4. KnowsCalled => KnowsCalled'
    BY <1>1, <1>5, <2>2 DEF KnowsCalled
  <2>5. (AnswersHeld => AnswersHeld') /\ (LateAreLost => LateAreLost')
    BY <1>1 DEF AnswersHeld, LateAreLost, ServerRests
  <2>. QED
    BY <1>1, <2>3, <2>4, <2>5 DEF ClientInv, ListInv
<1>. QED
  BY <1>3, <1>4, <1>6 DEF ClientInv

LEMMA FailsKeeps ==
    ASSUME ClientInv, Fails
    PROVE  ClientInv'
<1>1. /\ ServerRests /\ now' = now /\ client' = client /\ lockeds' = lockeds /\ quote' = quote
      /\ signed' = signed /\ call' = Idle
      /\ \/ late' = late /\ lost' = lost
         \/ /\ call.pc = "request" /\ late' = late \cup {call}
            /\ lost' = IF call.what = "pay" THEN lost \cup {call.with} ELSE lost
  BY DEF Fails, server, user, ServerRests
<1>2. BookInv'
  BY <1>1, ServerAsWas DEF ClientInv, BookInv
<1>3. call'.pc = "idle"
  BY <1>1 DEF Idle
<1>4. CallInv'
  BY <1>1, <1>3 DEF ClientInv, CallInv, IsCall, ServerRests
<1>5. ListInv'
  <2>1. LateAreLost'
    BY <1>1 DEF ClientInv, ListInv, LateAreLost
  <2>2. KnowsHeld => KnowsHeld'
    BY <1>1 DEF KnowsHeld, IsKnown, ServerRests
  <2>3. KnowsCalled' /\ AnswersHeld'
    BY <1>3 DEF KnowsCalled, AnswersHeld
  <2>. QED
    BY <1>1, <2>1, <2>2, <2>3 DEF ClientInv, ListInv
<1>. QED
  BY <1>2, <1>4, <1>5 DEF ClientInv

-----------------------------------------------------------------------------
(* The receipt the browser reads.                                          *)

\* What the bodies of the entries at some places are.
LEMMA BodiesAt ==
    ASSUME NEW list, IsList(list), NEW chosen, chosen \subseteq DOMAIN list
    PROVE  /\ IsList(Bodies(EntriesAt(list, chosen)))
           /\ Entries(Bodies(EntriesAt(list, chosen))) = {list[n].body : n \in chosen}
<1>. DEFINE out == EntriesAt(list, chosen)
            bodies == Bodies(out)
            T == Entries(list)
<1>1. list \in Seq(T)
  BY DEF IsList
<1>2. out \in Seq(T) /\ Entries(out) = {list[n] : n \in chosen}
  <2>. HIDE DEF T
  <2>. QED
    BY <1>1, EntriesAtSelects, EntriesAtAre
<1>3. Len(out) \in Nat /\ DOMAIN out = 1..Len(out)
  BY <1>2, ListEntries
<1>. HIDE DEF out, T
<1>4. bodies = [n \in 1..Len(out) |-> out[n].body]
  BY <1>3 DEF Bodies
<1>. HIDE DEF bodies
<1>5. bodies \in Seq({out[n].body : n \in 1..Len(out)})
  BY <1>3, <1>4
<1>6. Entries(bodies) = {e.body : e \in Entries(out)}
  BY <1>3, <1>4 DEF Entries
<1>7. IsList(bodies)
  BY <1>5, AreList
<1>. QED
  BY <1>2, <1>6, <1>7 DEF bodies, out

LEMMA LockedsAre ==
    ASSUME NEW receipt, IsList(receipt.cheques)
    PROVE  IsList(Lockeds(receipt)) /\ Entries(Lockeds(receipt)) = LockedOf(receipt)
<1>. DEFINE list == receipt.cheques
            chosen == {n \in DOMAIN list : ~list[n].unlocked}
<1>1. Where(list, LAMBDA c : ~c.unlocked) = EntriesAt(list, chosen)
  BY DEF Where, The
<1>2. Lockeds(receipt) = Bodies(EntriesAt(list, chosen))
  BY <1>1 DEF Lockeds
<1>3. LockedOf(receipt) = {list[n].body : n \in chosen} /\ chosen \subseteq DOMAIN list
  BY DEF LockedOf
<1>. HIDE DEF chosen
<1>. QED
  BY <1>2, <1>3, BodiesAt

\* Receipt::apply_timeout leaves the locked cheques that are not expired.
LEMMA UnexpiredAre ==
    ASSUME NEW receipt, IsList(receipt.cheques), NEW at
    PROVE  Range(Unexpired(receipt, at)) = {l \in LockedOf(receipt) : l.timeout > at}
<1>. DEFINE list == Lockeds(receipt)
            chosen == {n \in DOMAIN list : list[n].timeout > at}
            T == Entries(list)
<1>1. Unexpired(receipt, at) = EntriesAt(list, chosen)
  BY DEF Unexpired, Where, The
<1>2. list \in Seq(T) /\ T = LockedOf(receipt)
  BY LockedsAre DEF IsList
<1>3. chosen \subseteq DOMAIN list /\ {list[n] : n \in chosen} = {l \in T : l.timeout > at}
  BY DEF Entries
<1>. HIDE DEF chosen, T, list
<1>4. Entries(EntriesAt(list, chosen)) = {list[n] : n \in chosen}
  BY <1>2, <1>3, EntriesAtAre
<1>5. \A f : Range(f) = Entries(f)
  BY DEF Range, Entries
<1>. QED
  BY <1>1, <1>2, <1>3, <1>4, <1>5

LEMMA TakeReceiptKeeps ==
    ASSUME ClientInv, TakeReceipt
    PROVE  ClientInv'
<1>. DEFINE receipt == call.with
            at == now - Grace
<1>1. /\ ServerRests /\ now' = now /\ client' = client /\ quote' = quote
      /\ late' = late /\ lost' = lost /\ signed' = signed /\ call' = Idle
      /\ call.pc = "answer" /\ call.what = "receipt"
      /\ lockeds' = IF receipt = None THEN lockeds
                    ELSE [locks |-> {l.latch : l \in Range(Unexpired(receipt, at))}]
  BY DEF TakeReceipt, server, ServerRests
<1>2. call'.pc = "idle" /\ now \in Nat /\ at \in Int
  BY <1>1, GraceAssumption DEF Idle, ClientInv, BookInv
<1>3. BookInv' /\ CallInv'
  BY <1>1, <1>2, ServerAsWas DEF ClientInv, CallInv, IsCall, ServerRests
<1>4. ASSUME client = "browser" PROVE KnowsHeld'
  <2>1. KnowsHeld /\ AnswersHeld
    BY <1>4 DEF ClientInv, ListInv
  <2>2. CASE receipt = None
    BY <1>1, <2>1, <2>2 DEF KnowsHeld, IsKnown, ServerRests
  <2>3. CASE receipt # None
    <3>1. IsList(receipt.cheques) /\ HeldOf(record) \subseteq LockedOf(receipt) \cup lost
      BY <1>1, <2>1, <2>3 DEF AnswersHeld
    <3>2. \A l \in HeldOf(record) : l.timeout \in Nat
      BY HeldAccepted DEF ClientInv, BookInv
    <3>3. lockeds' = [locks |-> {l.latch : l \in {m \in LockedOf(receipt) : m.timeout > at}}]
      BY <1>1, <2>3, <3>1, UnexpiredAre
    <3>4. lockeds' # None
      <4>1. "locks" \in DOMAIN lockeds' /\ "locks" \notin DOMAIN None
        BY <3>3 DEF None
      <4>. QED
        BY <4>1
    <3>5. ASSUME NEW l \in HeldOf(record) \ lost PROVE IsKnown(l)'
      <4>1. l \in LockedOf(receipt) /\ l.timeout \in Nat
        BY <3>1, <3>2
      <4>2. l.timeout > at => l.latch \in lockeds'.locks
        BY <3>3, <4>1
      <4>3. l.timeout > at \/ l.timeout <= at
        BY <1>2, <4>1
      <4>. QED
        BY <1>1, <3>4, <4>2, <4>3 DEF IsKnown
    <3>. QED
      BY <1>1, <3>5 DEF KnowsHeld, ServerRests
  <2>. QED
    BY <2>2, <2>3
<1>5. ListInv'
  <2>1. LateAreLost'
    BY <1>1 DEF ClientInv, ListInv, LateAreLost
  <2>2. KnowsCalled' /\ AnswersHeld'
    BY <1>2 DEF KnowsCalled, AnswersHeld
  <2>. QED
    BY <1>1, <1>4, <2>1, <2>2 DEF ListInv
<1>. QED
  BY <1>3, <1>5 DEF ClientInv

-----------------------------------------------------------------------------
(* The invariant, and what it implies.                                     *)

LEMMA ClientInitially == Init => ClientInv
<1>. SUFFICES ASSUME Init PROVE ClientInv
  OBVIOUS
<1>1. /\ record = [retainer |-> record.retainer, receipt |-> None] /\ record.receipt = None
      /\ DOMAIN bln = Secret /\ now = 0 /\ accepted = {} /\ late = {} /\ signed = {}
      /\ call.pc = "idle" /\ quote = None
  BY DEF Init, Idle
<1>2. Numbered({})
  BY FS_EmptySet DEF Numbered, Distinct
<1>3. BookInv
  BY <1>1, <1>2 DEF BookInv, Books
<1>4. CallInv
  BY <1>1 DEF CallInv, IsCall
<1>5. ListInv
  BY <1>1 DEF ListInv, LateAreLost, KnowsHeld, KnowsCalled, AnswersHeld, HeldOf
<1>. QED
  BY <1>3, <1>4, <1>5 DEF ClientInv

LEMMA ClientStep == ClientInv /\ [Next]_vars => ClientInv'
<1>. SUFFICES ASSUME ClientInv, [Next]_vars PROVE ClientInv'
  OBVIOUS
<1>1. CASE ServeCall
  BY <1>1, ServeCallKeeps
<1>2. CASE ServeLate
  BY <1>2, ServeLateKeeps
<1>3. CASE PaidAnswer
  BY <1>3, PaidAnswerKeeps
<1>4. ASSUME NEW secret \in Secret, BlnAnswers(secret) PROVE ClientInv'
  BY <1>4, BlnAnswersKeeps
<1>5. ASSUME NEW secret \in Secret, Unlock(secret) PROVE ClientInv'
  BY <1>5, UnlockKeeps
<1>6. ASSUME NEW secret \in Secret, GetQuote(secret) PROVE ClientInv'
  BY <1>6, GetQuoteKeeps
<1>7. CASE Pay
  BY <1>7, PayKeeps
<1>8. CASE Sync
  BY <1>8, SyncKeeps
<1>9. CASE TakeStatus
  BY <1>9, TakeStatusKeeps
<1>10. CASE TakeReceipt
  BY <1>10, TakeReceiptKeeps
<1>11. CASE TakeFailure
  BY <1>11, TakeFailureKeeps
<1>12. CASE Tick
  BY <1>12, TickKeeps
<1>13. CASE Fails
  BY <1>13, FailsKeeps
<1>14. CASE UNCHANGED vars
  <2>1. /\ ServerRests /\ now' = now /\ client' = client /\ lockeds' = lockeds
        /\ late' = late /\ lost' = lost /\ signed' = signed /\ call' = call /\ quote' = quote
    BY <1>14 DEF vars, ServerRests
  <2>. QED
    BY <2>1, CallDropped DEF ClientInv, CallInv
<1>. QED
  BY <1>1, <1>2, <1>3, <1>4, <1>5, <1>6, <1>7, <1>8, <1>9, <1>10, <1>11, <1>12, <1>13, <1>14
  DEF Next

LEMMA ClientAlways == Spec => []ClientInv
  BY ClientInitially, ClientStep, PTL DEF Spec

\* A squash the client signs is worth the cheques it covers that the server
\* accepted and whose payments settled (l2::Client::sync against the server's
\* squash handler), whichever calls are lost, made again or served late: the
\* consumer never signs for a payment that failed or is still on its way.
THEOREM SquashesAreOwedAlways == Spec => []SquashesAreOwed
<1>1. ClientInv => SquashesAreOwed
  <2>. SUFFICES ASSUME ClientInv, NEW squash \in signed
                PROVE  squash.amount =
                          Total({c \in accepted : /\ IsIndexSquashed(squash, c.index)
                                                  /\ bln[c.latch[2]] = "settled"})
    BY DEF SquashesAreOwed
  <2>1. OwedIn(squash, accepted, bln)
    BY DEF ClientInv, CallInv
  <2>2. CoveredOf(squash, accepted) = {c \in accepted : /\ IsIndexSquashed(squash, c.index)
                                                        /\ bln[c.latch[2]] = "settled"}
    BY <2>1 DEF OwedIn, AreSettled, CoveredOf
  <2>3. squash.amount = Total(CoveredOf(squash, accepted))
    BY <2>1 DEF OwedIn, PaysFor
  <2>. QED
    BY <2>2, <2>3
<1>. QED
  BY <1>1, ClientAlways, PTL

\* The browser's list holds the lock of every cheque the server holds locked
\* (Konduit::pay adds it before the call, Lockeds is replaced from a receipt),
\* but of those it gave up before they arrived and those that expired.
THEOREM ListHoldsLockedAlways == Spec => []ListHoldsLocked
<1>1. ClientInv => ListHoldsLocked
  <2>. SUFFICES ASSUME ClientInv, client = "browser", record.receipt # None,
                       NEW l \in Range(Lockeds(record.receipt)) \ lost
                PROVE  (lockeds # None /\ l.latch \in lockeds.locks) \/ l.timeout <= now - Grace
    BY DEF ListHoldsLocked, HasReceipt, Receipt
  <2>1. Numbered(accepted) /\ Accounts(record.receipt, accepted)
    BY DEF ClientInv, BookInv, Books, Holds
  <2>2. IsList(record.receipt.cheques)
    BY <2>1, AccountsIs, AreList
  <2>3. \A f : Range(f) = Entries(f)
    BY DEF Range, Entries
  <2>4. l \in HeldOf(record) \ lost
    BY <2>2, <2>3, LockedsAre DEF HeldOf
  <2>. QED
    BY <2>4 DEF ClientInv, ListInv, KnowsHeld, IsKnown
<1>. QED
  BY <1>1, ClientAlways, PTL
=============================================================================
