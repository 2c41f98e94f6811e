----------------------- MODULE KonduitChannel_proofs -----------------------
(***************************************************************************)
(* Proofs about one channel on the ledger, for every set of offers, every  *)
(* close period and every bound: its invariants, what its steps may not    *)
(* do, and that it implements KonduitPromise.                              *)
(***************************************************************************)
EXTENDS KonduitChannel, KonduitKernel_proofs, TLAPS

USE OffersAssumption, BoundsAssumption, ClosePeriodAssumption, MinAdaBufferAssumption

-----------------------------------------------------------------------------
(* The sets the outputs of a transaction are taken from.                   *)

\* A list of the instance with entries of T is a sequence over T.
LEMMA ListsAreSequences ==
    ASSUME NEW S, NEW T, S \subseteq T, NEW list \in ListsOf(S)
    PROVE  list \in Seq(T)
<1>1. PICK n \in 0..MaxList : list \in [1..n -> S]
  BY DEF ListsOf
<1>2. list \in [1..n -> T]
  BY <1>1
<1>. QED
  BY <1>2

\* The interval of a transaction contains the clock.
LEMMA IntervalHoldsClock ==
    ASSUME TypeOK, NEW interval \in Interval
    PROVE  /\ interval.lower \in Nat /\ interval.upper \in Nat
           /\ interval.lower <= now /\ now <= interval.upper
  BY DEF TypeOK, Interval

\* The entries of the pendings are pendings.
LEMMA EntriesArePendings ==
    ASSUME TypeOK, utxo.stage = "Responded"
    PROVE  /\ utxo \in Responded
           /\ Entries(utxo.pends) \subseteq Pending
<1>1. utxo \in Responded
  BY DEF TypeOK, Opened, Closed, Responded, Spent
<1>2. utxo.pends \in Seq(Pending)
  BY <1>1 DEF Responded
<1>. QED
  BY <1>1, <1>2 DEF Entries

\* The stage each transaction leads to.
LEMMA StagesLedTo ==
    /\ SubTx => utxo'.stage = "Opened"
    /\ RespondTx \/ UnlockTx \/ ExpireTx => utxo'.stage = "Responded"
<1>1. ASSUME NEW interval, NEW squash, NEW useds, NEW unlockeds, NEW subbed, NEW amount,
             Sub(interval, squash, useds, unlockeds, subbed, amount)
      PROVE  utxo'.stage = "Opened"
  BY <1>1 DEF Sub, ByProvider
<1>2. ASSUME NEW interval, NEW squash, NEW list, NEW pends, NEW pendsAmount, NEW amount,
             Respond(interval, squash, list, pends, pendsAmount, amount)
      PROVE  utxo'.stage = "Responded"
  BY <1>2 DEF Respond, ByProvider
<1>3. ASSUME NEW interval, NEW unpends, NEW pends, NEW pendsAmount, NEW amount,
             Unlock(interval, unpends, pends, pendsAmount, amount)
                \/ Expire(interval, unpends, pends, pendsAmount, amount)
      PROVE  utxo'.stage = "Responded"
  BY <1>3 DEF Unlock, Expire, ByProvider, ByConsumer
<1>4. SubTx => utxo'.stage = "Opened"
  BY <1>1 DEF SubTx
<1>5. RespondTx => utxo'.stage = "Responded"
  BY <1>2 DEF RespondTx
<1>6. UnlockTx \/ ExpireTx => utxo'.stage = "Responded"
  BY <1>3 DEF UnlockTx, ExpireTx
<1>. QED
  BY <1>4, <1>5, <1>6

-----------------------------------------------------------------------------
(* Type correctness, one lemma per transaction.                            *)

LEMMA SubTypes == ASSUME TypeOK, SubTx PROVE TypeOK'
<1>1. PICK interval \in Interval, squash \in squashes, amount \in Amounts,
           useds \in AscendingLists({UsedOf(c) : c \in cheques}, LAMBDA u : u.index),
           unlockeds \in AscendingLists({WithSecret(c) : c \in Unlocked}, LAMBDA c : c.index) :
           \E subbed \in Subbeds(amount) :
              Sub(interval, squash, useds, unlockeds, subbed, amount)
  BY DEF SubTx
<1>a. PICK subbed \in Subbeds(amount) : Sub(interval, squash, useds, unlockeds, subbed, amount)
  BY <1>1
<1>2. utxo \in Opened
  BY <1>a DEF Sub, TypeOK, Opened, Closed, Responded, Spent
<1>3. {UsedOf(c) : c \in cheques} \subseteq Used
  BY DEF TypeOK, ChequeBody, UsedOf, Used
<1>4. useds \in Seq(Used)
  <2>1. useds \in ListsOf({UsedOf(c) : c \in cheques})
    BY <1>a DEF AscendingLists
  <2>. QED
    BY <2>1, <1>3, ListsAreSequences
<1>5. amount \in Nat /\ subbed \in Int
  BY <1>a, <1>2 DEF Amounts, Subbeds, Opened
<1>6. utxo' \in Opened /\ taken' \in Int
  BY <1>a, <1>2, <1>4, <1>5 DEF Sub, ByProvider, Opened, TypeOK
<1>. QED
  BY <1>a, <1>6 DEF Sub, ByProvider, evidence, TypeOK, Unlocked

LEMMA CloseTypes == ASSUME TypeOK, CloseTx PROVE TypeOK'
<1>1. PICK interval \in Interval, amount \in Amounts, elapseAt \in 0..MaxTime :
           Close(interval, amount, elapseAt)
  BY DEF CloseTx
<1>2. utxo \in Opened
  BY <1>1 DEF Close, TypeOK, Opened, Closed, Responded, Spent
<1>3. utxo' \in Closed
  BY <1>1, <1>2 DEF Close, ByConsumer, Opened, Closed, Amounts
<1>. QED
  BY <1>1, <1>3 DEF Close, ByConsumer, evidence, TypeOK, Unlocked

LEMMA RespondTypes == ASSUME TypeOK, RespondTx PROVE TypeOK'
<1>1. PICK interval \in Interval, squash \in squashes, amount \in Amounts, list \in ChequeList :
           \E pends \in LockedPends(list) : \E pendsAmount \in Totals(pends) :
              Respond(interval, squash, list, pends, pendsAmount, amount)
  BY DEF RespondTx
<1>a. PICK pends \in LockedPends(list) : \E pendsAmount \in Totals(pends) :
           Respond(interval, squash, list, pends, pendsAmount, amount)
  BY <1>1
<1>b. PICK pendsAmount \in Totals(pends) :
           Respond(interval, squash, list, pends, pendsAmount, amount)
  BY <1>a
<1>2. utxo \in Closed
  BY <1>b DEF Respond, TypeOK, Opened, Closed, Responded, Spent
<1>3. pends \in Seq(Pending) /\ pendsAmount \in Int /\ amount \in Nat
  BY <1>b DEF LockedPends, Totals, Amounts
<1>4. utxo' \in Responded /\ taken' \in Int
  BY <1>b, <1>2, <1>3 DEF Respond, ByProvider, Responded, Closed, TypeOK
<1>. QED
  BY <1>b, <1>4 DEF Respond, ByProvider, evidence, TypeOK, Unlocked

LEMMA UnlockTypes == ASSUME TypeOK, UnlockTx PROVE TypeOK'
<1>1. PICK interval \in Interval, amount \in Amounts, pends \in ListsOf(Entries(utxo.pends)),
           unpends \in ListsOf({Keep} \cup revealed) :
           \E pendsAmount \in Totals(pends) :
              Unlock(interval, unpends, pends, pendsAmount, amount)
  BY DEF UnlockTx
<1>a. PICK pendsAmount \in Totals(pends) :
           Unlock(interval, unpends, pends, pendsAmount, amount)
  BY <1>1
<1>2. utxo \in Responded /\ Entries(utxo.pends) \subseteq Pending
  BY <1>a, EntriesArePendings DEF Unlock
<1>3. pends \in Seq(Pending) /\ pendsAmount \in Int /\ amount \in Nat
  BY <1>a, <1>2, ListsAreSequences DEF Totals, Amounts
<1>4. utxo' \in Responded /\ taken' \in Int
  BY <1>a, <1>2, <1>3 DEF Unlock, ByProvider, Responded, TypeOK
<1>. QED
  BY <1>a, <1>4 DEF Unlock, ByProvider, evidence, TypeOK, Unlocked

LEMMA ExpireTypes == ASSUME TypeOK, ExpireTx PROVE TypeOK'
<1>1. PICK interval \in Interval, amount \in Amounts, pends \in ListsOf(Entries(utxo.pends)),
           unpends \in ListsOf({Keep, Expired}) :
           \E pendsAmount \in Totals(pends) :
              Expire(interval, unpends, pends, pendsAmount, amount)
  BY DEF ExpireTx
<1>a. PICK pendsAmount \in Totals(pends) :
           Expire(interval, unpends, pends, pendsAmount, amount)
  BY <1>1
<1>2. utxo \in Responded /\ Entries(utxo.pends) \subseteq Pending
  BY <1>a, EntriesArePendings DEF Expire
<1>3. pends \in Seq(Pending) /\ pendsAmount \in Int /\ amount \in Nat
  BY <1>a, <1>2, ListsAreSequences DEF Totals, Amounts
<1>4. utxo' \in Responded
  BY <1>a, <1>2, <1>3 DEF Expire, ByConsumer, Responded
<1>. QED
  BY <1>a, <1>4 DEF Expire, ByConsumer, evidence, TypeOK, Unlocked

LEMMA AddTypes == ASSUME TypeOK, NEW amount \in Amounts, Add(amount) PROVE TypeOK'
<1>1. utxo \in Opened
  BY DEF Add, TypeOK, Opened, Closed, Responded, Spent
<1>2. utxo' \in Opened
  BY <1>1 DEF Add, ByConsumer, Opened, Amounts
<1>. QED
  BY <1>2 DEF Add, ByConsumer, evidence, TypeOK, Unlocked

LEMMA EvidenceTypes ==
    ASSUME TypeOK
    PROVE  /\ \A c \in Offers : SignCheque(c) => TypeOK'
           /\ \A s \in Secret : Reveal(s) => TypeOK'
           /\ \A S \in SUBSET Unlocked : SignSquash(S) => TypeOK'
<1>1. ASSUME NEW c \in Offers, SignCheque(c) PROVE TypeOK'
  <2>1. Unlocked \subseteq Unlocked'
    BY <1>1 DEF SignCheque, Unlocked
  <2>. QED
    BY <1>1, <2>1 DEF SignCheque, ledger, TypeOK
<1>2. ASSUME NEW s \in Secret, Reveal(s) PROVE TypeOK'
  <2>1. Unlocked \subseteq Unlocked'
    BY <1>2 DEF Reveal, Unlocked
  <2>. QED
    BY <1>2, <2>1 DEF Reveal, ledger, TypeOK
<1>3. ASSUME NEW S \in SUBSET Unlocked, SignSquash(S) PROVE TypeOK'
  BY <1>3 DEF SignSquash, ledger, TypeOK, Unlocked
<1>. QED
  BY <1>1, <1>2, <1>3

LEMMA InitTypes == Init => TypeOK
<1>. SUFFICES ASSUME Init PROVE TypeOK
  OBVIOUS
<1>1. <<>> \in Seq(Used)
  OBVIOUS
<1>2. PICK amount \in Amounts :
           utxo = [stage |-> "Opened", amount |-> amount, subbed |-> 0, useds |-> <<>>]
  BY DEF Init
<1>3. utxo \in Opened
  BY <1>1, <1>2 DEF Opened, Amounts
<1>. QED
  BY <1>3 DEF Init, TypeOK, Unlocked

LEMMA NextTypes == TypeOK /\ [Next]_vars => TypeOK'
<1>. SUFFICES ASSUME TypeOK, [Next]_vars PROVE TypeOK'
  OBVIOUS
<1>1. CASE Tick
  BY <1>1 DEF Tick, ledger, evidence, TypeOK, Unlocked
<1>2. CASE \E c \in Offers : SignCheque(c)
  BY <1>2, EvidenceTypes
<1>3. CASE \E s \in Secret : Reveal(s)
  BY <1>3, EvidenceTypes
<1>4. CASE \E S \in SUBSET Unlocked : SignSquash(S)
  BY <1>4, EvidenceTypes
<1>5. CASE \E amount \in Amounts : Add(amount)
  BY <1>5, AddTypes
<1>6. CASE SubTx
  BY <1>6, SubTypes
<1>7. CASE CloseTx
  BY <1>7, CloseTypes
<1>8. CASE RespondTx
  BY <1>8, RespondTypes
<1>9. CASE UnlockTx
  BY <1>9, UnlockTypes
<1>10. CASE ExpireTx
  BY <1>10, ExpireTypes
<1>11. CASE \E interval \in Interval : Elapse(interval) \/ End(interval)
  BY <1>11 DEF Elapse, End, ByConsumer, Spent, evidence, TypeOK, Unlocked
<1>12. CASE Mutual
  BY <1>12 DEF Mutual, Spent, evidence, TypeOK, Unlocked
<1>13. CASE UNCHANGED vars
  BY <1>13 DEF vars, TypeOK, Unlocked
<1>. QED
  BY <1>1, <1>2, <1>3, <1>4, <1>5, <1>6, <1>7, <1>8, <1>9, <1>10, <1>11, <1>12, <1>13
     DEF Next

(* Whatever the transactions, the state keeps its shape; in particular every
   squash in circulation covers only cheques whose secrets are known. *)
THEOREM TypeCorrect == Spec => []TypeOK
<1>1. Init => TypeOK
  BY InitTypes
<1>2. TypeOK /\ [Next]_vars => TypeOK'
  BY NextTypes
<1>. QED
  BY <1>1, <1>2, PTL DEF Spec

-----------------------------------------------------------------------------
(* Funds: what the datum says was withdrawn, and what the channel holds.   *)

FundsInv == TypeOK /\ SubbedIsTaken

LEMMA SubRecords == ASSUME TypeOK, SubbedIsTaken, SubTx PROVE SubbedIsTaken'
<1>1. PICK interval \in Interval, squash \in squashes, amount \in Amounts,
           useds \in AscendingLists({UsedOf(c) : c \in cheques}, LAMBDA u : u.index),
           unlockeds \in AscendingLists({WithSecret(c) : c \in Unlocked}, LAMBDA c : c.index) :
           \E subbed \in Subbeds(amount) :
              Sub(interval, squash, useds, unlockeds, subbed, amount)
  BY DEF SubTx
<1>2. PICK subbed \in Subbeds(amount) : Sub(interval, squash, useds, unlockeds, subbed, amount)
  BY <1>1
<1>3. utxo \in Opened
  BY <1>2 DEF Sub, TypeOK, Opened, Closed, Responded, Spent
<1>4. utxo'.subbed - utxo.subbed = utxo.amount - utxo'.amount
  BY <1>2 DEF Sub, SubStep, RecordsWithdrawal, ByProvider
<1>5. taken' = taken + utxo.amount - utxo'.amount
  BY <1>2 DEF Sub, ByProvider
<1>6. utxo' \in Opened \cup Closed \cup Responded \cup Spent /\ utxo'.stage = "Opened"
  BY <1>2, SubTypes DEF Sub, ByProvider, TypeOK
<1>7. utxo'.subbed \in Int /\ utxo'.amount \in Nat
  BY <1>6 DEF Opened, Closed, Responded, Spent
<1>8. utxo.subbed = taken /\ taken \in Int /\ utxo.amount \in Nat
  BY <1>3 DEF SubbedIsTaken, Opened, TypeOK
<1>9. utxo'.subbed = taken'
  BY <1>4, <1>5, <1>7, <1>8
<1>. QED
  BY <1>9 DEF SubbedIsTaken

LEMMA NextRecords == FundsInv /\ [Next]_vars => SubbedIsTaken'
<1>. SUFFICES ASSUME TypeOK, SubbedIsTaken, [Next]_vars PROVE SubbedIsTaken'
  BY DEF FundsInv
<1>1. CASE SubTx
  BY <1>1, SubRecords
<1>2. CASE \E amount \in Amounts : Add(amount)
  <2>1. PICK amount \in Amounts : Add(amount)
    BY <1>2
  <2>2. utxo \in Opened
    BY <2>1 DEF Add, TypeOK, Opened, Closed, Responded, Spent
  <2>. QED
    BY <2>1, <2>2 DEF Add, ByConsumer, SubbedIsTaken, Opened
<1>3. CASE CloseTx
  BY <1>3 DEF CloseTx, Close, ByConsumer, SubbedIsTaken
<1>4. CASE RespondTx \/ UnlockTx \/ ExpireTx
  <2>1. utxo'.stage = "Responded"
    BY <1>4, StagesLedTo
  <2>. QED
    BY <2>1 DEF SubbedIsTaken
<1>5. CASE (\E interval \in Interval : Elapse(interval) \/ End(interval)) \/ Mutual
  <2>1. utxo'.stage = "Spent"
    BY <1>5 DEF Elapse, End, Mutual, ByConsumer
  <2>. QED
    BY <2>1 DEF SubbedIsTaken
<1>6. CASE UNCHANGED <<utxo, taken>>
  BY <1>6 DEF SubbedIsTaken
<1>7. CASE Tick \/ (\E c \in Offers : SignCheque(c)) \/ (\E s \in Secret : Reveal(s))
           \/ (\E S \in SUBSET Unlocked : SignSquash(S))
  BY <1>6, <1>7 DEF Tick, SignCheque, Reveal, SignSquash, ledger
<1>. QED
  BY <1>1, <1>2, <1>3, <1>4, <1>5, <1>6, <1>7 DEF Next, vars

(* The datum of an open or closed channel records exactly what the provider
   took out of it (sub.do and close.do carry the total along). *)
THEOREM SubbedRecordsTaken == Spec => []SubbedIsTaken
<1>1. Init => FundsInv
  BY InitTypes DEF FundsInv, Init, SubbedIsTaken
<1>2. FundsInv /\ [Next]_vars => FundsInv'
  BY NextTypes, NextRecords DEF FundsInv
<1>3. FundsInv => SubbedIsTaken
  BY DEF FundsInv
<1>. QED
  BY <1>1, <1>2, <1>3, PTL DEF Spec

LEMMA UnlockCovers == ASSUME TypeOK, UnlockTx PROVE PendingsCovered
<1>1. PICK interval \in Interval, amount \in Amounts, pends \in ListsOf(Entries(utxo.pends)),
           unpends \in ListsOf({Keep} \cup revealed) :
           \E pendsAmount \in Totals(pends) :
              Unlock(interval, unpends, pends, pendsAmount, amount)
  BY DEF UnlockTx
<1>2. PICK pendsAmount \in Totals(pends) :
           Unlock(interval, unpends, pends, pendsAmount, amount)
  BY <1>1
<1>3. utxo \in Responded
  BY <1>2, EntriesArePendings DEF Unlock
<1>4. utxo'.amount = amount /\ utxo'.pendsAmount = pendsAmount
  BY <1>2 DEF Unlock, ByProvider
<1>5. amount \in Nat /\ pendsAmount \in Int
  BY DEF Amounts, Totals
\* The unlocked total is the drop of pends_amount and bounds the drop of funds.
<1>6. utxo.pendsAmount - pendsAmount >= utxo.amount - amount
  BY <1>2 DEF Unlock, UnlockStep
<1>. QED
  BY <1>3, <1>4, <1>5, <1>6 DEF PendingsCovered, Responded

LEMMA ExpireCovers == ASSUME TypeOK, ExpireTx PROVE PendingsCovered
<1>1. PICK interval \in Interval, amount \in Amounts, pends \in ListsOf(Entries(utxo.pends)),
           unpends \in ListsOf({Keep, Expired}) :
           \E pendsAmount \in Totals(pends) :
              Expire(interval, unpends, pends, pendsAmount, amount)
  BY DEF ExpireTx
<1>2. PICK pendsAmount \in Totals(pends) :
           Expire(interval, unpends, pends, pendsAmount, amount)
  BY <1>1
<1>3. utxo'.amount = amount /\ utxo'.pendsAmount = pendsAmount
  BY <1>2 DEF Expire, ByConsumer
<1>4. amount >= pendsAmount + MinAdaBuffer
  BY <1>2 DEF Expire, ExpireStep, CoversPendings
<1>. QED
  BY <1>3, <1>4 DEF PendingsCovered, Amounts, Totals

(* A responded channel that covers its pendings goes on covering them: an
   Unlock takes out no more than it settles, an Expire leaves the rest. *)
THEOREM PendingsRemainFunded == Spec => PendingsStayFunded
<1>1. TypeOK /\ [Next]_vars => [PendingsCovered]_vars
  <2>. SUFFICES ASSUME TypeOK, [Next]_vars, ~UNCHANGED vars PROVE PendingsCovered
    OBVIOUS
  <2>1. CASE UnlockTx
    BY <2>1, UnlockCovers
  <2>2. CASE ExpireTx
    BY <2>2, ExpireCovers
  <2>3. CASE utxo.stage # "Responded" \/ utxo'.stage # "Responded"
    BY <2>3 DEF PendingsCovered
  <2>4. CASE UNCHANGED utxo
    BY <2>4 DEF PendingsCovered
  <2>5. CASE Tick \/ (\E c \in Offers : SignCheque(c)) \/ (\E s \in Secret : Reveal(s))
             \/ (\E S \in SUBSET Unlocked : SignSquash(S))
    BY <2>4, <2>5 DEF Tick, SignCheque, Reveal, SignSquash, ledger
  <2>6. CASE (\E amount \in Amounts : Add(amount)) \/ SubTx \/ CloseTx \/ RespondTx
    BY <2>3, <2>6 DEF Add, SubTx, Sub, CloseTx, Close, RespondTx, Respond
  <2>7. CASE (\E interval \in Interval : Elapse(interval) \/ End(interval)) \/ Mutual
    BY <2>3, <2>7 DEF Elapse, End, Mutual, ByConsumer
  <2>. QED
    BY <2>1, <2>2, <2>4, <2>5, <2>6, <2>7 DEF Next
<1>. QED
  BY <1>1, TypeCorrect, PTL DEF Spec, PendingsStayFunded

-----------------------------------------------------------------------------
(* Time: the response window.                                              *)

\* A closed channel elapses no sooner than the close period after its Close.
WindowOpen == utxo.stage = "Closed" => utxo.elapseAt >= closedAt + ClosePeriod

LEMMA CloseOpensWindow == ASSUME TypeOK, CloseTx PROVE WindowOpen'
<1>1. PICK interval \in Interval, amount \in Amounts, elapseAt \in 0..MaxTime :
           Close(interval, amount, elapseAt)
  BY DEF CloseTx
<1>2. interval.upper <= elapseAt - ClosePeriod
  BY <1>1 DEF Close, CloseStep, LeavesPeriod
<1>3. interval.upper \in Nat /\ now <= interval.upper /\ now \in Nat
  BY IntervalHoldsClock DEF TypeOK
<1>. QED
  BY <1>1, <1>2, <1>3 DEF Close, ByConsumer, WindowOpen

LEMMA NextWindow == TypeOK /\ WindowOpen /\ [Next]_vars => WindowOpen'
<1>. SUFFICES ASSUME TypeOK, WindowOpen, [Next]_vars PROVE WindowOpen'
  OBVIOUS
<1>1. CASE CloseTx
  BY <1>1, CloseOpensWindow
<1>2. CASE UNCHANGED <<utxo, closedAt>>
  BY <1>2 DEF WindowOpen
<1>3. CASE Tick \/ (\E c \in Offers : SignCheque(c)) \/ (\E s \in Secret : Reveal(s))
           \/ (\E S \in SUBSET Unlocked : SignSquash(S))
  BY <1>2, <1>3 DEF Tick, SignCheque, Reveal, SignSquash, ledger
<1>4. CASE utxo'.stage # "Closed"
  BY <1>4 DEF WindowOpen
<1>5. CASE \E amount \in Amounts : Add(amount)
  <2>1. utxo \in Opened
    BY <1>5 DEF Add, TypeOK, Opened, Closed, Responded, Spent
  <2>2. utxo'.stage = "Opened"
    BY <2>1, <1>5 DEF Add, ByConsumer, Opened
  <2>. QED
    BY <2>2, <1>4
<1>6. CASE SubTx \/ RespondTx \/ UnlockTx \/ ExpireTx
  BY <1>4, <1>6, StagesLedTo
<1>7. CASE (\E interval \in Interval : Elapse(interval) \/ End(interval)) \/ Mutual
  BY <1>4, <1>7 DEF Elapse, End, Mutual, ByConsumer
<1>8. CASE UNCHANGED vars
  BY <1>2, <1>8 DEF vars
<1>. QED
  BY <1>1, <1>3, <1>5, <1>6, <1>7, <1>8 DEF Next

(* The consumer cannot take the channel back before the provider had the
   whole close period to respond, however wide the validity intervals of the
   Close and of the Elapse. *)
THEOREM WindowIsKept == Spec => ResponseWindow
<1>1. Init => WindowOpen
  BY DEF Init, WindowOpen
<1>2. TypeOK /\ WindowOpen /\ [Next]_vars => [ElapseWaits]_vars
  <2>. SUFFICES ASSUME TypeOK, WindowOpen, [Next]_vars,
                       utxo.stage = "Closed", utxo'.stage = "Spent", utxo'.by = "Elapse"
                PROVE  now >= closedAt + ClosePeriod
    BY DEF ElapseWaits
  <2>1. utxo \in Closed
    BY DEF TypeOK, Opened, Closed, Responded, Spent
  <2>a. ~UNCHANGED utxo
    OBVIOUS
  <2>b. ~Tick /\ ~(\E c \in Offers : SignCheque(c)) /\ ~(\E s \in Secret : Reveal(s))
        /\ ~(\E S \in SUBSET Unlocked : SignSquash(S)) /\ ~UNCHANGED vars
    BY <2>a DEF Tick, SignCheque, Reveal, SignSquash, ledger, vars
  <2>c. ~(\E amount \in Amounts : Add(amount)) /\ ~SubTx /\ ~CloseTx /\ ~UnlockTx /\ ~ExpireTx
    BY DEF Add, SubTx, CloseTx, Close, UnlockTx, ExpireTx
  <2>d. ~RespondTx
    BY StagesLedTo
  <2>e. ~Mutual /\ ~(\E interval \in Interval : End(interval))
    BY DEF Mutual, End, ByConsumer
  <2>2. PICK interval \in Interval : Elapse(interval)
    BY <2>b, <2>c, <2>d, <2>e DEF Next
  <2>3. utxo.elapseAt <= interval.lower /\ interval.lower <= now
    BY <2>2, IntervalHoldsClock DEF Elapse, ElapseStep
  <2>. QED
    BY <2>1, <2>3, IntervalHoldsClock DEF WindowOpen, Closed, TypeOK
<1>. QED
  BY <1>1, <1>2, NextWindow, TypeCorrect, PTL DEF Spec, ResponseWindow

-----------------------------------------------------------------------------
(* What the provider can be owed.  A Sub is checked against the useds of   *)
(* the datum it spends, so the bound on what is taken is inductive only    *)
(* together with where those useds came from: cheques that were earned.    *)

UsedsEarned ==
    utxo.stage \in {"Opened", "Closed"} => utxo.useds \in Seq(UsedsOf(Unlocked))
OwedInv == FundsInv /\ Distinct(cheques) /\ UsedsEarned /\ NeverOverpaid

LEMMA UnlockedDistinct ==
    ASSUME NEW E, Distinct(E), NEW C \in SUBSET E
    PROVE  Distinct(C)
  BY FS_Subset DEF Distinct

\* What the provider can show is an earned cheque with its secret.
LEMMA ShownIsEarned ==
    ASSUME TypeOK, NEW signed, NEW upper
    PROVE  VouchedFor(signed, upper, Unlocked, {WithSecret(c) : c \in Unlocked})
<1>1. ASSUME NEW c \in Unlocked, NEW used, Vouches(signed, upper, WithSecret(c), used)
      PROVE  used \in UsedsOf(Unlocked)
  <2>1. c \in ChequeBody
    BY DEF TypeOK, Unlocked
  <2>2. WithSecret(c).index = c.index /\ WithSecret(c).amount = c.amount
    BY <2>1 DEF WithSecret, ChequeBody
  <2>3. used = UsedOf(c)
    BY <1>1, <2>2 DEF Vouches, UsedOf
  <2>. QED
    BY <2>3 DEF UsedsOf
<1>. QED
  BY <1>1 DEF VouchedFor

LEMMA SubIsOwed ==
    ASSUME OwedInv, SubTx
    PROVE  UsedsEarned' /\ NeverOverpaid' /\ UNCHANGED cheques
<1>1. PICK interval \in Interval, squash \in squashes, amount \in Amounts,
           useds \in AscendingLists({UsedOf(c) : c \in cheques}, LAMBDA u : u.index),
           unlockeds \in AscendingLists({WithSecret(c) : c \in Unlocked}, LAMBDA c : c.index) :
           \E subbed \in Subbeds(amount) :
              Sub(interval, squash, useds, unlockeds, subbed, amount)
  BY DEF SubTx
<1>2. PICK subbed \in Subbeds(amount) : Sub(interval, squash, useds, unlockeds, subbed, amount)
  BY <1>1
<1>. DEFINE E == Unlocked
            U == {WithSecret(c) : c \in Unlocked}
            account == SubAccount(Signed, interval.upper, utxo.useds, useds, squash, unlockeds)
<1>3. TypeOK /\ SubbedIsTaken /\ utxo.stage = "Opened" /\ utxo \in Opened
  BY <1>2 DEF OwedInv, FundsInv, Sub, TypeOK, Opened, Closed, Responded, Spent
<1>4. Distinct(E)
  BY UnlockedDistinct DEF OwedInv, Unlocked
<1>5. VouchedFor(Signed, interval.upper, E, U)
  BY <1>3, ShownIsEarned
<1>6. utxo.useds \in Seq(UsedsOf(E))
  BY <1>3 DEF OwedInv, UsedsEarned
<1>7. useds \in Seq([index : Nat, amount : Nat])
  <2>1. {UsedOf(c) : c \in cheques} \subseteq [index : Nat, amount : Nat]
    BY <1>3 DEF TypeOK, ChequeBody, UsedOf, Index
  <2>2. useds \in ListsOf({UsedOf(c) : c \in cheques})
    BY <1>2 DEF AscendingLists
  <2>. QED
    BY <2>1, <2>2, ListsAreSequences
<1>8. unlockeds \in Seq(U)
  <2>1. unlockeds \in ListsOf(U)
    BY <1>2 DEF AscendingLists
  <2>. QED
    BY <2>1, ListsAreSequences
<1>9. PICK S \in SUBSET E : squash = SquashOf(S)
  BY <1>2, <1>3 DEF TypeOK
<1>10. account.ok /\ utxo'.subbed <= account.owed /\ utxo'.useds = useds /\ utxo'.stage = "Opened"
       /\ UNCHANGED <<cheques, revealed>>
  BY <1>2 DEF Sub, SubStep, ByProvider, evidence
<1>. HIDE DEF E, U
<1>11. account.owed \in 0..Total(E) /\ useds \in Seq(UsedsOf(E))
  BY <1>4, <1>5, <1>6, <1>7, <1>8, <1>9, <1>10, SubOwesEarned
<1>12. Unlocked' = E
  BY <1>10 DEF Unlocked, E
<1>13. UsedsEarned'
  BY <1>10, <1>11, <1>12 DEF UsedsEarned
<1>14. NeverOverpaid'
  <2>1. utxo'.subbed = taken'
    BY <1>3, <1>10, SubRecords DEF SubbedIsTaken
  <2>2. taken' \in Int /\ Total(E) \in Nat
    BY <1>3, <1>4, SubTypes, TotalAdds DEF TypeOK
  <2>3. taken' <= Total(E)
    BY <1>10, <1>11, <2>1, <2>2
  <2>. QED
    BY <1>12, <2>3 DEF NeverOverpaid
<1>. QED
  BY <1>10, <1>13, <1>14

\* While evidence is gathered, nothing earned is lost.
LEMMA EvidenceIsOwed ==
    ASSUME OwedInv,
           \/ \E c \in Offers : SignCheque(c)
           \/ \E s \in Secret : Reveal(s)
           \/ \E S \in SUBSET Unlocked : SignSquash(S)
    PROVE  Distinct(cheques)' /\ UsedsEarned' /\ NeverOverpaid'
<1>1. UNCHANGED <<utxo, taken>> /\ Unlocked \subseteq Unlocked'
  BY DEF SignCheque, Reveal, SignSquash, ledger, Unlocked
<1>2. Distinct(cheques')
  <2>1. CASE UNCHANGED cheques
    BY <2>1 DEF OwedInv
  <2>2. CASE \E c \in Offers : SignCheque(c)
    <3>1. PICK c \in Offers : SignCheque(c)
      BY <2>2
    <3>2. cheques' = cheques \cup {c} /\ \A d \in cheques : d.index < c.index
      BY <3>1 DEF SignCheque
    <3>3. c.index \in Nat /\ c.amount \in Nat
      BY <3>1 DEF ChequeBody, Index
    <3>4. IsFiniteSet(cheques')
      BY <3>2, FS_AddElement DEF OwedInv, Distinct
    <3>5. \A d \in cheques : d.index \in Nat /\ d.index # c.index
      BY <3>2, <3>3 DEF OwedInv, Distinct
    <3>. QED
      BY <3>2, <3>3, <3>4, <3>5 DEF OwedInv, Distinct
  <2>. QED
    BY <2>1, <2>2 DEF Reveal, SignSquash
<1>3. UsedsEarned'
  <2>1. UsedsOf(Unlocked) \subseteq UsedsOf(Unlocked')
    BY <1>1 DEF UsedsOf
  <2>. HIDE DEF UsedsOf
  <2>. QED
    BY <1>1, <2>1 DEF OwedInv, UsedsEarned
<1>4. NeverOverpaid'
  <2>1. Distinct(Unlocked')
    BY <1>2, UnlockedDistinct DEF Unlocked
  <2>2. Total(Unlocked) <= Total(Unlocked') /\ Total(Unlocked) \in Nat
    BY <1>1, <2>1, TotalAdds
  <2>3. Total(Unlocked') \in Nat
    BY <2>1, TotalAdds
  <2>. QED
    BY <1>1, <2>2, <2>3 DEF OwedInv, FundsInv, TypeOK, NeverOverpaid
<1>. QED
  BY <1>2, <1>3, <1>4

LEMMA NextOwed == OwedInv /\ [Next]_vars => OwedInv'
<1>. SUFFICES ASSUME OwedInv, [Next]_vars PROVE OwedInv'
  OBVIOUS
<1>1. FundsInv /\ FundsInv'
  BY NextTypes, NextRecords DEF OwedInv, FundsInv
<1>2. CASE SubTx
  <2>1. UsedsEarned' /\ NeverOverpaid' /\ UNCHANGED cheques
    BY <1>2, SubIsOwed
  <2>. QED
    BY <1>1, <2>1 DEF OwedInv
<1>3. CASE \/ \E c \in Offers : SignCheque(c)
           \/ \E s \in Secret : Reveal(s)
           \/ \E S \in SUBSET Unlocked : SignSquash(S)
  BY <1>1, <1>3, EvidenceIsOwed DEF OwedInv
<1>4. CASE (\E amount \in Amounts : Add(amount)) \/ CloseTx
  <2>1. utxo.stage = "Opened" /\ utxo'.useds = utxo.useds /\ UNCHANGED <<evidence, taken>>
    <3>1. ASSUME NEW amount \in Amounts, Add(amount)
          PROVE  utxo.stage = "Opened" /\ utxo'.useds = utxo.useds /\ UNCHANGED <<evidence, taken>>
      <4>1. utxo \in Opened
        BY <1>1, <3>1 DEF FundsInv, Add, TypeOK, Opened, Closed, Responded, Spent
      <4>. QED
        BY <3>1, <4>1 DEF Add, ByConsumer, Opened
    <3>2. ASSUME CloseTx
          PROVE  utxo.stage = "Opened" /\ utxo'.useds = utxo.useds /\ UNCHANGED <<evidence, taken>>
      BY <3>2 DEF CloseTx, Close, ByConsumer
    <3>. QED
      BY <1>4, <3>1, <3>2
  <2>2. Unlocked' = Unlocked /\ UNCHANGED cheques
    BY <2>1 DEF Unlocked, evidence
  <2>. QED
    BY <1>1, <2>1, <2>2 DEF OwedInv, UsedsEarned, NeverOverpaid
<1>5. CASE \/ RespondTx \/ UnlockTx \/ ExpireTx \/ Mutual
           \/ \E interval \in Interval : Elapse(interval) \/ End(interval)
  <2>1. utxo'.stage \in {"Responded", "Spent"}
    BY <1>5, StagesLedTo DEF Mutual, Elapse, End, ByConsumer
  <2>2. UNCHANGED cheques
    <3>1. RespondTx => UNCHANGED cheques
      BY DEF RespondTx, Respond, ByProvider, evidence
    <3>2. UnlockTx => UNCHANGED cheques
      BY DEF UnlockTx, Unlock, ByProvider, evidence
    <3>3. ExpireTx => UNCHANGED cheques
      BY DEF ExpireTx, Expire, ByConsumer, evidence
    <3>4. Mutual \/ (\E interval \in Interval : Elapse(interval) \/ End(interval)) => UNCHANGED cheques
      BY DEF Mutual, Elapse, End, ByConsumer, evidence
    <3>. QED
      BY <1>5, <3>1, <3>2, <3>3, <3>4
  <2>. QED
    BY <1>1, <2>1, <2>2 DEF OwedInv, UsedsEarned, NeverOverpaid
<1>6. CASE Tick \/ UNCHANGED vars
  <2>1. UNCHANGED <<utxo, taken, cheques, revealed>>
    BY <1>6 DEF Tick, ledger, evidence, vars
  <2>2. Unlocked' = Unlocked
    BY <2>1 DEF Unlocked
  <2>. QED
    BY <1>1, <2>1, <2>2 DEF OwedInv, UsedsEarned, NeverOverpaid
<1>. QED
  BY <1>2, <1>3, <1>4, <1>5, <1>6 DEF Next

LEMMA InitOwed == Init => OwedInv
<1>. SUFFICES ASSUME Init PROVE OwedInv
  OBVIOUS
<1>1. FundsInv
  BY InitTypes DEF FundsInv, Init, SubbedIsTaken
<1>2. utxo.useds = <<>> /\ cheques = {} /\ Unlocked = {} /\ taken = 0
  BY DEF Init, Unlocked
<1>3. Distinct({})
  BY FS_EmptySet DEF Distinct
<1>4. Total({}) = 0
  BY <1>3, TotalAdds
<1>5. <<>> \in Seq(UsedsOf({}))
  OBVIOUS
<1>. QED
  BY <1>1, <1>2, <1>3, <1>4, <1>5 DEF OwedInv, UsedsEarned, NeverOverpaid

(* The provider never takes more out of a channel than the cheques whose
   secrets it has learned are worth: however many Subs it makes, with
   whatever squashes, useds and unlocked cheques (sub.do), no cheque pays
   twice. *)
THEOREM NeverTakesUnearned == Spec => []NeverOverpaid
<1>1. OwedInv => NeverOverpaid
  BY DEF OwedInv
<1>. QED
  BY <1>1, InitOwed, NextOwed, PTL DEF Spec

-----------------------------------------------------------------------------
(* When a pending leaves a channel.                                        *)

LEMMA PendingsHaveAmounts == HaveAmounts(Pending)
  BY DEF HaveAmounts, Pending

LEMMA UnlockPays ==
    ASSUME TypeOK, UnlockTx, NEW pend \in Entries(utxo.pends),
           Copies(utxo', pend) < Copies(utxo, pend)
    PROVE  pend.lock[2] \in revealed
<1>1. PICK interval \in Interval, amount \in Amounts, pends \in ListsOf(Entries(utxo.pends)),
           unpends \in ListsOf({Keep} \cup revealed) :
           \E pendsAmount \in Totals(pends) :
              Unlock(interval, unpends, pends, pendsAmount, amount)
  BY DEF UnlockTx
<1>2. PICK pendsAmount \in Totals(pends) :
           Unlock(interval, unpends, pends, pendsAmount, amount)
  BY <1>1
<1>3. utxo \in Responded /\ Entries(utxo.pends) \subseteq Pending /\ utxo.pends \in Seq(Pending)
  <2>1. utxo \in Responded /\ Entries(utxo.pends) \subseteq Pending
    BY <1>2, EntriesArePendings DEF Unlock
  <2>. QED
    BY <2>1 DEF Responded
<1>4. pends \in Seq(Pending) /\ unpends \in Seq({Keep} \cup revealed)
  BY <1>1, <1>3, ListsAreSequences
<1>5. utxo'.stage = "Responded" /\ utxo'.pends = pends
  BY <1>2 DEF Unlock, ByProvider
<1>6. UnlockAccount(interval.upper, unpends, utxo.pends, pends).ok
  BY <1>2 DEF Unlock, UnlockStep
<1>7. Count(pends, pend) < Count(utxo.pends, pend)
  <2>1. Copies(utxo', pend) = Count(pends, pend)
    BY <1>5 DEF Copies, Count, Places
  <2>2. Copies(utxo, pend) = Count(utxo.pends, pend)
    BY <1>3 DEF Copies, Count, Places, Responded
  <2>. QED
    BY <2>1, <2>2
<1>8. PICK k \in DOMAIN unpends : unpends[k] # Keep /\ UnlockSettles(interval.upper, pend, unpends[k])
  BY <1>3, <1>4, <1>6, <1>7, PendingsHaveAmounts, UnlockSettlesOneByOne
<1>9. unpends[k] \in revealed
  BY <1>4, <1>8
<1>. QED
  BY <1>8, <1>9 DEF UnlockSettles, Sha2

LEMMA ExpireWaits ==
    ASSUME TypeOK, ExpireTx, NEW pend \in Entries(utxo.pends),
           Copies(utxo', pend) < Copies(utxo, pend)
    PROVE  pend.timeout <= now
<1>1. PICK interval \in Interval, amount \in Amounts, pends \in ListsOf(Entries(utxo.pends)),
           unpends \in ListsOf({Keep, Expired}) :
           \E pendsAmount \in Totals(pends) :
              Expire(interval, unpends, pends, pendsAmount, amount)
  BY DEF ExpireTx
<1>2. PICK pendsAmount \in Totals(pends) :
           Expire(interval, unpends, pends, pendsAmount, amount)
  BY <1>1
<1>3. utxo \in Responded /\ Entries(utxo.pends) \subseteq Pending /\ utxo.pends \in Seq(Pending)
  <2>1. utxo \in Responded /\ Entries(utxo.pends) \subseteq Pending
    BY <1>2, EntriesArePendings DEF Expire
  <2>. QED
    BY <2>1 DEF Responded
<1>4. pends \in Seq(Pending) /\ unpends \in Seq({Keep, Expired})
  BY <1>1, <1>3, ListsAreSequences
<1>5. utxo'.stage = "Responded" /\ utxo'.pends = pends
  BY <1>2 DEF Expire, ByConsumer
<1>6. ExpireAccount(interval.lower, unpends, utxo.pends, pends).ok
  BY <1>2 DEF Expire, ExpireStep
<1>7. Count(pends, pend) < Count(utxo.pends, pend)
  <2>1. Copies(utxo', pend) = Count(pends, pend)
    BY <1>5 DEF Copies, Count, Places
  <2>2. Copies(utxo, pend) = Count(utxo.pends, pend)
    BY <1>3 DEF Copies, Count, Places, Responded
  <2>. QED
    BY <2>1, <2>2
<1>8. ExpireSettles(interval.lower, pend)
  BY <1>3, <1>4, <1>6, <1>7, PendingsHaveAmounts, ExpireSettlesOneByOne
<1>9. interval.lower \in Nat /\ interval.lower <= now /\ now \in Nat /\ pend.timeout \in Nat
  BY <1>3, IntervalHoldsClock DEF TypeOK, Pending
<1>. QED
  BY <1>8, <1>9 DEF ExpireSettles

LEMMA EndWaits ==
    ASSUME TypeOK, NEW interval \in Interval, End(interval), NEW pend \in Entries(utxo.pends)
    PROVE  pend.timeout <= now
<1>1. utxo.stage = "Responded" /\ \A n \in DOMAIN utxo.pends : utxo.pends[n].timeout <= interval.lower
  BY DEF End, EndStep
<1>2. pend \in Pending
  BY <1>1, EntriesArePendings
<1>3. pend.timeout <= interval.lower
  BY <1>1 DEF Entries
<1>4. interval.lower \in Nat /\ interval.lower <= now /\ now \in Nat /\ pend.timeout \in Nat
  BY <1>2, IntervalHoldsClock DEF TypeOK, Pending
<1>. QED
  BY <1>3, <1>4

(* Whatever transactions the parties submit, and in whatever order: a pending
   leaves the channel only when its secret is known to the provider or its
   timeout has passed, unless both parties sign (unlock.ak, expire.ak and
   end.ak together with the ledger's check of the validity interval). *)
THEOREM PendingsLeaveOnlyInTime == Spec => PendingsLeaveInTime
<1>1. TypeOK /\ [Next]_vars => [PendingsKept]_vars
  <2>. SUFFICES ASSUME TypeOK, [Next]_vars, utxo.stage = "Responded",
                       ~(utxo'.stage = "Spent" /\ utxo'.by = "Mutual"),
                       NEW pend \in Entries(utxo.pends), Copies(utxo', pend) < Copies(utxo, pend)
                PROVE  pend.lock[2] \in revealed \/ pend.timeout <= now
    BY DEF PendingsKept
  <2>1. CASE UnlockTx
    BY <2>1, UnlockPays
  <2>2. CASE ExpireTx
    BY <2>2, ExpireWaits
  <2>3. CASE \E interval \in Interval : End(interval)
    BY <2>3, EndWaits
  <2>4. ~UNCHANGED utxo
    <3>1. utxo \in Responded
      BY EntriesArePendings
    <3>2. Copies(utxo, pend) = Count(utxo.pends, pend) /\ utxo.pends \in Seq(Pending)
      BY <3>1 DEF Copies, Count, Places, Responded
    <3>3. Copies(utxo, pend) \in Nat
      BY <3>2, CountTail
    <3>. QED
      BY <3>3
  <2>5. ~Tick /\ ~(\E c \in Offers : SignCheque(c)) /\ ~(\E s \in Secret : Reveal(s))
          /\ ~(\E S \in SUBSET Unlocked : SignSquash(S)) /\ ~UNCHANGED vars
    BY <2>4 DEF Tick, SignCheque, Reveal, SignSquash, ledger, vars
  <2>6. ~(\E amount \in Amounts : Add(amount)) /\ ~SubTx /\ ~CloseTx /\ ~RespondTx
    BY DEF Add, SubTx, CloseTx, Close, RespondTx
  <2>7. ~(\E interval \in Interval : Elapse(interval)) /\ ~Mutual
    BY DEF Elapse, ElapseStep, Mutual
  <2>. QED
    BY <2>1, <2>2, <2>3, <2>5, <2>6, <2>7 DEF Next
<1>. QED
  BY <1>1, TypeCorrect, PTL DEF Spec, PendingsLeaveInTime

-----------------------------------------------------------------------------
(* What the pendings of a channel are.                                     *)

\* No pending is listed more often than the consumer signed a cheque of it.
PendingsWithin ==
    utxo.stage = "Responded" =>
        /\ utxo.pendsAmount = ListTotal(utxo.pends)
        /\ \A p : Count(utxo.pends, p) <= Cardinality({c \in cheques : PendOf(c) = p})

PendInv == OwedInv /\ PendingsWithin

LEMMA WithinIsSigned == PendingsWithin => PendingsAreSigned
<1>. SUFFICES ASSUME PendingsWithin, utxo.stage = "Responded"
              PROVE  /\ utxo.pendsAmount = ListTotal(utxo.pends)
                     /\ \A n \in DOMAIN utxo.pends :
                           Cardinality({m \in DOMAIN utxo.pends : utxo.pends[m] = utxo.pends[n]})
                              <= Cardinality({c \in cheques : PendOf(c) = utxo.pends[n]})
  BY DEF PendingsAreSigned
<1>1. utxo.pendsAmount = ListTotal(utxo.pends)
  BY DEF PendingsWithin
<1>2. \A p : Cardinality({m \in DOMAIN utxo.pends : utxo.pends[m] = p})
              <= Cardinality({c \in cheques : PendOf(c) = p})
  BY DEF PendingsWithin, Count, Places
<1>. QED
  BY <1>1, <1>2

\* More cheques are of a pending the more cheques are signed.
LEMMA MoreSigned ==
    ASSUME NEW E, Distinct(E), NEW L \in SUBSET E, NEW p
    PROVE  /\ Cardinality({c \in L : PendOf(c) = p}) \in Nat
           /\ Cardinality({c \in E : PendOf(c) = p}) \in Nat
           /\ Cardinality({c \in L : PendOf(c) = p}) <= Cardinality({c \in E : PendOf(c) = p})
<1>. DEFINE A == {c \in L : PendOf(c) = p}
            B == {c \in E : PendOf(c) = p}
<1>1. A \subseteq B /\ B \subseteq E /\ IsFiniteSet(E)
  BY DEF Distinct
<1>. HIDE DEF A, B
<1>2. IsFiniteSet(B)
  BY <1>1, FS_Subset
<1>3. IsFiniteSet(A) /\ Cardinality(A) <= Cardinality(B)
  BY <1>1, <1>2, FS_Subset
<1>4. Cardinality(A) \in Nat /\ Cardinality(B) \in Nat
  BY <1>2, <1>3, FS_CardinalityType
<1>. QED
  BY <1>3, <1>4 DEF A, B

LEMMA SecretKeepsAmount ==
    ASSUME TypeOK, NEW c \in Unlocked
    PROVE  WithSecret(c).index = c.index /\ WithSecret(c).amount = c.amount
<1>1. c \in ChequeBody
  BY DEF TypeOK, Unlocked
<1>. QED
  BY <1>1 DEF WithSecret, ChequeBody

LEMMA RespondIsWithin == ASSUME OwedInv, RespondTx PROVE PendingsWithin'
<1>1. PICK interval \in Interval, squash \in squashes, amount \in Amounts, list \in ChequeList :
           \E pends \in LockedPends(list) : \E pendsAmount \in Totals(pends) :
              Respond(interval, squash, list, pends, pendsAmount, amount)
  BY DEF RespondTx
<1>2. PICK pends \in LockedPends(list) : \E pendsAmount \in Totals(pends) :
           Respond(interval, squash, list, pends, pendsAmount, amount)
  BY <1>1
<1>3. PICK pendsAmount \in Totals(pends) :
           Respond(interval, squash, list, pends, pendsAmount, amount)
  BY <1>2
<1>. DEFINE E == cheques
            G == Unlocked
            R == [body : cheques, unlocked : {FALSE}]
                    \cup {[body |-> WithSecret(c), unlocked |-> TRUE] : c \in Unlocked}
            upper == interval.upper
            account == RespondAccount(Signed, upper, utxo.useds, squash, list, pendsAmount, pends)
<1>4. TypeOK /\ utxo.stage = "Closed"
  BY <1>3 DEF OwedInv, FundsInv, Respond
<1>5. Distinct(E) /\ G \in SUBSET E /\ utxo.useds \in Seq(UsedsOf(G))
  BY <1>4 DEF OwedInv, UsedsEarned, Unlocked
<1>6. ShownTo(Signed, upper, E, G, R)
  <2>1. ASSUME NEW r \in R, r.unlocked
        PROVE  \E c \in G : c.index = r.body.index /\ c.amount = r.body.amount
    <3>1. PICK c \in Unlocked : r = [body |-> WithSecret(c), unlocked |-> TRUE]
      BY <2>1
    <3>2. WithSecret(c).index = c.index /\ WithSecret(c).amount = c.amount
      BY <1>4, SecretKeepsAmount
    <3>. QED
      BY <3>1, <3>2
  <2>2. ASSUME NEW r \in R PROVE r.unlocked \in BOOLEAN /\ (~r.unlocked => r.body \in E)
    <3>1. CASE r \in [body : cheques, unlocked : {FALSE}]
      BY <3>1
    <3>2. CASE r \in {[body |-> WithSecret(c), unlocked |-> TRUE] : c \in Unlocked}
      <4>1. PICK c \in Unlocked : r = [body |-> WithSecret(c), unlocked |-> TRUE]
        BY <3>2
      <4>. QED
        BY <4>1
    <3>. QED
      BY <3>1, <3>2
  <2>. HIDE DEF R, E, G
  <2>. QED
    BY <2>1, <2>2 DEF ShownTo
<1>7. list \in Seq(R)
  <2>1. list \in ListsOf(R)
    BY <1>1 DEF ChequeList, AscendingLists
  <2>. QED
    BY <2>1, ListsAreSequences
<1>8. pends \in Seq(Pending) /\ pendsAmount \in Int
  BY <1>2, <1>3 DEF LockedPends, Totals
<1>9. PICK S \in SUBSET G : squash = SquashOf(S)
  BY <1>1, <1>4 DEF TypeOK
<1>10. account.ok /\ utxo'.pends = pends /\ utxo'.pendsAmount = pendsAmount /\ UNCHANGED cheques
  BY <1>3 DEF Respond, RespondStep, ByProvider, evidence
<1>. HIDE DEF E, G, R, upper
<1>11. Responds(E, G, pends, pendsAmount, account.owed)
  BY <1>5, <1>6, <1>7, <1>8, <1>9, <1>10, PendingsHaveAmounts, RespondCountsOnce
<1>12. PICK L \in SUBSET E :
            /\ pendsAmount = ListTotal(pends)
            /\ \A p : Count(pends, p) = Cardinality({c \in L : PendOf(c) = p})
  BY <1>11 DEF Responds
<1>13. ASSUME NEW p PROVE Count(pends, p) <= Cardinality({c \in E : PendOf(c) = p})
  <2>1. Cardinality({c \in L : PendOf(c) = p}) <= Cardinality({c \in E : PendOf(c) = p})
    BY <1>5, MoreSigned
  <2>. QED
    BY <1>12, <2>1
<1>. QED
  BY <1>10, <1>12, <1>13 DEF PendingsWithin, E

LEMMA UnlockIsWithin == ASSUME OwedInv, PendingsWithin, UnlockTx PROVE PendingsWithin'
<1>1. PICK interval \in Interval, amount \in Amounts, pends \in ListsOf(Entries(utxo.pends)),
           unpends \in ListsOf({Keep} \cup revealed) :
           \E pendsAmount \in Totals(pends) :
              Unlock(interval, unpends, pends, pendsAmount, amount)
  BY DEF UnlockTx
<1>2. PICK pendsAmount \in Totals(pends) :
           Unlock(interval, unpends, pends, pendsAmount, amount)
  BY <1>1
<1>. DEFINE account == UnlockAccount(interval.upper, unpends, utxo.pends, pends)
<1>3. TypeOK /\ utxo \in Responded /\ Entries(utxo.pends) \subseteq Pending
      /\ utxo.stage = "Responded" /\ utxo.pends \in Seq(Pending)
  <2>1. TypeOK /\ utxo \in Responded /\ Entries(utxo.pends) \subseteq Pending
    BY <1>2, EntriesArePendings DEF OwedInv, FundsInv, Unlock
  <2>. QED
    BY <2>1 DEF Responded
<1>4. pends \in Seq(Pending) /\ unpends \in Seq({Keep} \cup revealed) /\ pendsAmount \in Int
  BY <1>1, <1>2, <1>3, ListsAreSequences DEF Totals
<1>5. utxo'.pends = pends /\ utxo'.pendsAmount = pendsAmount /\ UNCHANGED cheques
  BY <1>2 DEF Unlock, ByProvider, evidence
<1>6. account.ok /\ account.total = utxo.pendsAmount - pendsAmount
  BY <1>2 DEF Unlock, UnlockStep
<1>7. /\ account.total = ListTotal(utxo.pends) - ListTotal(pends)
      /\ \A p : Count(pends, p) <= Count(utxo.pends, p)
  BY ONLY <1>3, <1>4, <1>6, PendingsHaveAmounts, UnlockSettlesOneByOne
<1>8. pendsAmount = ListTotal(pends)
  <2>1. ListTotal(utxo.pends) \in Nat /\ ListTotal(pends) \in Nat
    BY <1>3, <1>4, PendingsHaveAmounts, ListTotalTail
  <2>. QED
    BY <1>3, <1>4, <1>6, <1>7, <2>1 DEF PendingsWithin
<1>9. ASSUME NEW p PROVE Count(pends, p) <= Cardinality({c \in cheques : PendOf(c) = p})
  <2>1. Count(pends, p) \in Nat /\ Count(utxo.pends, p) \in Nat
    BY <1>3, <1>4, CountTail
  <2>2. Cardinality({c \in cheques : PendOf(c) = p}) \in Nat
    BY MoreSigned DEF OwedInv
  <2>3. Count(utxo.pends, p) <= Cardinality({c \in cheques : PendOf(c) = p})
    BY <1>3 DEF PendingsWithin
  <2>. QED
    BY <1>7, <2>1, <2>2, <2>3
<1>. QED
  BY <1>5, <1>8, <1>9 DEF PendingsWithin

LEMMA ExpireIsWithin == ASSUME OwedInv, PendingsWithin, ExpireTx PROVE PendingsWithin'
<1>1. PICK interval \in Interval, amount \in Amounts, pends \in ListsOf(Entries(utxo.pends)),
           unpends \in ListsOf({Keep, Expired}) :
           \E pendsAmount \in Totals(pends) :
              Expire(interval, unpends, pends, pendsAmount, amount)
  BY DEF ExpireTx
<1>2. PICK pendsAmount \in Totals(pends) :
           Expire(interval, unpends, pends, pendsAmount, amount)
  BY <1>1
<1>. DEFINE account == ExpireAccount(interval.lower, unpends, utxo.pends, pends)
<1>3. TypeOK /\ utxo \in Responded /\ Entries(utxo.pends) \subseteq Pending
      /\ utxo.stage = "Responded" /\ utxo.pends \in Seq(Pending)
  <2>1. TypeOK /\ utxo \in Responded /\ Entries(utxo.pends) \subseteq Pending
    BY <1>2, EntriesArePendings DEF OwedInv, FundsInv, Expire
  <2>. QED
    BY <2>1 DEF Responded
<1>4. pends \in Seq(Pending) /\ unpends \in Seq({Keep, Expired}) /\ pendsAmount \in Int
  BY <1>1, <1>2, <1>3, ListsAreSequences DEF Totals
<1>5. utxo'.pends = pends /\ utxo'.pendsAmount = pendsAmount /\ UNCHANGED cheques
  BY <1>2 DEF Expire, ByConsumer, evidence
<1>6. account.ok /\ account.total = utxo.pendsAmount - pendsAmount
  BY <1>2 DEF Expire, ExpireStep
<1>7. /\ account.total = ListTotal(utxo.pends) - ListTotal(pends)
      /\ \A p : Count(pends, p) <= Count(utxo.pends, p)
  BY ONLY <1>3, <1>4, <1>6, PendingsHaveAmounts, ExpireSettlesOneByOne
<1>8. pendsAmount = ListTotal(pends)
  <2>1. ListTotal(utxo.pends) \in Nat /\ ListTotal(pends) \in Nat
    BY <1>3, <1>4, PendingsHaveAmounts, ListTotalTail
  <2>. QED
    BY <1>3, <1>4, <1>6, <1>7, <2>1 DEF PendingsWithin
<1>9. ASSUME NEW p PROVE Count(pends, p) <= Cardinality({c \in cheques : PendOf(c) = p})
  <2>1. Count(pends, p) \in Nat /\ Count(utxo.pends, p) \in Nat
    BY <1>3, <1>4, CountTail
  <2>2. Cardinality({c \in cheques : PendOf(c) = p}) \in Nat
    BY MoreSigned DEF OwedInv
  <2>3. Count(utxo.pends, p) <= Cardinality({c \in cheques : PendOf(c) = p})
    BY <1>3 DEF PendingsWithin
  <2>. QED
    BY <1>7, <2>1, <2>2, <2>3
<1>. QED
  BY <1>5, <1>8, <1>9 DEF PendingsWithin

LEMMA SignedIsWithin ==
    ASSUME OwedInv, PendingsWithin, NEW c \in Offers, SignCheque(c)
    PROVE  PendingsWithin'
<1>1. UNCHANGED utxo /\ cheques \subseteq cheques'
  BY DEF SignCheque, ledger
<1>2. Distinct(cheques')
  BY EvidenceIsOwed
<1>3. ASSUME utxo.stage = "Responded", NEW p
      PROVE  Count(utxo.pends, p) <= Cardinality({d \in cheques' : PendOf(d) = p})
  <2>1. Count(utxo.pends, p) <= Cardinality({d \in cheques : PendOf(d) = p})
    BY <1>3 DEF PendingsWithin
  <2>2. /\ Cardinality({d \in cheques : PendOf(d) = p}) \in Nat
        /\ Cardinality({d \in cheques' : PendOf(d) = p}) \in Nat
        /\ Cardinality({d \in cheques : PendOf(d) = p}) <= Cardinality({d \in cheques' : PendOf(d) = p})
    BY <1>1, <1>2, MoreSigned
  <2>3. Count(utxo.pends, p) \in Nat
    <3>1. utxo.pends \in Seq(Pending)
      BY <1>3, EntriesArePendings DEF OwedInv, FundsInv, Responded
    <3>. QED
      BY <3>1, CountTail
  <2>. QED
    BY <2>1, <2>2, <2>3
<1>. QED
  BY <1>1, <1>3 DEF PendingsWithin

LEMMA NextPendings == PendInv /\ [Next]_vars => PendInv'
<1>. SUFFICES ASSUME OwedInv, PendingsWithin, [Next]_vars PROVE OwedInv' /\ PendingsWithin'
  BY DEF PendInv
<1>1. OwedInv'
  BY NextOwed
<1>2. CASE RespondTx
  BY <1>1, <1>2, RespondIsWithin
<1>3. CASE UnlockTx
  BY <1>1, <1>3, UnlockIsWithin
<1>4. CASE ExpireTx
  BY <1>1, <1>4, ExpireIsWithin
<1>5. CASE \E c \in Offers : SignCheque(c)
  BY <1>1, <1>5, SignedIsWithin
<1>6. CASE UNCHANGED <<utxo, cheques>>
  BY <1>1, <1>6 DEF PendingsWithin
<1>7. CASE Tick \/ (\E s \in Secret : Reveal(s)) \/ (\E S \in SUBSET Unlocked : SignSquash(S))
  BY <1>6, <1>7 DEF Tick, Reveal, SignSquash, ledger, evidence
<1>8. CASE utxo'.stage # "Responded"
  BY <1>1, <1>8 DEF PendingsWithin
<1>9. CASE (\E amount \in Amounts : Add(amount)) \/ SubTx \/ CloseTx
  <2>1. CloseTx => utxo'.stage = "Closed"
    BY DEF CloseTx, Close, ByConsumer
  <2>2. ASSUME NEW amount \in Amounts, Add(amount) PROVE utxo'.stage = "Opened"
    <3>1. utxo \in Opened
      BY <2>2 DEF OwedInv, FundsInv, Add, TypeOK, Opened, Closed, Responded, Spent
    <3>. QED
      BY <2>2, <3>1 DEF Add, ByConsumer, Opened
  <2>. QED
    BY <1>8, <1>9, <2>1, <2>2, StagesLedTo
<1>10. CASE (\E interval \in Interval : Elapse(interval) \/ End(interval)) \/ Mutual
  BY <1>8, <1>10 DEF Elapse, End, Mutual, ByConsumer
<1>11. CASE UNCHANGED vars
  BY <1>6, <1>11 DEF vars
<1>. QED
  BY <1>2, <1>3, <1>4, <1>5, <1>7, <1>9, <1>10, <1>11 DEF Next

(* Whatever the provider responds with, and whatever is settled after: the
   pendings of the datum are cheques the consumer signed, none of them listed
   more often than it was signed, and pends_amount is their total. *)
THEOREM PendingsAreSignedAlways == Spec => []PendingsAreSigned
<1>1. Init => PendInv
  BY InitOwed DEF PendInv, PendingsWithin, Init
<1>2. PendInv => PendingsAreSigned
  BY WithinIsSigned DEF PendInv
<1>. QED
  BY <1>1, <1>2, NextPendings, PTL DEF Spec

-----------------------------------------------------------------------------
(* A channel implements the promise.  The mapping, stage by stage.         *)

LEMMA LivesMap ==
    ASSUME TypeOK, utxo.stage # "Spent"
    PROVE  Phase(utxo) \in {"open", "closing", "answered"}
<1>1. utxo.stage \in {"Opened", "Closed", "Responded"}
  BY DEF TypeOK, Opened, Closed, Responded, Spent
<1>. QED
  BY <1>1, OpenedMaps, ClosedMaps, RespondedMaps

\* What a list may keep of the pendings waits no longer than they did.
LEMMA KeptWaits ==
    ASSUME NEW state, NEW next, state.stage = "Responded", next.stage = "Responded",
           next.pends \in ListsOf(Entries(state.pends))
    PROVE  Waits(next) \subseteq Waits(state)
<1>1. Entries(next.pends) \subseteq Entries(state.pends)
  BY DEF ListsOf, Entries
<1>. QED
  BY <1>1, RespondedMaps

-----------------------------------------------------------------------------
(* Evidence and time.                                                      *)

LEMMA EvidenceIsEarned ==
    ASSUME TypeOK,
           \/ \E c \in Offers : SignCheque(c)
           \/ \E s \in Secret : Reveal(s)
           \/ \E S \in SUBSET Unlocked : SignSquash(S)
    PROVE  Promise!Earn
<1>1. UNCHANGED <<now, utxo, taken, closedAt>>
  BY DEF SignCheque, Reveal, SignSquash, ledger
<1>2. Unlocked \subseteq Unlocked'
  BY DEF SignCheque, Reveal, SignSquash, Unlocked
<1>. QED
  BY <1>1, <1>2 DEF Promise!Earn

LEMMA TickIsTime == ASSUME TypeOK, Tick PROVE Promise!Time
<1>1. now' > now
  BY DEF Tick, TypeOK
<1>2. Unlocked' = Unlocked /\ UNCHANGED <<utxo, taken, closedAt>>
  BY DEF Tick, ledger, evidence, Unlocked
<1>. QED
  BY <1>1, <1>2 DEF Promise!Time

-----------------------------------------------------------------------------
(* The transactions.                                                       *)

LEMMA AddIsDeposit == ASSUME TypeOK, NEW amount \in Amounts, Add(amount) PROVE Promise!Deposit
<1>1. utxo \in Opened
  BY DEF Add, TypeOK, Opened, Closed, Responded, Spent
<1>2. utxo' = [utxo EXCEPT !.amount = amount] /\ utxo.amount < utxo'.amount
  BY <1>1 DEF Add, AddStep, ByConsumer, Opened
<1>3. utxo.stage = "Opened" /\ utxo'.stage = "Opened"
  BY <1>1, <1>2 DEF Opened
<1>4. UNCHANGED <<now, taken, closedAt>> /\ Unlocked' = Unlocked
  BY DEF Add, ByConsumer, evidence, Unlocked
<1>5. utxo.amount \in Nat /\ utxo'.amount \in Nat
  BY <1>1, <1>2 DEF Opened, Amounts
<1>6. utxo'.amount > utxo.amount
  BY <1>2, <1>5
<1>. QED
  BY <1>3, <1>4, <1>6, OpenedMaps DEF Promise!Deposit, Promise!Gives

LEMMA SubIsWithdraw == ASSUME TypeOK, NeverOverpaid', SubTx PROVE Promise!Withdraw
<1>1. PICK interval \in Interval, squash \in squashes, amount \in Amounts,
           useds \in AscendingLists({UsedOf(c) : c \in cheques}, LAMBDA u : u.index),
           unlockeds \in AscendingLists({WithSecret(c) : c \in Unlocked}, LAMBDA c : c.index) :
           \E subbed \in Subbeds(amount) :
              Sub(interval, squash, useds, unlockeds, subbed, amount)
  BY DEF SubTx
<1>2. PICK subbed \in Subbeds(amount) : Sub(interval, squash, useds, unlockeds, subbed, amount)
  BY <1>1
<1>3. utxo.stage = "Opened" /\ utxo'.stage = "Opened"
  BY <1>2 DEF Sub, ByProvider
<1>4. taken' = taken + utxo.amount - utxo'.amount /\ UNCHANGED <<now, closedAt>>
      /\ Unlocked' = Unlocked
  BY <1>2 DEF Sub, ByProvider, evidence, Unlocked
<1>5. taken' <= Total(Unlocked')
  BY <1>3 DEF NeverOverpaid
<1>. QED
  BY <1>3, <1>4, <1>5, OpenedMaps DEF Promise!Withdraw, Promise!Takes

LEMMA CloseIsClose == ASSUME TypeOK, CloseTx PROVE Promise!Close
<1>1. PICK interval \in Interval, amount \in Amounts, elapseAt \in 0..MaxTime :
           Close(interval, amount, elapseAt)
  BY DEF CloseTx
<1>2. utxo.stage = "Opened" /\ utxo'.stage = "Closed"
  BY <1>1 DEF Close, ByConsumer
<1>3. UNCHANGED <<now, taken>> /\ Unlocked' = Unlocked /\ closedAt' = now
  BY <1>1 DEF Close, ByConsumer, evidence, Unlocked
<1>4. utxo.amount <= utxo'.amount
  BY <1>1 DEF Close, CloseStep, ByConsumer
<1>5. utxo \in Opened /\ utxo' \in Closed
  BY <1>1, <1>2, CloseTypes DEF TypeOK, Opened, Closed, Responded, Spent
<1>. QED
  BY <1>2, <1>3, <1>4, <1>5, OpenedMaps, ClosedMaps
     DEF Promise!Close, Promise!Gives, Opened, Closed

LEMMA RespondIsAnswer == ASSUME TypeOK, RespondTx PROVE Promise!Answer
<1>1. PICK interval \in Interval, squash \in squashes, amount \in Amounts, list \in ChequeList :
           \E pends \in LockedPends(list) : \E pendsAmount \in Totals(pends) :
              Respond(interval, squash, list, pends, pendsAmount, amount)
  BY DEF RespondTx
<1>2. PICK pends, pendsAmount :
           Respond(interval, squash, list, pends, pendsAmount, amount)
  BY <1>1
<1>3. utxo.stage = "Closed" /\ utxo'.stage = "Responded"
  BY <1>2 DEF Respond, ByProvider
<1>4. taken' = taken + utxo.amount - utxo'.amount /\ UNCHANGED <<now, closedAt>>
      /\ Unlocked' = Unlocked
  BY <1>2 DEF Respond, ByProvider, evidence, Unlocked
<1>. QED
  BY <1>3, <1>4, ClosedMaps, RespondedMaps DEF Promise!Answer, Promise!Takes

LEMMA UnlockIsSettle == ASSUME TypeOK, UnlockTx PROVE Promise!Settle
<1>1. PICK interval \in Interval, amount \in Amounts, pends \in ListsOf(Entries(utxo.pends)),
           unpends \in ListsOf({Keep} \cup revealed) :
           \E pendsAmount \in Totals(pends) :
              Unlock(interval, unpends, pends, pendsAmount, amount)
  BY DEF UnlockTx
<1>2. PICK pendsAmount \in Totals(pends) :
           Unlock(interval, unpends, pends, pendsAmount, amount)
  BY <1>1
<1>3. utxo.stage = "Responded" /\ utxo'.stage = "Responded"
  BY <1>2 DEF Unlock, ByProvider
<1>4. taken' = taken + utxo.amount - utxo'.amount /\ UNCHANGED <<now, closedAt>>
      /\ Unlocked' = Unlocked
  BY <1>2 DEF Unlock, ByProvider, evidence, Unlocked
<1>5. utxo'.pends = pends /\ utxo'.pendsAmount = pendsAmount /\ utxo'.amount = amount
  BY <1>2 DEF Unlock, ByProvider
<1>6. Waits(utxo') \subseteq Waits(utxo)
  BY <1>3, <1>5, KeptWaits
<1>7. utxo.pendsAmount - utxo'.pendsAmount >= utxo.amount - utxo'.amount
  BY <1>2, <1>5 DEF Unlock, UnlockStep
<1>. QED
  BY <1>3, <1>4, <1>6, <1>7, RespondedMaps DEF Promise!Settle, Promise!Takes

LEMMA ExpireIsDrop == ASSUME TypeOK, ExpireTx PROVE Promise!Drop
<1>1. PICK interval \in Interval, amount \in Amounts, pends \in ListsOf(Entries(utxo.pends)),
           unpends \in ListsOf({Keep, Expired}) :
           \E pendsAmount \in Totals(pends) :
              Expire(interval, unpends, pends, pendsAmount, amount)
  BY DEF ExpireTx
<1>2. PICK pendsAmount \in Totals(pends) :
           Expire(interval, unpends, pends, pendsAmount, amount)
  BY <1>1
<1>3. utxo.stage = "Responded" /\ utxo'.stage = "Responded"
  BY <1>2 DEF Expire, ByConsumer
<1>4. UNCHANGED <<now, taken, closedAt>> /\ Unlocked' = Unlocked
  BY <1>2 DEF Expire, ByConsumer, evidence, Unlocked
<1>5. utxo'.pends = pends /\ utxo'.pendsAmount = pendsAmount /\ utxo'.amount = amount
  BY <1>2 DEF Expire, ByConsumer
<1>6. Waits(utxo') \subseteq Waits(utxo)
  BY <1>3, <1>5, KeptWaits
<1>7. utxo'.amount >= utxo'.pendsAmount + MinAdaBuffer
  BY <1>2, <1>5 DEF Expire, ExpireStep, CoversPendings
<1>. QED
  BY <1>3, <1>4, <1>6, <1>7, RespondedMaps DEF Promise!Drop, Promise!Gives

LEMMA ElapseIsReclaim ==
    ASSUME TypeOK, WindowOpen, NEW interval \in Interval, Elapse(interval)
    PROVE  Promise!Reclaim
<1>1. utxo \in Closed /\ utxo.elapseAt <= interval.lower
  BY DEF Elapse, ElapseStep, TypeOK, Opened, Closed, Responded, Spent
<1>2. utxo' = [stage |-> "Spent", by |-> "Elapse"] /\ UNCHANGED <<now, taken, closedAt>>
      /\ Unlocked' = Unlocked
  BY DEF Elapse, ByConsumer, evidence, Unlocked
<1>3. utxo.stage = "Closed"
  BY <1>1 DEF Closed
<1>4. now >= closedAt + ClosePeriod
  <2>1. utxo.elapseAt \in Nat /\ now \in Nat /\ closedAt \in Nat
    BY <1>1 DEF Closed, TypeOK
  <2>2. interval.lower \in Nat /\ interval.lower <= now
    BY IntervalHoldsClock
  <2>. QED
    BY <1>1, <1>3, <2>1, <2>2, ClosePeriodAssumption DEF WindowOpen
<1>5. Phase(utxo') = "reclaimed"
  BY <1>2, SpentMaps
<1>. QED
  BY <1>2, <1>3, <1>4, <1>5, ClosedMaps
     DEF Promise!Reclaim, Promise!Ends, Promise!Gives

LEMMA EndIsFinish == ASSUME TypeOK, NEW interval \in Interval, End(interval) PROVE Promise!Finish
<1>1. utxo.stage = "Responded"
  BY DEF End, EndStep
<1>2. \A n \in DOMAIN utxo.pends : utxo.pends[n].timeout <= interval.lower
  BY DEF End, EndStep
<1>3. utxo \in Responded /\ Entries(utxo.pends) \subseteq Pending
  BY <1>1, EntriesArePendings
<1>4. \A n \in DOMAIN utxo.pends : utxo.pends[n].timeout <= now
  <2>. TAKE n \in DOMAIN utxo.pends
  <2>1. utxo.pends[n].timeout \in Nat
    BY <1>3 DEF Entries, Pending
  <2>. QED
    BY <2>1, <1>2, IntervalHoldsClock DEF TypeOK
<1>5. \A t \in Waits(utxo) : t <= now
  BY <1>1, <1>4, RespondedMaps DEF Entries
<1>6. utxo' = [stage |-> "Spent", by |-> "End"] /\ UNCHANGED <<now, taken, closedAt>>
      /\ Unlocked' = Unlocked
  BY DEF End, ByConsumer, evidence, Unlocked
<1>7. Phase(utxo') = "finished"
  BY <1>6, SpentMaps
<1>. QED
  BY <1>1, <1>5, <1>6, <1>7, RespondedMaps DEF Promise!Finish, Promise!Ends, Promise!Gives

LEMMA MutualIsAgree == ASSUME TypeOK, Mutual PROVE Promise!Agree
<1>1. utxo' = [stage |-> "Spent", by |-> "Mutual"] /\ UNCHANGED <<now, taken, closedAt>>
      /\ Unlocked' = Unlocked
  BY DEF Mutual, evidence, Unlocked
<1>2. Phase(utxo') = "agreed"
  BY <1>1, SpentMaps
<1>. QED
  BY <1>1, <1>2, LivesMap DEF Mutual, Promise!Agree, Promise!Ends, Promise!Gives

-----------------------------------------------------------------------------
LEMMA InitPromises == Init => Promise!Init
<1>. SUFFICES ASSUME Init PROVE Promise!Init
  OBVIOUS
<1>1. utxo.stage = "Opened" /\ utxo.amount \in Nat /\ Unlocked = {} /\ taken = 0
  BY DEF Init, Amounts, Unlocked
<1>. QED
  BY <1>1, OpenedMaps DEF Promise!Init

LEMMA NextPromises ==
    TypeOK /\ WindowOpen /\ NeverOverpaid' /\ [Next]_vars => [Promise!Next]_(Promise!vars)
<1>. SUFFICES ASSUME TypeOK, WindowOpen, NeverOverpaid', [Next]_vars
              PROVE  Promise!Next \/ UNCHANGED Promise!vars
  OBVIOUS
<1>1. CASE Tick
  BY <1>1, TickIsTime DEF Promise!Next
<1>2. CASE \/ \E c \in Offers : SignCheque(c)
           \/ \E s \in Secret : Reveal(s)
           \/ \E S \in SUBSET Unlocked : SignSquash(S)
  BY <1>2, EvidenceIsEarned DEF Promise!Next
<1>3. CASE \E amount \in Amounts : Add(amount)
  BY <1>3, AddIsDeposit DEF Promise!Next
<1>4. CASE SubTx
  BY <1>4, SubIsWithdraw DEF Promise!Next
<1>5. CASE CloseTx
  BY <1>5, CloseIsClose DEF Promise!Next
<1>6. CASE RespondTx
  BY <1>6, RespondIsAnswer DEF Promise!Next
<1>7. CASE UnlockTx
  BY <1>7, UnlockIsSettle DEF Promise!Next
<1>8. CASE ExpireTx
  BY <1>8, ExpireIsDrop DEF Promise!Next
<1>9. CASE \E interval \in Interval : Elapse(interval) \/ End(interval)
  BY <1>9, ElapseIsReclaim, EndIsFinish DEF Promise!Next
<1>10. CASE Mutual
  BY <1>10, MutualIsAgree DEF Promise!Next
<1>11. CASE UNCHANGED vars
  BY <1>11 DEF vars, Promise!vars, Unlocked
<1>. QED
  BY <1>1, <1>2, <1>3, <1>4, <1>5, <1>6, <1>7, <1>8, <1>9, <1>10, <1>11 DEF Next

LEMMA WindowStaysOpen == Spec => []WindowOpen
<1>1. Init => WindowOpen
  BY DEF Init, WindowOpen
<1>. QED
  BY <1>1, NextWindow, TypeCorrect, PTL DEF Spec

(* Every behaviour of the channel is one the promise allows: whatever
   outputs and evidence a transaction carries, an open channel pays out only
   what was earned by then, the close period is waited for, pendings are
   settled no faster than they stop being held, and the rest goes back only
   once none of them can still be claimed. *)
THEOREM ChannelImplementsPromise == Spec => ImplementsPromise
<1>1. Init => Promise!Init
  BY InitPromises
<1>2. TypeOK /\ WindowOpen /\ NeverOverpaid' /\ [Next]_vars => [Promise!Next]_(Promise!vars)
  BY NextPromises
<1>. QED
  BY <1>1, <1>2, TypeCorrect, WindowStaysOpen, NeverTakesUnearned, PTL
     DEF Spec, ImplementsPromise, Promise!Spec
=============================================================================
