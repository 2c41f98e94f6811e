------------------------ MODULE KonduitKernel_proofs ------------------------
(***************************************************************************)
(* Proofs about the validator's walks: what a Sub can be owed, what a      *)
(* Respond may make of pendings, what an Unlock or an Expire may settle,   *)
(* and that each walk accepts the evidence its reference describes; before *)
(* them, facts about walks over lists and sums over sets.                  *)
(***************************************************************************)
EXTENDS KernelReference, FiniteSetTheorems, TLAPS

-----------------------------------------------------------------------------
(* Walks and sums.                                                         *)

\* A set of naturals has a least element: what the inductions rest on.
LEMMA LeastNatural ==
    ASSUME NEW T, T \subseteq Nat, T # {}
    PROVE  \E n \in T : \A m \in T : n <= m
<1>1. PICK n \in T : \A m \in T : ~(<<m, n>> \in OpToRel(<, Nat))
  BY NatLessThanWellFounded, WFMin, Zenon
<1>2. \A m \in T : ~(m < n)
  BY <1>1 DEF OpToRel
<1>. QED
  BY <1>2

LEMMA MinIsLeast ==
    ASSUME NEW S, S \subseteq Nat, S # {}
    PROVE  Min(S) \in S /\ \A x \in S : Min(S) <= x
  BY LeastNatural DEF Min

LEMMA MaxOfInterval ==
    ASSUME NEW n \in Nat, NEW s \in SUBSET (1..(n + 1)), n + 1 \in s
    PROVE  Max(s) = n + 1
<1>1. n + 1 \in s /\ \A y \in s : n + 1 >= y
  OBVIOUS
<1>2. \A x \in s : (\A y \in s : x >= y) => x = n + 1
  BY <1>1
<1>. QED
  BY <1>1, <1>2 DEF Max

LEMMA MaxOfFirst ==
    ASSUME NEW k \in Nat \ {0}
    PROVE  Max(1..k) = k /\ (1..k) \ {k} = 1..(k - 1) /\ 1..k # {}
<1>1. k - 1 \in Nat /\ k = (k - 1) + 1 /\ 1..k \in SUBSET (1..k) /\ k \in 1..k
  OBVIOUS
<1>2. Max(1..k) = k
  BY <1>1, MaxOfInterval
<1>3. 1..k # {}
  BY <1>1
<1>. QED
  BY <1>2, <1>3

LEMMA ListEntries ==
    ASSUME NEW T, NEW list \in Seq(T)
    PROVE  /\ Len(list) \in Nat /\ DOMAIN list = 1..Len(list)
           /\ \A k \in 1..Len(list) : list[k] \in T
  OBVIOUS

\* The greatest of some numbers of 1..n is one of them.
LEMMA MaxIsIn ==
    ASSUME NEW n \in Nat, NEW s \in SUBSET (1..n), s # {}
    PROVE  Max(s) \in s
<1>. DEFINE up == {d \in Nat : n - d \in s}
<1>1. up \subseteq Nat /\ up # {}
  <2>1. PICK j \in s : TRUE
    OBVIOUS
  <2>2. n - j \in Nat /\ n - (n - j) = j
    OBVIOUS
  <2>3. n - j \in up
    BY <2>2
  <2>. QED
    BY <2>3
<1>2. PICK d \in up : \A e \in up : d <= e
  <2>. HIDE DEF up
  <2>. QED
    BY <1>1, LeastNatural
<1>3. ASSUME NEW j \in s PROVE n - d >= j
  <2>1. n - j \in Nat /\ n - (n - j) = j
    OBVIOUS
  <2>2. n - j \in up
    BY <2>1
  <2>. QED
    BY <1>2, <2>2
<1>4. n - d \in s
  OBVIOUS
<1>. QED
  BY <1>3, <1>4 DEF Max

\* Induction along 0..n, for a set of its numbers.
LEMMA Climb ==
    ASSUME NEW n \in Nat, NEW T, 0 \in T, \A k \in 1..n : k - 1 \in T => k \in T
    PROVE  \A k \in 0..n : k \in T
<1>. DEFINE Bad == {k \in 0..n : k \notin T}
<1>1. SUFFICES Bad = {}
  OBVIOUS
<1>2. SUFFICES ASSUME Bad # {} PROVE FALSE
  OBVIOUS
<1>3. PICK m \in Bad : \A k \in Bad : m <= k
  <2>1. Bad \subseteq Nat
    OBVIOUS
  <2>. HIDE DEF Bad
  <2>. QED
    BY <1>2, <2>1, LeastNatural
<1>4. m # 0 /\ m - 1 \in 0..n /\ m \in 1..n
  OBVIOUS
<1>5. m - 1 \in T
  BY <1>3, <1>4
<1>. QED
  BY <1>4, <1>5

\* A walk along 1..n: the function that a fold over a list is made of, on
\* the sets of positions (SequencesExt folds from the greatest one down).
IsWalk(walk, n, State, base, step) ==
    /\ walk \in [SUBSET (1..n) -> State]
    /\ \A s \in SUBSET (1..n) :
          walk[s] = IF s = {} THEN base ELSE step[<<walk[s \ {Max(s)}], Max(s)>>]

LEMMA WalkExists ==
    ASSUME NEW State, NEW n \in Nat, NEW base \in State,
           NEW step \in [State \X (1..n) -> State]
    PROVE  \E walk : IsWalk(walk, n, State, base, step)
<1>. DEFINE Walks(m, walk) == IsWalk(walk, m, State, base, step)
            Bad == {m \in 0..n : ~ \E walk : Walks(m, walk)}
<1>. USE DEF IsWalk
<1>1. ASSUME Bad = {} PROVE \E walk : Walks(n, walk)
  <2>1. n \in 0..n
    OBVIOUS
  <2>. HIDE DEF Walks
  <2>. QED
    BY <1>1, <2>1
<1>2. SUFFICES ASSUME NEW m \in Bad, \A k \in Bad : m <= k PROVE FALSE
  <2>1. Bad \subseteq Nat
    OBVIOUS
  <2>2. Bad # {} => \E m \in Bad : \A k \in Bad : m <= k
    <3>. HIDE DEF Bad
    <3>. QED
      BY <2>1, LeastNatural
  <2>3. Bad = {}
    <3>. HIDE DEF Bad
    <3>. QED
      BY <2>2
  <2>4. \E walk : Walks(n, walk)
    <3>. HIDE DEF Bad, Walks
    <3>. QED
      BY <1>1, <2>3
  <2>. QED
    BY <2>4
<1>3. CASE m = 0
  <2>. DEFINE walk == [s \in SUBSET (1..0) |-> base]
  <2>1. \A s \in SUBSET (1..0) : s = {}
    OBVIOUS
  <2>2. Walks(0, walk)
    BY <2>1
  <2>3. ~ \E w : Walks(0, w)
    <3>. HIDE DEF Walks
    <3>. QED
      BY <1>3
  <2>. QED
    BY <2>2, <2>3
<1>4. CASE m # 0
  <2>. DEFINE k == m - 1
  <2>1. k \in 0..n /\ k < m /\ m = k + 1
    BY <1>4
  <2>a. k \notin Bad
    <3>. HIDE DEF Bad
    <3>. QED
      BY <2>1, <1>2
  <2>b. \E old : Walks(k, old)
    <3>. HIDE DEF Walks, k
    <3>. QED
      BY <2>a, <2>1
  <2>2. PICK old : Walks(k, old)
    <3>. HIDE DEF Walks, k
    <3>. QED
      BY <2>b
  <2>. DEFINE walk == [s \in SUBSET (1..m) |->
                         IF m \in s THEN step[<<old[s \ {m}], m>>] ELSE old[s]]
  <2>3. ASSUME NEW s \in SUBSET (1..m), m \in s
        PROVE  /\ Max(s) = m /\ s \ {m} \in SUBSET (1..k)
               /\ walk[s \ {m}] = old[s \ {m}]
               /\ walk[s] = step[<<old[s \ {m}], m>>] /\ walk[s] \in State
    <3>1. Max(s) = m
      BY <2>1, <2>3, MaxOfInterval
    <3>2. s \ {m} \in SUBSET (1..k) /\ s \ {m} \in SUBSET (1..m) /\ m \notin s \ {m}
      BY <2>1
    <3>3. old[s \ {m}] \in State
      BY <3>2, <2>2
    <3>4. m \in 1..n
      BY <2>1
    <3>. QED
      BY <2>3, <3>1, <3>2, <3>3, <3>4
  <2>4. ASSUME NEW s \in SUBSET (1..m), m \notin s
        PROVE  /\ s \in SUBSET (1..k) /\ walk[s] = old[s] /\ walk[s] \in State
               /\ s # {} => walk[s \ {Max(s)}] = old[s \ {Max(s)}]
    <3>1. s \in SUBSET (1..k)
      BY <2>1, <2>4
    <3>2. s \ {Max(s)} \in SUBSET (1..m) /\ m \notin s \ {Max(s)}
      BY <2>4
    <3>. QED
      BY <2>2, <2>4, <3>1, <3>2
  <2>5. walk \in [SUBSET (1..m) -> State]
    BY <2>3, <2>4
  <2>6. \A s \in SUBSET (1..m) :
           walk[s] = IF s = {} THEN base ELSE step[<<walk[s \ {Max(s)}], Max(s)>>]
    <3>. TAKE s \in SUBSET (1..m)
    <3>1. CASE m \in s
      BY <3>1, <2>3
    <3>2. CASE m \notin s
      BY <3>2, <2>4, <2>2
    <3>. QED
      BY <3>1, <3>2
  <2>7. Walks(m, walk)
    BY <2>5, <2>6
  <2>8. ~ \E w : Walks(m, w)
    <3>. HIDE DEF Walks
    <3>. QED
      OBVIOUS
  <2>. HIDE DEF Walks, walk
  <2>. QED
    BY <2>7, <2>8
<1>. QED
  BY <1>3, <1>4

\* The values of a walk one position after the other.
LEMMA WalkSteps ==
    ASSUME NEW State, NEW n \in Nat, NEW base, NEW step, NEW walk,
           IsWalk(walk, n, State, base, step)
    PROVE  \A k \in 1..n :
              walk[1..k] = step[<<walk[1..(k - 1)], k>>] /\ walk[1..(k - 1)] \in State
<1>. TAKE k \in 1..n
<1>1. /\ Max(1..k) = k /\ (1..k) \ {k} = 1..(k - 1) /\ 1..k # {}
      /\ 1..k \in SUBSET (1..n) /\ 1..(k - 1) \in SUBSET (1..n)
  BY MaxOfFirst
<1>. QED
  BY <1>1 DEF IsWalk

IsHistory(h, n, State, base, step) ==
    /\ h \in [0..n -> State]
    /\ h[0] = base
    /\ \A k \in 1..n : h[k] = step[<<h[k - 1], k>>]

LEMMA HistoryExists ==
    ASSUME NEW State, NEW n \in Nat, NEW base \in State,
           NEW step \in [State \X (1..n) -> State]
    PROVE  \E h : IsHistory(h, n, State, base, step)
<1>1. PICK walk : IsWalk(walk, n, State, base, step)
  BY WalkExists
<1>. DEFINE h == [k \in 0..n |-> walk[1..k]]
<1>2. h[0] = base
  <2>1. h[0] = walk[1..0]
    OBVIOUS
  <2>2. 1..0 = {}
    OBVIOUS
  <2>3. walk[{}] = base
    BY <1>1 DEF IsWalk
  <2>. HIDE DEF h
  <2>. QED
    BY <2>1, <2>2, <2>3
<1>3. ASSUME NEW k \in 1..n PROVE h[k] = step[<<h[k - 1], k>>]
  <2>1. h[k] = walk[1..k] /\ h[k - 1] = walk[1..(k - 1)]
    OBVIOUS
  <2>. HIDE DEF h
  <2>2. \A i \in 1..n :
           walk[1..i] = step[<<walk[1..(i - 1)], i>>] /\ walk[1..(i - 1)] \in State
    BY <1>1, WalkSteps, Zenon
  <2>. QED
    BY <2>1, <2>2
<1>4. h \in [0..n -> State]
  <2>1. \A k \in 0..n : 1..k \in SUBSET (1..n)
    OBVIOUS
  <2>. QED
    BY <1>1, <2>1 DEF IsWalk
<1>. HIDE DEF h
<1>. QED
  BY <1>2, <1>3, <1>4 DEF IsHistory

\* A subset of a finite set less one of its elements.
LEMMA PickRemoves ==
    ASSUME NEW S, IsFiniteSet(S), NEW s \in SUBSET S, s # {}, NEW x \in s
    PROVE  /\ IsFiniteSet(s) /\ Cardinality(s) \in Nat \ {0}
           /\ s \ {x} \in SUBSET S /\ IsFiniteSet(s \ {x})
           /\ Cardinality(s \ {x}) = Cardinality(s) - 1
<1>1. IsFiniteSet(s)
  BY FS_Subset
<1>2. Cardinality(s) \in Nat /\ Cardinality(s) # 0
  BY <1>1, FS_CardinalityType, FS_EmptySet
<1>3. IsFiniteSet(s \ {x}) /\ Cardinality(s \ {x}) = Cardinality(s) - 1
  BY <1>1, FS_RemoveElement
<1>. QED
  BY <1>1, <1>2, <1>3

\* Induction over the subsets of a finite set, for a set of them.
LEMMA Shrink ==
    ASSUME NEW S, IsFiniteSet(S), NEW T, {} \in T,
           \A s \in SUBSET S : s # {} /\ (\A x \in s : s \ {x} \in T) => s \in T
    PROVE  \A s \in SUBSET S : s \in T
<1>. DEFINE n == Cardinality(S)
            U == {m \in 0..n : \A s \in SUBSET S : Cardinality(s) <= m => s \in T}
<1>1. n \in Nat
  BY FS_CardinalityType
<1>2. 0 \in U
  <2>1. \A s \in SUBSET S : Cardinality(s) <= 0 => s = {}
    BY FS_Subset, FS_CardinalityType, FS_EmptySet
  <2>2. \A s \in SUBSET S : Cardinality(s) <= 0 => s \in T
    BY <2>1
  <2>. HIDE DEF n
  <2>. QED
    BY <1>1, <2>2
<1>3. ASSUME NEW m \in 1..n, m - 1 \in U PROVE m \in U
  <2>1. ASSUME NEW s \in SUBSET S, Cardinality(s) <= m PROVE s \in T
    <3>1. CASE s # {}
      <4>1. ASSUME NEW x \in s PROVE s \ {x} \in T
        <5>1. s \ {x} \in SUBSET S /\ Cardinality(s \ {x}) <= m - 1
          BY <1>1, <2>1, <3>1, PickRemoves
        <5>. QED
          BY <1>3, <5>1
      <4>. QED
        BY <3>1, <4>1
    <3>. QED
      BY <3>1
  <2>. HIDE DEF n
  <2>. QED
    BY <2>1, <1>1
<1>4. \A m \in 0..n : m \in U
  <2>. HIDE DEF U, n
  <2>. QED
    BY <1>1, <1>2, <1>3, Climb
<1>5. n \in U
  BY <1>1, <1>4
<1>. QED
  BY <1>5, FS_Subset

\* A finite set of naturals has a greatest element.
LEMMA GreatestNatural ==
    ASSUME NEW S, S \subseteq Nat, IsFiniteSet(S), S # {}
    PROVE  \E n \in S : \A m \in S : m <= n
<1>. DEFINE T == {s \in SUBSET S : s # {} => \E n \in s : \A m \in s : m <= n}
<1>1. {} \in T
  OBVIOUS
<1>2. ASSUME NEW s \in SUBSET S, s # {}, \A x \in s : s \ {x} \in T PROVE s \in T
  <2>1. PICK x \in s : TRUE
    BY <1>2
  <2>2. CASE s = {x}
    BY <2>2
  <2>3. CASE s # {x}
    <3>1. PICK n \in s \ {x} : \A m \in s \ {x} : m <= n
      BY <1>2, <2>1, <2>3
    <3>2. CASE x <= n
      BY <3>1, <3>2
    <3>3. CASE n <= x
      <4>1. \A m \in s : m <= x
        BY <3>1, <3>3
      <4>. QED
        BY <2>1, <4>1
    <3>. QED
      BY <3>2, <3>3
  <2>. QED
    BY <2>2, <2>3
<1>3. \A s \in SUBSET S : s \in T
  <2>. HIDE DEF T
  <2>. QED
    BY <1>1, <1>2, Shrink
<1>. QED
  BY <1>3
-----------------------------------------------------------------------------
(* Sums over a finite set, as FiniteSetsExt computes them: an element is   *)
(* picked and left out, until none is left.                                *)

Weigh(f, S, w) ==
    [s \in SUBSET S |-> IF s = {} THEN 0
                        ELSE LET x == CHOOSE x \in s : TRUE IN w[x] + f[s \ {x}]]
Sums(S, w) == CHOOSE f : f = Weigh(f, S, w)
SumOver(S, w) == Sums(S, w)[S]

\* The sets of at most m elements of S have a sum each.
SumsTo(f, m, S, w) ==
    f = [s \in {t \in SUBSET S : Cardinality(t) <= m} |->
            IF s = {} THEN 0 ELSE LET x == CHOOSE x \in s : TRUE IN w[x] + f[s \ {x}]]

LEMMA SumsExist ==
    ASSUME NEW S, IsFiniteSet(S), NEW w, NEW n \in Nat
    PROVE  \E f : SumsTo(f, n, S, w)
<1>. DEFINE T == {m \in 0..n : \E f : SumsTo(f, m, S, w)}
<1>1. 0 \in T
  <2>. DEFINE f == [s \in {t \in SUBSET S : Cardinality(t) <= 0} |-> 0]
  <2>1. ASSUME NEW s \in SUBSET S, Cardinality(s) <= 0 PROVE s = {}
    BY <2>1, FS_Subset, FS_CardinalityType, FS_EmptySet
  <2>2. SumsTo(f, 0, S, w)
    BY <2>1 DEF SumsTo
  <2>. QED
    BY <2>2
<1>2. ASSUME NEW m \in 1..n, m - 1 \in T PROVE m \in T
  <2>1. PICK f : SumsTo(f, m - 1, S, w)
    BY <1>2
  <2>. DEFINE R(h, s) == IF s = {} THEN 0 ELSE LET x == CHOOSE x \in s : TRUE IN w[x] + h[s \ {x}]
              g == [s \in {t \in SUBSET S : Cardinality(t) <= m} |-> R(f, s)]
  <2>2. ASSUME NEW s \in SUBSET S, Cardinality(s) <= m
        PROVE  R(f, s) = R(g, s)
    <3>1. CASE s = {}
      BY <3>1
    <3>2. CASE s # {}
      <4>. DEFINE x == CHOOSE x \in s : TRUE
                  t == s \ {x}
      <4>1. x \in s
        BY <3>2
      <4>2. t \in SUBSET S /\ Cardinality(t) = Cardinality(s) - 1 /\ Cardinality(s) \in Nat
        BY <3>2, <4>1, PickRemoves
      <4>3. Cardinality(t) <= m - 1 /\ Cardinality(t) <= m
        BY <2>2, <4>2
      <4>. HIDE DEF t
      <4>4. f[t] = R(f, t)
        BY <2>1, <4>2, <4>3 DEF SumsTo
      <4>5. g[t] = R(f, t)
        <5>. HIDE DEF R
        <5>. QED
          BY <4>2, <4>3
      <4>. HIDE DEF g, x
      <4>. QED
        BY <4>4, <4>5, <3>2 DEF t, x
    <3>. QED
      BY <3>1, <3>2
  <2>3. SumsTo(g, m, S, w)
    <3>1. g = [s \in {t \in SUBSET S : Cardinality(t) <= m} |-> R(g, s)]
      <4>. HIDE DEF R
      <4>. QED
        BY <2>2
    <3>. HIDE DEF g
    <3>. QED
      BY <3>1 DEF SumsTo
  <2>. HIDE DEF g
  <2>. QED
    BY <2>3
<1>3. \A m \in 0..n : m \in T
  <2>. HIDE DEF T
  <2>. QED
    BY <1>1, <1>2, Climb
<1>. QED
  BY <1>3
\* The function of the sums is the one its recursion describes.
LEMMA SumsAre ==
    ASSUME NEW S, IsFiniteSet(S), NEW w
    PROVE  /\ Sums(S, w)[{}] = 0
           /\ \A s \in SUBSET S : s # {} =>
                 LET x == CHOOSE x \in s : TRUE IN Sums(S, w)[s] = w[x] + Sums(S, w)[s \ {x}]
<1>. DEFINE n == Cardinality(S)
<1>1. n \in Nat /\ \A s \in SUBSET S : Cardinality(s) <= n
  BY FS_CardinalityType, FS_Subset
<1>2. PICK f : SumsTo(f, n, S, w)
  <2>. HIDE DEF n
  <2>. QED
    BY <1>1, SumsExist
<1>3. {t \in SUBSET S : Cardinality(t) <= n} = SUBSET S
  BY <1>1
<1>4. f = Weigh(f, S, w)
  BY <1>2, <1>3 DEF SumsTo, Weigh
<1>5. Sums(S, w) = Weigh(Sums(S, w), S, w)
  BY <1>4 DEF Sums
<1>. HIDE DEF n
<1>. QED
  BY <1>5 DEF Weigh

\* Sums over a set and over a part of it agree.
LEMMA SumsAgree ==
    ASSUME NEW S, IsFiniteSet(S), NEW P \in SUBSET S, NEW w
    PROVE  \A s \in SUBSET P : Sums(S, w)[s] = Sums(P, w)[s]
<1>. DEFINE T == {s \in SUBSET P : Sums(S, w)[s] = Sums(P, w)[s]}
<1>0. IsFiniteSet(P)
  BY FS_Subset
<1>1. {} \in T
  BY <1>0, SumsAre
<1>2. ASSUME NEW s \in SUBSET P, s # {}, \A x \in s : s \ {x} \in T PROVE s \in T
  <2>. DEFINE x == CHOOSE x \in s : TRUE
  <2>1. x \in s
    BY <1>2
  <2>2. Sums(S, w)[s] = w[x] + Sums(S, w)[s \ {x}]
    BY <1>2, SumsAre
  <2>3. Sums(P, w)[s] = w[x] + Sums(P, w)[s \ {x}]
    BY <1>0, <1>2, SumsAre
  <2>. HIDE DEF x
  <2>. QED
    BY <1>2, <2>1, <2>2, <2>3
<1>3. \A s \in SUBSET P : s \in T
  <2>. HIDE DEF T
  <2>. QED
    BY <1>0, <1>1, <1>2, Shrink
<1>. QED
  BY <1>3

\* A sum of naturals over the picked element and the rest.
LEMMA SumPicks ==
    ASSUME NEW S, IsFiniteSet(S), NEW w
    PROVE  /\ SumOver({}, w) = 0
           /\ \A s \in SUBSET S : s # {} =>
                 LET x == CHOOSE x \in s : TRUE IN SumOver(s, w) = w[x] + SumOver(s \ {x}, w)
<1>1. SumOver({}, w) = 0
  BY SumsAre, FS_EmptySet DEF SumOver
<1>2. ASSUME NEW s \in SUBSET S, s # {}
      PROVE  LET x == CHOOSE x \in s : TRUE IN SumOver(s, w) = w[x] + SumOver(s \ {x}, w)
  <2>. DEFINE x == CHOOSE x \in s : TRUE
  <2>1. IsFiniteSet(s)
    BY FS_Subset
  <2>2. Sums(s, w)[s] = w[x] + Sums(s, w)[s \ {x}]
    BY <1>2, <2>1, SumsAre
  <2>3. Sums(s, w)[s \ {x}] = Sums(s \ {x}, w)[s \ {x}]
    <3>. HIDE DEF x
    <3>1. s \ {x} \in SUBSET s /\ s \ {x} \in SUBSET (s \ {x})
      OBVIOUS
    <3>. QED
      BY <2>1, <3>1, SumsAgree
  <2>. QED
    BY <2>2, <2>3 DEF SumOver
<1>. QED
  BY <1>1, <1>2

LEMMA SumType ==
    ASSUME NEW S, IsFiniteSet(S), NEW w, \A x \in S : w[x] \in Nat
    PROVE  \A s \in SUBSET S : SumOver(s, w) \in Nat
<1>. DEFINE T == {s \in SUBSET S : SumOver(s, w) \in Nat}
<1>1. {} \in T
  BY SumPicks
<1>2. ASSUME NEW s \in SUBSET S, s # {}, \A x \in s : s \ {x} \in T PROVE s \in T
  <2>. DEFINE x == CHOOSE x \in s : TRUE
  <2>1. x \in s
    BY <1>2
  <2>2. SumOver(s, w) = w[x] + SumOver(s \ {x}, w)
    BY <1>2, SumPicks
  <2>. HIDE DEF x
  <2>. QED
    BY <1>2, <2>1, <2>2
<1>3. \A s \in SUBSET S : s \in T
  <2>. HIDE DEF T
  <2>. QED
    BY <1>1, <1>2, Shrink
<1>. QED
  BY <1>3

\* Whichever element is left out of a sum, it counts once.
LEMMA SumRemoves ==
    ASSUME NEW S, IsFiniteSet(S), NEW w, \A x \in S : w[x] \in Nat
    PROVE  \A s \in SUBSET S : \A y \in s : SumOver(s, w) = w[y] + SumOver(s \ {y}, w)
<1>. DEFINE T == {s \in SUBSET S : \A y \in s : SumOver(s, w) = w[y] + SumOver(s \ {y}, w)}
<1>1. {} \in T
  OBVIOUS
<1>2. ASSUME NEW s \in SUBSET S, s # {}, \A x \in s : s \ {x} \in T PROVE s \in T
  <2>. DEFINE x == CHOOSE x \in s : TRUE
  <2>1. x \in s
    BY <1>2
  <2>2. SumOver(s, w) = w[x] + SumOver(s \ {x}, w)
    BY <1>2, SumPicks
  <2>. HIDE DEF x
  <2>3. ASSUME NEW y \in s, y # x PROVE SumOver(s, w) = w[y] + SumOver(s \ {y}, w)
    <3>. DEFINE rest == s \ {x, y}
    <3>1. (s \ {x}) \ {y} = rest /\ (s \ {y}) \ {x} = rest
      OBVIOUS
    <3>2. SumOver(s \ {x}, w) = w[y] + SumOver(rest, w)
      BY <1>2, <2>1, <2>3, <3>1
    <3>3. SumOver(s \ {y}, w) = w[x] + SumOver(rest, w)
      BY <1>2, <2>1, <2>3, <3>1
    <3>4. SumOver(rest, w) \in Nat /\ w[x] \in Nat /\ w[y] \in Nat
      BY <2>1, <2>3, SumType
    <3>. HIDE DEF rest
    <3>. QED
      BY <2>2, <3>2, <3>3, <3>4
  <2>. QED
    BY <2>2, <2>3
<1>3. \A s \in SUBSET S : s \in T
  <2>. HIDE DEF T
  <2>. QED
    BY <1>1, <1>2, Shrink
<1>. QED
  BY <1>3

\* A part sums to no more than the whole.
LEMMA SumMonotone ==
    ASSUME NEW S, IsFiniteSet(S), NEW w, \A x \in S : w[x] \in Nat, NEW P \in SUBSET S
    PROVE  SumOver(P, w) <= SumOver(S, w)
<1>. DEFINE T == {s \in SUBSET S : P \subseteq s => SumOver(P, w) <= SumOver(s, w)}
<1>1. {} \in T
  <2>1. P \subseteq {} => P = {}
    OBVIOUS
  <2>2. SumOver({}, w) \in Nat
    BY SumType
  <2>. QED
    BY <2>1, <2>2
<1>2. ASSUME NEW s \in SUBSET S, s # {}, \A x \in s : s \ {x} \in T PROVE s \in T
  <2>0. SumOver(P, w) \in Nat /\ SumOver(s, w) \in Nat
    BY SumType
  <2>1. CASE s = P
    BY <2>0, <2>1
  <2>2. CASE P \subseteq s /\ s # P
    <3>1. PICK x \in s : x \notin P
      BY <2>2
    <3>2. SumOver(s, w) = w[x] + SumOver(s \ {x}, w) /\ w[x] \in Nat
      BY SumRemoves
    <3>3. SumOver(P, w) <= SumOver(s \ {x}, w)
      BY <1>2, <2>2, <3>1
    <3>4. SumOver(s \ {x}, w) \in Nat
      BY SumType
    <3>. QED
      BY <2>0, <3>2, <3>3, <3>4
  <2>. QED
    BY <2>1, <2>2
<1>3. \A s \in SUBSET S : s \in T
  <2>. HIDE DEF T
  <2>. QED
    BY <1>1, <1>2, Shrink
<1>. QED
  BY <1>3
\* A sum is that of a part and that of the rest.
LEMMA SumSplits ==
    ASSUME NEW S, IsFiniteSet(S), NEW w, \A x \in S : w[x] \in Nat, NEW P \in SUBSET S
    PROVE  SumOver(S, w) = SumOver(P, w) + SumOver(S \ P, w)
<1>. DEFINE T == {s \in SUBSET P : SumOver(s \cup (S \ P), w) = SumOver(s, w) + SumOver(S \ P, w)}
<1>1. IsFiniteSet(P) /\ SumOver(S \ P, w) \in Nat
  BY FS_Subset, SumType
<1>2. {} \in T
  <2>1. SumOver({}, w) = 0 /\ {} \cup (S \ P) = S \ P
    BY SumPicks
  <2>. QED
    BY <1>1, <2>1
<1>3. ASSUME NEW s \in SUBSET P, s # {}, \A x \in s : s \ {x} \in T PROVE s \in T
  <2>1. PICK x \in s : TRUE
    BY <1>3
  <2>. DEFINE all == s \cup (S \ P)
  <2>2. all \in SUBSET S /\ x \in all /\ all \ {x} = (s \ {x}) \cup (S \ P)
    BY <2>1
  <2>. HIDE DEF all
  <2>3. SumOver(all, w) = w[x] + SumOver(all \ {x}, w)
    BY <2>2, SumRemoves
  <2>4. SumOver(s, w) = w[x] + SumOver(s \ {x}, w)
    BY <2>1, SumRemoves
  <2>5. SumOver(all \ {x}, w) = SumOver(s \ {x}, w) + SumOver(S \ P, w)
    BY <1>3, <2>1, <2>2
  <2>6. w[x] \in Nat /\ SumOver(s \ {x}, w) \in Nat
    BY <2>1, SumType
  <2>. QED
    BY <1>1, <2>3, <2>4, <2>5, <2>6 DEF all
<1>4. \A s \in SUBSET P : s \in T
  <2>. HIDE DEF T
  <2>. QED
    BY <1>1, <1>2, <1>3, Shrink
<1>5. P \cup (S \ P) = S
  OBVIOUS
<1>. QED
  BY <1>4, <1>5

\* Nothing adds up to nothing.
LEMMA SumOfNone ==
    ASSUME NEW S, IsFiniteSet(S), NEW w, \A x \in S : w[x] = 0
    PROVE  SumOver(S, w) = 0
<1>. DEFINE T == {s \in SUBSET S : SumOver(s, w) = 0}
<1>1. {} \in T
  BY SumPicks
<1>2. ASSUME NEW s \in SUBSET S, s # {}, \A x \in s : s \ {x} \in T PROVE s \in T
  <2>1. PICK x \in s : TRUE
    BY <1>2
  <2>2. SumOver(s, w) = w[x] + SumOver(s \ {x}, w)
    BY <2>1, SumRemoves
  <2>. QED
    BY <1>2, <2>1, <2>2
<1>3. \A s \in SUBSET S : s \in T
  <2>. HIDE DEF T
  <2>. QED
    BY <1>1, <1>2, Shrink
<1>. QED
  BY <1>3

\* A sum over a set is the sum over what its elements are mapped to, one to one.
Image(f, s) == {f[x] : x \in s}

LEMMA SumMoved ==
    ASSUME NEW S, IsFiniteSet(S), NEW f, NEW v, NEW w,
           \A x, y \in S : f[x] = f[y] => x = y,
           \A x \in S : v[x] = w[f[x]] /\ v[x] \in Nat
    PROVE  SumOver(S, v) = SumOver(Image(f, S), w)
<1>. DEFINE R == Image(f, S)
            T == {s \in SUBSET S : SumOver(s, v) = SumOver(Image(f, s), w)}
<1>1. IsFiniteSet(R) /\ \A y \in R : w[y] \in Nat
  <2>. DEFINE g == [x \in S |-> f[x]]
  <2>1. g \in Surjection(S, R)
    BY DEF Surjection, Image
  <2>2. \A y \in R : w[y] \in Nat
    BY DEF Image
  <2>. HIDE DEF g, R
  <2>. QED
    BY <2>1, <2>2, FS_Surjection
<1>2. {} \in T
  <2>1. Image(f, {}) = {}
    BY DEF Image
  <2>2. SumOver({}, v) = 0 /\ SumOver({}, w) = 0
    BY SumPicks, FS_EmptySet
  <2>. QED
    BY <2>1, <2>2
<1>3. ASSUME NEW s \in SUBSET S, s # {}, \A x \in s : s \ {x} \in T PROVE s \in T
  <2>1. PICK x \in s : TRUE
    BY <1>3
  <2>2. f[x] \in Image(f, s) /\ Image(f, s) \in SUBSET R
    BY DEF Image
  <2>3. Image(f, s) \ {f[x]} = Image(f, s \ {x})
    BY <2>1 DEF Image
  <2>4. SumOver(s, v) = v[x] + SumOver(s \ {x}, v)
    BY SumRemoves
  <2>5. SumOver(Image(f, s), w) = w[f[x]] + SumOver(Image(f, s) \ {f[x]}, w)
    <3>. HIDE DEF R
    <3>. QED
      BY <1>1, <2>2, SumRemoves
  <2>6. SumOver(s \ {x}, v) = SumOver(Image(f, s \ {x}), w)
    BY <1>3, <2>1
  <2>. QED
    BY <2>3, <2>4, <2>5, <2>6
<1>4. \A s \in SUBSET S : s \in T
  <2>. HIDE DEF T
  <2>. QED
    BY <1>2, <1>3, Shrink
<1>. QED
  BY <1>4
-----------------------------------------------------------------------------
(* How often something stands in a list.                                   *)

Places(list, x) == {n \in DOMAIN list : list[n] = x}
Count(list, x) == Cardinality(Places(list, x))

LEMMA CountTail ==
    ASSUME NEW T, NEW list \in Seq(T), NEW x
    PROVE  /\ Count(list, x) \in Nat
           /\ list = <<>> => Count(list, x) = 0
           /\ list # <<>> =>
                Count(list, x) = Count(Tail(list), x) + (IF Head(list) = x THEN 1 ELSE 0)
<1>1. IsFiniteSet(Places(list, x)) /\ Count(list, x) \in Nat
  <2>1. DOMAIN list = 1..Len(list) /\ Len(list) \in Nat
    BY ListEntries
  <2>2. IsFiniteSet(DOMAIN list)
    BY <2>1, FS_Interval
  <2>3. IsFiniteSet(Places(list, x))
    BY <2>2, FS_Subset DEF Places
  <2>. QED
    BY <2>3, FS_CardinalityType DEF Count
<1>2. ASSUME list = <<>> PROVE Count(list, x) = 0
  <2>1. Places(list, x) = {}
    BY <1>2 DEF Places
  <2>. QED
    BY <2>1, FS_EmptySet DEF Count
<1>3. ASSUME list # <<>>
      PROVE  Count(list, x) = Count(Tail(list), x) + (IF Head(list) = x THEN 1 ELSE 0)
  <2>. DEFINE rest == Tail(list)
              later == Places(list, x) \ {1}
              back == [n \in later |-> n - 1]
  <2>1. /\ rest \in Seq(T) /\ Len(rest) = Len(list) - 1 /\ Len(list) \in Nat \ {0}
        /\ \A n \in 1..Len(rest) : rest[n] = list[n + 1]
        /\ DOMAIN list = 1..Len(list) /\ DOMAIN rest = 1..Len(rest)
    BY <1>3
  <2>. HIDE DEF rest
  <2>2. ASSUME NEW n \in later PROVE n \in Nat /\ n - 1 \in Places(rest, x) /\ (n - 1) + 1 = n
    <3>1. n \in 2..Len(list) /\ list[n] = x
      BY <2>1 DEF Places
    <3>2. n - 1 \in 1..Len(rest) /\ (n - 1) + 1 = n
      BY <2>1, <3>1
    <3>. QED
      BY <2>1, <3>1, <3>2 DEF Places
  <2>3. ASSUME NEW m \in Places(rest, x) PROVE m + 1 \in later /\ (m + 1) - 1 = m
    <3>1. m \in 1..Len(rest) /\ rest[m] = x
      BY <2>1 DEF Places
    <3>2. m + 1 \in 1..Len(list) /\ m + 1 # 1 /\ (m + 1) - 1 = m
      BY <2>1, <3>1
    <3>. QED
      BY <2>1, <3>1, <3>2 DEF Places
  <2>4. back \in Bijection(later, Places(rest, x))
    <3>1. back \in [later -> Places(rest, x)]
      BY <2>2
    <3>2. \A m, n \in later : back[m] = back[n] => m = n
      BY <2>2
    <3>3. \A m \in Places(rest, x) : \E n \in later : back[n] = m
      BY <2>3
    <3>. HIDE DEF back, later
    <3>. QED
      BY <3>1, <3>2, <3>3 DEF Bijection, Injection, Surjection, IsInjective
  <2>5. IsFiniteSet(later)
    BY <1>1, FS_Subset
  <2>6. Cardinality(later) = Count(rest, x)
    <3>1. ExistsBijection(later, Places(rest, x))
      BY <2>4 DEF ExistsBijection
    <3>. HIDE DEF back, later
    <3>. QED
      BY <2>5, <3>1, FS_Bijection DEF Count
  <2>7. 1 \in Places(list, x) <=> Head(list) = x
    BY <1>3, <2>1 DEF Places
  <2>8. Cardinality(later) \in Nat
    BY <2>5, FS_CardinalityType
  <2>9. 1 \in Places(list, x) => Cardinality(later) = Count(list, x) - 1
    BY <1>1, FS_RemoveElement DEF Count
  <2>10. 1 \notin Places(list, x) => later = Places(list, x)
    OBVIOUS
  <2>. HIDE DEF later
  <2>. QED
    BY <1>1, <2>6, <2>7, <2>8, <2>9, <2>10 DEF Count, rest
<1>. QED
  BY <1>1, <1>2, <1>3
-----------------------------------------------------------------------------
(* A fold over a list of n entries: its value at a set of positions comes   *)
(* from the value without the greatest of them.                            *)

IsFold(it, n, State, base, step) ==
    /\ it[{}] = base
    /\ \A s \in SUBSET (1..n) :
          s # {} /\ it[s \ {Max(s)}] \in State => it[s] = step[<<it[s \ {Max(s)}], Max(s)>>]

IsHistoryOf(h, it, n, State, base, step) ==
    IsHistory(h, n, State, base, step) /\ h[n] = it[1..n]

LEMMA FoldIsHistory ==
    ASSUME NEW n \in Nat, NEW State, NEW base \in State,
           NEW step \in [State \X (1..n) -> State], NEW it, IsFold(it, n, State, base, step)
    PROVE  \E h : IsHistoryOf(h, it, n, State, base, step)
<1>. DEFINE h == [k \in 0..n |-> it[1..k]]
            T == {k \in 0..n : it[1..k] \in State}
<1>1. ASSUME NEW k \in 1..n, it[1..(k - 1)] \in State
      PROVE  it[1..k] = step[<<it[1..(k - 1)], k>>] /\ it[1..k] \in State
  <2>1. Max(1..k) = k /\ (1..k) \ {k} = 1..(k - 1) /\ 1..k # {}
    <3>1. k \in Nat \ {0}
      OBVIOUS
    <3>. QED
      BY <3>1, MaxOfFirst
  <2>2. 1..k \in SUBSET (1..n)
    OBVIOUS
  <2>3. it[1..k] = step[<<it[1..(k - 1)], k>>]
    BY <1>1, <2>1, <2>2 DEF IsFold
  <2>4. <<it[1..(k - 1)], k>> \in State \X (1..n)
    BY <1>1
  <2>. QED
    BY <2>3, <2>4
<1>2. it[1..0] = base
  <2>1. 1..0 = {}
    OBVIOUS
  <2>. QED
    BY <2>1 DEF IsFold
<1>3. \A k \in 0..n : k \in T
  <2>1. 0 \in T
    BY <1>2
  <2>2. ASSUME NEW k \in 1..n, k - 1 \in T PROVE k \in T
    <3>1. it[1..(k - 1)] \in State
      BY <2>2
    <3>2. it[1..k] \in State
      BY <1>1, <3>1
    <3>. QED
      BY <3>2
  <2>. HIDE DEF T
  <2>. QED
    BY <2>1, <2>2, Climb
<1>4. h \in [0..n -> State]
  BY <1>3
<1>5. h[0] = base
  BY <1>2
<1>6. ASSUME NEW k \in 1..n PROVE h[k] = step[<<h[k - 1], k>>]
  <2>1. k - 1 \in 0..n /\ k \in 0..n
    OBVIOUS
  <2>2. it[1..(k - 1)] \in State
    BY <1>3, <2>1
  <2>3. h[k] = it[1..k] /\ h[k - 1] = it[1..(k - 1)]
    BY <2>1
  <2>. HIDE DEF h
  <2>. QED
    BY <1>1, <2>2, <2>3
<1>7. h[n] = it[1..n]
  OBVIOUS
<1>. HIDE DEF h
<1>. QED
  BY <1>4, <1>5, <1>6, <1>7 DEF IsHistory, IsHistoryOf

\* A fold stays in a set that holds its base and that its steps do not leave.
LEMMA FoldStays ==
    ASSUME NEW n \in Nat, NEW State, NEW base \in State,
           NEW step \in [State \X (1..n) -> State], NEW it, IsFold(it, n, State, base, step)
    PROVE  it[1..n] \in State
<1>1. PICK h : IsHistoryOf(h, it, n, State, base, step)
  BY FoldIsHistory
<1>. QED
  BY <1>1 DEF IsHistoryOf, IsHistory

\* As many different numbers of 1..n as there are of 1..m.
LEMMA NoMore ==
    ASSUME NEW m \in Nat, NEW n \in Nat, NEW f, \A k \in 1..m : f[k] \in 1..n,
           \A j, k \in 1..m : f[j] = f[k] => j = k
    PROVE  m <= n
<1>. DEFINE g == [k \in 1..m |-> f[k]]
<1>1. g \in Injection(1..m, 1..n)
  BY DEF Injection, IsInjective
<1>2. IsFiniteSet(1..n) /\ Cardinality(1..n) = n /\ Cardinality(1..m) = m
  BY FS_Interval
<1>. HIDE DEF g
<1>3. Cardinality(1..m) <= Cardinality(1..n)
  BY <1>1, <1>2, FS_Injection
<1>. QED
  BY <1>2, <1>3

-----------------------------------------------------------------------------
(* Lists.                                                                  *)

\* What is left of the useds is a list of the same.
LEMMA DropUntilType ==
    ASSUME NEW G, NEW useds \in Seq(G), NEW index
    PROVE  DropUntil(useds, index) \in Seq(G)
<1>. DEFINE I == {i \in 1..Len(useds) : useds[i].index >= index}
            n == SelectInSeq(useds, LAMBDA used : used.index >= index)
<1>1. n = IF I # {} THEN Min(I) ELSE 0
  BY DEF SelectInSeq
<1>2. I # {} => Min(I) \in 1..Len(useds)
  <2>1. I \subseteq Nat /\ I \subseteq 1..Len(useds)
    OBVIOUS
  <2>. HIDE DEF I
  <2>. QED
    BY <2>1, MinIsLeast
<1>3. DropUntil(useds, index) = IF n = 0 THEN <<>> ELSE SubSeq(useds, n, Len(useds))
  BY DEF DropUntil
<1>. HIDE DEF n, I
<1>. QED
  BY <1>1, <1>2, <1>3

\* The indexes accounted for at a point of a walk.
Accounted(at, i) == i <= at.index /\ i \notin Entries(at.exclude)

\* The points a walk can be at: no index is excluded twice, or from beyond.
Points ==
    {at \in [index : Nat, exclude : Seq(Nat)] :
        /\ \A m, n \in DOMAIN at.exclude : at.exclude[m] = at.exclude[n] => m = n
        /\ \A n \in DOMAIN at.exclude : at.exclude[n] <= at.index}

LEMMA DropHardDrops ==
    ASSUME NEW list \in Seq(Nat), NEW i, \E n \in DOMAIN list : list[n] = i
    PROVE  \E n \in DOMAIN list :
              /\ list[n] = i
              /\ DropHard(list, i) \in Seq(Nat)
              /\ Len(DropHard(list, i)) = Len(list) - n
              /\ \A m \in DOMAIN DropHard(list, i) : m + n \in DOMAIN list /\ DropHard(list, i)[m] = list[m + n]
<1>. DEFINE S == {n \in DOMAIN list : list[n] = i}
            First(n) == list[n] = i /\ \A m \in 1..(n - 1) : list[m] # i
            first == CHOOSE n \in DOMAIN list : First(n)
<1>1. PICK n \in S : \A m \in S : n <= m
  <2>1. S \subseteq Nat /\ S # {}
    OBVIOUS
  <2>. HIDE DEF S
  <2>. QED
    BY <2>1, LeastNatural
<1>2. n \in DOMAIN list /\ First(n)
  <2>1. ASSUME NEW m \in 1..(n - 1) PROVE list[m] # i
    BY <1>1
  <2>. QED
    BY <1>1, <2>1
<1>3. first \in DOMAIN list /\ First(first)
  <2>. HIDE DEF First
  <2>. QED
    BY <1>2
<1>4. DropHard(list, i) = SubSeq(list, first + 1, Len(list))
  BY DEF DropHard
<1>. HIDE DEF first
<1>5. first \in 1..Len(list)
  BY <1>3
<1>6. SubSeq(list, first + 1, Len(list)) \in Seq(Nat)
      /\ Len(SubSeq(list, first + 1, Len(list))) = Len(list) - first
      /\ \A m \in 1..(Len(list) - first) : SubSeq(list, first + 1, Len(list))[m] = list[first + m]
  BY <1>5
<1>. DEFINE rest == SubSeq(list, first + 1, Len(list))
<1>7. DOMAIN rest = 1..(Len(list) - first)
  BY <1>6
<1>8. ASSUME NEW m \in DOMAIN rest PROVE m + first \in DOMAIN list /\ rest[m] = list[m + first]
  <2>1. m \in 1..(Len(list) - first) /\ first \in Nat /\ Len(list) \in Nat
    BY <1>5, <1>7
  <2>2. first + m = m + first /\ m + first \in 1..Len(list)
    BY <2>1, <1>5
  <2>3. rest[m] = list[first + m]
    BY <2>1, <1>6
  <2>. HIDE DEF rest
  <2>. QED
    BY <2>2, <2>3
<1>. HIDE DEF rest
<1>9. DropHard(list, i) = rest /\ rest \in Seq(Nat) /\ Len(rest) = Len(list) - first
  BY <1>4, <1>6 DEF rest
<1>. QED
  BY <1>3, <1>8, <1>9

\* An index is accounted for once, and stays accounted for.
LEMMA NextIndexAccounts ==
    ASSUME NEW at \in Points, NEW index \in Nat, IsUnaccounted(at, index)
    PROVE  /\ NextIndex(at, index) \in Points
           /\ ~Accounted(at, index)
           /\ Accounted(NextIndex(at, index), index)
           /\ \A i \in Nat : Accounted(at, i) => Accounted(NextIndex(at, index), i)
<1>0. at \in [index : Nat, exclude : Seq(Nat)]
  BY DEF Points
<1>1. CASE at.index < index
  <2>1. NextIndex(at, index) = [index |-> index, exclude |-> <<>>]
    BY <1>1 DEF NextIndex, IsAhead
  <2>. QED
    BY <1>0, <1>1, <2>1 DEF Points, Accounted, Entries
<1>2. CASE ~(at.index < index)
  <2>. DEFINE rest == DropHard(at.exclude, index)
  <2>1. NextIndex(at, index) = [index |-> at.index, exclude |-> rest]
    BY <1>2 DEF NextIndex, IsAhead
  <2>2. \E n \in DOMAIN at.exclude : at.exclude[n] = index
    BY <1>0, <1>2 DEF IsUnaccounted, IsAhead, Contains
  <2>3. PICK n \in DOMAIN at.exclude :
              /\ at.exclude[n] = index
              /\ rest \in Seq(Nat)
              /\ Len(rest) = Len(at.exclude) - n
              /\ \A m \in DOMAIN rest : m + n \in DOMAIN at.exclude /\ rest[m] = at.exclude[m + n]
    BY <1>0, <2>2, DropHardDrops
  <2>. HIDE DEF rest
  <2>4. \A m, k \in DOMAIN at.exclude : at.exclude[m] = at.exclude[k] => m = k
    BY DEF Points
  <2>5. \A m \in DOMAIN at.exclude : at.exclude[m] <= at.index
    BY DEF Points
  <2>6. DOMAIN rest \subseteq Nat \ {0} /\ DOMAIN at.exclude \subseteq Nat
    BY <1>0, <2>3
  <2>a. n \in Nat
    BY <2>6
  <2>7. ASSUME NEW m \in DOMAIN rest, NEW k \in DOMAIN rest, rest[m] = rest[k] PROVE m = k
    <3>1. m \in Nat /\ k \in Nat
      BY <2>6
    <3>2. m + n = k + n
      BY <2>3, <2>4, <2>7
    <3>. QED
      BY <2>a, <3>1, <3>2
  <2>8. \A m \in DOMAIN rest : rest[m] <= at.index
    BY <2>3, <2>5
  <2>9. ASSUME NEW m \in DOMAIN rest PROVE rest[m] # index
    <3>1. m \in Nat \ {0}
      BY <2>6
    <3>2. rest[m] = index => m + n = n
      BY <2>3, <2>4
    <3>. QED
      BY <2>a, <3>1, <3>2
  <2>10. [index |-> at.index, exclude |-> rest] \in Points
    BY <1>0, <2>3, <2>7, <2>8 DEF Points
  <2>11. index <= at.index
    BY <2>3, <2>5
  <2>12. Entries(rest) \subseteq Entries(at.exclude) /\ index \notin Entries(rest) /\ index \in Entries(at.exclude)
    BY <2>3, <2>9 DEF Entries
  <2>. QED
    BY <2>1, <2>10, <2>11, <2>12 DEF Accounted
<1>. QED
  BY <1>1, <1>2

-----------------------------------------------------------------------------
(* The squash of a set of cheques.                                         *)

\* What a squash leaves out: every index up to its own, once, except those
\* of its cheques.
LEMMA MissingIsLeftOut ==
    ASSUME NEW indices, NEW top \in Nat
    PROVE  /\ Missing(indices, top) \in Seq(Nat)
           /\ Entries(Missing(indices, top)) = (1..top) \ indices
           /\ \A m, n \in DOMAIN Missing(indices, top) :
                 Missing(indices, top)[m] = Missing(indices, top)[n] => m = n
<1>. DEFINE R(f, i) == IF i = 0 THEN <<>>
                       ELSE IF i \in indices THEN f[i - 1] ELSE Append(f[i - 1], i)
            upTo == CHOOSE f : f = [i \in 0..top |-> R(f, i)]
            step == [p \in Seq(Nat) \X (1..top) |->
                        IF p[2] \in indices THEN p[1] ELSE Append(p[1], p[2])]
<1>1. Missing(indices, top) = upTo[top]
  BY DEF Missing
<1>2. \E f : f = [i \in 0..top |-> R(f, i)]
  <2>1. step \in [Seq(Nat) \X (1..top) -> Seq(Nat)] /\ <<>> \in Seq(Nat)
    OBVIOUS
  <2>2. PICK h : IsHistory(h, top, Seq(Nat), <<>>, step)
    <3>. HIDE DEF step
    <3>. QED
      BY <2>1, HistoryExists
  <2>3. \A i \in 0..top : h[i] = R(h, i)
    <3>1. ASSUME NEW i \in 1..top PROVE h[i] = R(h, i)
      <4>1. h[i] = step[<<h[i - 1], i>>] /\ h[i - 1] \in Seq(Nat)
        <5>. HIDE DEF step
        <5>1. i - 1 \in 0..top
          OBVIOUS
        <5>. QED
          BY <2>2, <5>1 DEF IsHistory
      <4>. QED
        BY <4>1
    <3>2. h[0] = R(h, 0)
      BY <2>2 DEF IsHistory
    <3>. HIDE DEF R
    <3>. QED
      BY <3>1, <3>2
  <2>4. h = [i \in 0..top |-> R(h, i)]
    <3>. HIDE DEF R, step
    <3>. QED
      BY <2>2, <2>3 DEF IsHistory
  <2>. HIDE DEF R
  <2>. QED
    BY <2>4
<1>3. upTo = [i \in 0..top |-> R(upTo, i)]
  <2>. HIDE DEF R
  <2>. QED
    BY <1>2
<1>. HIDE DEF upTo
<1>. DEFINE T == {i \in 0..top :
                    /\ upTo[i] \in Seq(Nat)
                    /\ Entries(upTo[i]) = (1..i) \ indices
                    /\ \A m, n \in DOMAIN upTo[i] : upTo[i][m] = upTo[i][n] => m = n}
<1>4. 0 \in T
  <2>1. upTo[0] = <<>>
    BY <1>3
  <2>2. Entries(<<>>) = {} /\ (1..0) \ indices = {} /\ <<>> \in Seq(Nat) /\ DOMAIN <<>> = {}
    BY DEF Entries
  <2>3. Entries(upTo[0]) = (1..0) \ indices
    BY <2>1, <2>2
  <2>4. 0 \in 0..top /\ \A m, n \in DOMAIN upTo[0] : upTo[0][m] = upTo[0][n] => m = n
    BY <2>1, <2>2
  <2>. QED
    BY <2>1, <2>2, <2>3, <2>4
<1>5. ASSUME NEW k \in 1..top, k - 1 \in T PROVE k \in T
  <2>. DEFINE old == upTo[k - 1]
  <2>1. /\ old \in Seq(Nat) /\ Entries(old) = (1..(k - 1)) \ indices
        /\ \A m, n \in DOMAIN old : old[m] = old[n] => m = n
    BY <1>5
  <2>2. upTo[k] = IF k \in indices THEN old ELSE Append(old, k)
    <3>1. upTo[k] = R(upTo, k)
      <4>. HIDE DEF R
      <4>. QED
        BY <1>3
    <3>. QED
      BY <3>1
  <2>. HIDE DEF old
  <2>3. CASE k \in indices
    <3>1. (1..k) \ indices = (1..(k - 1)) \ indices
      BY <2>3
    <3>. QED
      BY <2>1, <2>2, <2>3, <3>1
  <2>4. CASE k \notin indices
    <3>. DEFINE new == Append(old, k)
    <3>1. /\ new \in Seq(Nat) /\ DOMAIN new = 1..(Len(old) + 1)
          /\ \A m \in 1..Len(old) : new[m] = old[m]
          /\ new[Len(old) + 1] = k
      BY <2>1
    <3>a. DOMAIN new = DOMAIN old \cup {Len(old) + 1} /\ DOMAIN old = 1..Len(old) /\ Len(old) \in Nat
      BY <2>1, <3>1
    <3>. HIDE DEF new
    <3>2. k \notin Entries(old) /\ (1..k) \ indices = ((1..(k - 1)) \ indices) \cup {k}
      BY <2>1, <2>4
    <3>3. Entries(new) = Entries(old) \cup {k}
      BY <3>1, <3>a DEF Entries
    <3>4. \A m \in DOMAIN old : new[m] # k
      BY <3>1, <3>2, <3>a DEF Entries
    <3>5. \A m, n \in DOMAIN new : new[m] = new[n] => m = n
      BY <2>1, <3>1, <3>a, <3>4
    <3>6. upTo[k] = new
      BY <2>2, <2>4 DEF new
    <3>7. Entries(new) = (1..k) \ indices
      BY <2>1, <3>2, <3>3
    <3>. QED
      BY <3>1, <3>5, <3>6, <3>7
  <2>. QED
    BY <2>3, <2>4
<1>6. \A i \in 0..top : i \in T
  <2>. HIDE DEF T
  <2>. QED
    BY <1>4, <1>5, Climb
<1>. QED
  BY <1>1, <1>6

-----------------------------------------------------------------------------
(* Entries selected from a list.                                           *)

\* places is where each entry of out comes from, for the first n of the list.
IsSelection(out, list, chosen, n, places) ==
    /\ \A k \in 1..Len(out) :
          places[k] \in 1..n /\ places[k] \in chosen /\ out[k] = list[places[k]]
    /\ \A j, k \in 1..Len(out) : j < k => places[j] < places[k]
    /\ \A m \in 1..n : m \in chosen => \E k \in 1..Len(out) : places[k] = m

Selects(out, list, chosen, n) == \E places : IsSelection(out, list, chosen, n, places)

\* One more place of the list, whose entry is selected or is not.
LEMMA SelectionGrows ==
    ASSUME NEW T, NEW list \in Seq(T), NEW chosen, NEW n \in 1..Len(list),
           NEW out \in Seq(T), Selects(out, list, chosen, n - 1)
    PROVE  /\ n \in chosen => Selects(Append(out, list[n]), list, chosen, n)
           /\ n \notin chosen => Selects(out, list, chosen, n)
<1>1. PICK places : IsSelection(out, list, chosen, n - 1, places)
  BY DEF Selects
<1>2. Len(out) \in Nat /\ list[n] \in T /\ n \in Nat
  BY ListEntries
<1>3. ASSUME n \notin chosen PROVE Selects(out, list, chosen, n)
  <2>1. IsSelection(out, list, chosen, n, places)
    BY <1>1, <1>2, <1>3 DEF IsSelection
  <2>. QED
    BY <2>1 DEF Selects
<1>4. ASSUME n \in chosen PROVE Selects(Append(out, list[n]), list, chosen, n)
  <2>. DEFINE new == Append(out, list[n])
              more == [k \in 1..Len(new) |-> IF k = Len(new) THEN n ELSE places[k]]
  <2>1. /\ Len(new) = Len(out) + 1 /\ new[Len(new)] = list[n]
        /\ \A k \in 1..Len(out) : new[k] = out[k]
    BY <1>2
  <2>. HIDE DEF new
  <2>2. more[Len(new)] = n /\ \A k \in 1..Len(out) : more[k] = places[k] /\ places[k] \in 1..(n - 1)
    BY <1>1, <1>2, <2>1 DEF IsSelection
  <2>. HIDE DEF more
  <2>3. \A k \in 1..Len(new) : more[k] \in 1..n /\ more[k] \in chosen /\ new[k] = list[more[k]]
    BY <1>1, <1>2, <1>4, <2>1, <2>2 DEF IsSelection
  <2>a. \A k \in 1..Len(new) : k = Len(new) \/ k \in 1..Len(out)
    BY <1>2, <2>1
  <2>4. ASSUME NEW j \in 1..Len(new), NEW k \in 1..Len(new), j < k PROVE more[j] < more[k]
    <3>1. j \in 1..Len(out)
      BY <1>2, <2>1, <2>4
    <3>2. CASE k \in 1..Len(out)
      <4>1. places[j] < places[k]
        BY <1>1, <2>4, <3>1, <3>2 DEF IsSelection
      <4>. QED
        BY <2>2, <3>1, <3>2, <4>1
    <3>3. CASE k = Len(new)
      BY <1>2, <2>2, <3>1, <3>3
    <3>. QED
      BY <2>a, <3>2, <3>3
  <2>5. ASSUME NEW m \in 1..n, m \in chosen PROVE \E k \in 1..Len(new) : more[k] = m
    <3>1. CASE m = n
      BY <1>2, <2>1, <2>2, <3>1
    <3>2. CASE m # n
      <4>1. PICK k \in 1..Len(out) : places[k] = m
        <5>1. m \in 1..(n - 1)
          BY <1>2, <3>2
        <5>. QED
          BY <1>1, <2>5, <5>1 DEF IsSelection
      <4>. QED
        BY <1>2, <2>1, <2>2, <4>1
    <3>. QED
      BY <3>1, <3>2
  <2>6. IsSelection(new, list, chosen, n, more)
    BY <2>3, <2>4, <2>5 DEF IsSelection
  <2>. QED
    BY <2>6 DEF Selects, new
<1>. QED
  BY <1>3, <1>4

\* EntriesAt selects what it is told to.
LEMMA EntriesAtSelects ==
    ASSUME NEW T, NEW list \in Seq(T), NEW chosen
    PROVE  /\ EntriesAt(list, chosen) \in Seq(T)
           /\ Selects(EntriesAt(list, chosen), list, chosen, Len(list))
<1>. DEFINE top == Len(list)
            R(f, n) == IF n = 0 THEN <<>>
                       ELSE IF n \in chosen THEN Append(f[n - 1], list[n]) ELSE f[n - 1]
            upTo == CHOOSE f : f = [n \in 0..top |-> R(f, n)]
            step == [p \in Seq(T) \X (1..top) |->
                        IF p[2] \in chosen THEN Append(p[1], list[p[2]]) ELSE p[1]]
<1>1. EntriesAt(list, chosen) = upTo[top]
  BY DEF EntriesAt
<1>2. top \in Nat /\ \A n \in 1..top : list[n] \in T
  BY ListEntries
<1>3. \E f : f = [n \in 0..top |-> R(f, n)]
  <2>1. step \in [Seq(T) \X (1..top) -> Seq(T)] /\ <<>> \in Seq(T)
    BY <1>2
  <2>2. PICK h : IsHistory(h, top, Seq(T), <<>>, step)
    <3>. HIDE DEF step, top
    <3>. QED
      BY <1>2, <2>1, HistoryExists
  <2>3. \A n \in 0..top : h[n] = R(h, n)
    <3>1. ASSUME NEW n \in 1..top PROVE h[n] = R(h, n)
      <4>1. h[n] = step[<<h[n - 1], n>>] /\ h[n - 1] \in Seq(T)
        <5>. HIDE DEF step
        <5>1. n - 1 \in 0..top
          BY <1>2
        <5>. QED
          BY <2>2, <5>1 DEF IsHistory
      <4>. QED
        BY <4>1
    <3>2. h[0] = R(h, 0)
      BY <2>2 DEF IsHistory
    <3>. HIDE DEF R
    <3>. QED
      BY <1>2, <3>1, <3>2
  <2>4. h = [n \in 0..top |-> R(h, n)]
    <3>. HIDE DEF R, step
    <3>. QED
      BY <2>2, <2>3 DEF IsHistory
  <2>. HIDE DEF R
  <2>. QED
    BY <2>4
<1>4. upTo = [n \in 0..top |-> R(upTo, n)]
  <2>. HIDE DEF R
  <2>. QED
    BY <1>3
<1>. HIDE DEF upTo
<1>. DEFINE D == {n \in 0..top : upTo[n] \in Seq(T) /\ Selects(upTo[n], list, chosen, n)}
<1>5. 0 \in D
  <2>1. upTo[0] = <<>> /\ Len(<<>>) = 0
    BY <1>2, <1>4
  <2>2. IsSelection(<<>>, list, chosen, 0, <<>>)
    BY DEF IsSelection
  <2>3. upTo[0] \in Seq(T) /\ Selects(upTo[0], list, chosen, 0)
    BY <2>1, <2>2 DEF Selects
  <2>. QED
    BY <1>2, <2>3
<1>6. ASSUME NEW n \in 1..top, n - 1 \in D PROVE n \in D
  <2>1. upTo[n - 1] \in Seq(T) /\ Selects(upTo[n - 1], list, chosen, n - 1)
    BY <1>6
  <2>2. upTo[n] = IF n \in chosen THEN Append(upTo[n - 1], list[n]) ELSE upTo[n - 1]
    <3>1. upTo[n] = R(upTo, n)
      <4>. HIDE DEF R
      <4>. QED
        BY <1>2, <1>4
    <3>. QED
      BY <1>2, <3>1
  <2>3. /\ n \in chosen => Selects(Append(upTo[n - 1], list[n]), list, chosen, n)
        /\ n \notin chosen => Selects(upTo[n - 1], list, chosen, n)
    BY <1>2, <2>1, SelectionGrows
  <2>4. upTo[n] \in Seq(T)
    BY <1>2, <2>1, <2>2
  <2>5. Selects(upTo[n], list, chosen, n)
    BY <2>2, <2>3
  <2>. QED
    BY <1>2, <2>4, <2>5
<1>7. \A n \in 0..top : n \in D
  <2>. HIDE DEF D, top
  <2>. QED
    BY <1>2, <1>5, <1>6, Climb
<1>. QED
  BY <1>1, <1>2, <1>7

\* What is selected: the entries at the chosen places, and only those.
LEMMA EntriesAtAre ==
    ASSUME NEW T, NEW list \in Seq(T), NEW chosen, chosen \subseteq DOMAIN list
    PROVE  Entries(EntriesAt(list, chosen)) = {list[n] : n \in chosen}
<1>. DEFINE out == EntriesAt(list, chosen)
<1>1. PICK places : IsSelection(out, list, chosen, Len(list), places)
  BY EntriesAtSelects DEF Selects
<1>2. DOMAIN list = 1..Len(list) /\ DOMAIN out = 1..Len(out)
  BY EntriesAtSelects, ListEntries
<1>. HIDE DEF out
<1>3. ASSUME NEW k \in DOMAIN out PROVE out[k] \in {list[n] : n \in chosen}
  BY <1>1, <1>2 DEF IsSelection
<1>4. ASSUME NEW n \in chosen PROVE \E k \in DOMAIN out : out[k] = list[n]
  BY <1>1, <1>2 DEF IsSelection
<1>5. Entries(out) = {list[n] : n \in chosen}
  BY <1>3, <1>4 DEF Entries
<1>. QED
  BY <1>5 DEF out

-----------------------------------------------------------------------------
(* Totals.                                                                 *)

\* Cheques that can stand in one ledger: each has an index of its own.
Distinct(E) ==
    /\ IsFiniteSet(E)
    /\ \A c \in E : c.index \in Nat /\ c.amount \in Nat
    /\ \A c, d \in E : c.index = d.index => c = d

LEMMA TotalIsSum ==
    ASSUME NEW S, NEW w, \A r \in S : w[r] = r.amount
    PROVE  Total(S) = SumOver(S, w)
<1>. DEFINE G(f) == [s \in SUBSET S |->
                       IF s = {} THEN 0
                       ELSE LET x == CHOOSE x \in s : TRUE IN x.amount + f[s \ {x}]]
<1>1. Total(S) = (CHOOSE f : f = G(f))[S]
  BY DEF Total, MapThenSumSet, MapThenFoldSet
<1>2. ASSUME NEW f PROVE G(f) = Weigh(f, S, w)
  BY DEF Weigh
<1>. HIDE DEF G
<1>3. (CHOOSE f : f = G(f)) = CHOOSE f : f = Weigh(f, S, w)
  BY <1>2
<1>. QED
  BY <1>1, <1>3 DEF SumOver, Sums

\* Totals of distinct cheques: what one more adds, and what a part has.
LEMMA TotalAdds ==
    ASSUME NEW E, Distinct(E), NEW C \in SUBSET E
    PROVE  /\ Total(C) \in Nat /\ Total({}) = 0
           /\ Total(C) <= Total(E)
           /\ \A c \in E \ C : Total(C \cup {c}) = Total(C) + c.amount
<1>. DEFINE w == [r \in E |-> r.amount]
<1>1. IsFiniteSet(E) /\ \A r \in E : w[r] \in Nat /\ w[r] = r.amount
  BY DEF Distinct
<1>. HIDE DEF w
<1>2. \A s \in SUBSET E : Total(s) = SumOver(s, w)
  BY <1>1, TotalIsSum
<1>3. \A s \in SUBSET E : Total(s) \in Nat
  BY <1>1, <1>2, SumType
<1>4. Total({}) = 0
  BY <1>1, <1>2, SumPicks
<1>5. Total(C) <= Total(E)
  BY <1>1, <1>2, SumMonotone
<1>6. ASSUME NEW c \in E \ C PROVE Total(C \cup {c}) = Total(C) + c.amount
  <2>1. C \cup {c} \in SUBSET E /\ (C \cup {c}) \ {c} = C
    OBVIOUS
  <2>2. SumOver(C \cup {c}, w) = w[c] + SumOver(C, w)
    BY <1>1, <2>1, SumRemoves
  <2>3. Total(C) \in Nat /\ w[c] \in Nat /\ w[c] = c.amount
    BY <1>1, <1>3
  <2>. QED
    BY <1>2, <2>1, <2>2, <2>3
<1>. QED
  BY <1>3, <1>4, <1>5, <1>6

\* The squash of a set of cheques accounts for them, and its walk starts at
\* a point.
LEMMA SquashAccounts ==
    ASSUME NEW E, Distinct(E), NEW S \in SUBSET E
    PROVE  LET squash == SquashOf(S)
               at == [index |-> squash.index, exclude |-> squash.exclude]
           IN  /\ squash.amount = Total(S)
               /\ at \in Points
               /\ \A c \in S : Accounted(at, c.index)
<1>. DEFINE indices == {c.index : c \in S}
            top == IF S = {} THEN 0 ELSE CHOOSE i \in indices : \A j \in indices : j <= i
            exclude == Missing(indices, top)
            at == [index |-> top, exclude |-> exclude]
<1>1. SquashOf(S) = [amount |-> Total(S), index |-> top, exclude |-> exclude]
  BY DEF SquashOf
<1>2. IsFiniteSet(S) /\ indices \subseteq Nat /\ IsFiniteSet(indices)
  <2>1. IsFiniteSet(S)
    BY FS_Subset DEF Distinct
  <2>2. indices \subseteq Nat
    BY DEF Distinct
  <2>3. IsFiniteSet(indices)
    <3>. DEFINE f == [c \in S |-> c.index]
    <3>1. f \in Surjection(S, indices)
      BY DEF Surjection
    <3>. HIDE DEF f, indices
    <3>. QED
      BY <2>1, <3>1, FS_Surjection
  <2>. QED
    BY <2>1, <2>2, <2>3
<1>3. top \in Nat /\ \A j \in indices : j <= top
  <2>1. S # {} => indices # {}
    OBVIOUS
  <2>2. indices # {} => \E i \in indices : \A j \in indices : j <= i
    <3>. HIDE DEF indices
    <3>. QED
      BY <1>2, GreatestNatural
  <2>3. S = {} => indices = {}
    OBVIOUS
  <2>. HIDE DEF indices
  <2>. QED
    BY <1>2, <2>1, <2>2, <2>3
<1>. HIDE DEF top
<1>4. /\ exclude \in Seq(Nat) /\ Entries(exclude) = (1..top) \ indices
      /\ \A m, n \in DOMAIN exclude : exclude[m] = exclude[n] => m = n
  <2>. HIDE DEF indices
  <2>. QED
    BY <1>3, MissingIsLeftOut
<1>. HIDE DEF exclude
<1>5. \A n \in DOMAIN exclude : exclude[n] <= top
  <2>1. \A n \in DOMAIN exclude : exclude[n] \in Entries(exclude)
    BY DEF Entries
  <2>. HIDE DEF indices
  <2>. QED
    BY <1>3, <1>4, <2>1
<1>6. at \in Points
  <2>. HIDE DEF indices
  <2>. QED
    BY <1>3, <1>4, <1>5 DEF Points
<1>7. ASSUME NEW c \in S PROVE Accounted(at, c.index)
  <2>1. c.index \in indices
    OBVIOUS
  <2>. HIDE DEF indices
  <2>. QED
    BY <1>3, <1>4, <2>1 DEF Accounted
<1>. HIDE DEF at
<1>. QED
  BY <1>1, <1>6, <1>7 DEF at

-----------------------------------------------------------------------------
(* The walk of a Sub over the useds of the new datum.                      *)

UsedsOf(E) == {UsedOf(c) : c \in E}

\* What an accumulator may hold where E has been earned and U can be shown:
\* as long as the walk holds, it owes the total of cheques of E, all of them
\* accounted for at the point it has reached.
SubStates(E, U) ==
    {acc \in [ok : BOOLEAN, owed : Nat, useds : Seq(UsedsOf(E)), unlockeds : Seq(U), at : Points] :
        acc.ok => \E C \in SUBSET E :
                     acc.owed = Total(C) /\ \A c \in C : Accounted(acc.at, c.index)}

\* Only earned cheques are vouched for by what can be shown.
VouchedFor(signed, upper, E, U) ==
    \A u \in U : \A used \in [index : Nat, amount : Nat] :
        Vouches(signed, upper, u, used) => used \in UsedsOf(E)

\* One more used: the walk stays sound, or fails for good.
LEMMA SubWithKeeps ==
    ASSUME NEW E, Distinct(E), NEW U, NEW signed, NEW upper, VouchedFor(signed, upper, E, U),
           NEW acc \in SubStates(E, U), NEW used \in [index : Nat, amount : Nat]
    PROVE  /\ SubWith(signed, upper, acc, used) \in SubStates(E, U)
           /\ SubWith(signed, upper, acc, used).ok => acc.ok /\ used \in UsedsOf(E)
<1>. DEFINE useds == DropUntil(acc.useds, used.index)
            kept  == useds # <<>> /\ Head(useds).index = used.index
            holds == /\ acc.ok
                     /\ IF kept THEN Head(useds) = used
                        ELSE /\ acc.unlockeds # <<>>
                             /\ Vouches(signed, upper, Head(acc.unlockeds), used)
                     /\ IsUnaccounted(acc.at, used.index)
            failed == [acc EXCEPT !.ok = FALSE]
            next == [ok        |-> TRUE,
                     owed      |-> acc.owed + used.amount,
                     useds     |-> IF kept THEN Tail(useds) ELSE useds,
                     unlockeds |-> IF kept THEN acc.unlockeds ELSE Tail(acc.unlockeds),
                     at        |-> NextIndex(acc.at, used.index)]
<1>1. SubWith(signed, upper, acc, used) = IF ~holds THEN failed ELSE next
  BY DEF SubWith
<1>2. acc \in [ok : BOOLEAN, owed : Nat, useds : Seq(UsedsOf(E)), unlockeds : Seq(U), at : Points]
  BY DEF SubStates
<1>3. useds \in Seq(UsedsOf(E))
  BY <1>2, DropUntilType
<1>4. CASE ~holds
  <2>1. failed \in SubStates(E, U) /\ failed.ok = FALSE
    <3>1. failed \in [ok : BOOLEAN, owed : Nat, useds : Seq(UsedsOf(E)), unlockeds : Seq(U), at : Points]
          /\ failed.ok = FALSE
      BY <1>2
    <3>. HIDE DEF failed
    <3>. QED
      BY <3>1 DEF SubStates
  <2>. HIDE DEF failed, next, holds
  <2>. QED
    BY <1>1, <1>4, <2>1
<1>5. CASE holds
  <2>. HIDE DEF useds
  <2>1. acc.ok /\ IsUnaccounted(acc.at, used.index)
    BY <1>5
  <2>2. used \in UsedsOf(E)
    <3>1. CASE kept
      BY <1>3, <1>5, <3>1
    <3>2. CASE ~kept
      <4>1. acc.unlockeds # <<>> /\ Vouches(signed, upper, Head(acc.unlockeds), used)
        BY <1>5, <3>2
      <4>2. Head(acc.unlockeds) \in U
        BY <1>2, <4>1
      <4>. QED
        BY <4>1, <4>2 DEF VouchedFor
    <3>. QED
      BY <3>1, <3>2
  <2>3. PICK c \in E : used = UsedOf(c)
    BY <2>2 DEF UsedsOf
  <2>4. used.index = c.index /\ used.amount = c.amount /\ c.index \in Nat /\ c.amount \in Nat
    BY <2>3 DEF UsedOf, Distinct
  <2>5. PICK C \in SUBSET E : acc.owed = Total(C) /\ \A d \in C : Accounted(acc.at, d.index)
    BY <2>1 DEF SubStates
  <2>. DEFINE at == NextIndex(acc.at, used.index)
  <2>6. /\ at \in Points /\ ~Accounted(acc.at, used.index) /\ Accounted(at, used.index)
        /\ \A i \in Nat : Accounted(acc.at, i) => Accounted(at, i)
    BY <1>2, <2>1, <2>4, NextIndexAccounts
  <2>7. c \notin C
    BY <2>4, <2>5, <2>6
  <2>8. acc.owed + used.amount = Total(C \cup {c})
    BY <2>4, <2>5, <2>7, TotalAdds
  <2>. HIDE DEF at
  <2>9. \A d \in C \cup {c} : Accounted(at, d.index)
    BY <2>4, <2>5, <2>6 DEF Distinct
  <2>10. next \in [ok : BOOLEAN, owed : Nat, useds : Seq(UsedsOf(E)), unlockeds : Seq(U), at : Points]
         /\ next.ok = TRUE /\ next.owed = acc.owed + used.amount /\ next.at = at
    <3>1. acc.owed + used.amount \in Nat
      BY <1>2, <2>4
    <3>2. (IF kept THEN Tail(useds) ELSE useds) \in Seq(UsedsOf(E))
      BY <1>3
    <3>3. (IF kept THEN acc.unlockeds ELSE Tail(acc.unlockeds)) \in Seq(U)
      BY <1>2, <1>5
    <3>. QED
      BY <2>6, <3>1, <3>2, <3>3 DEF at
  <2>. HIDE DEF next
  <2>11. next \in SubStates(E, U)
    <3>1. C \cup {c} \in SUBSET E
      OBVIOUS
    <3>. QED
      BY <2>8, <2>9, <2>10, <3>1 DEF SubStates
  <2>. HIDE DEF holds, failed
  <2>. QED
    BY <1>1, <1>5, <2>1, <2>2, <2>11
<1>. QED
  BY <1>4, <1>5

\* The accumulator a Sub starts with.
SubBefore(signed, usedsIn, squash, unlockeds) ==
    [ok        |-> squash \in signed,
     owed      |-> squash.amount,
     useds     |-> usedsIn,
     unlockeds |-> unlockeds,
     at        |-> [index |-> squash.index, exclude |-> squash.exclude]]

\* SubAccount one used after the other, in a set of accumulators it stays in.
SubStaysIn(State, n, signed, upper, usedsOut) ==
    \A acc \in State : \A k \in 1..n : SubWith(signed, upper, acc, usedsOut[k]) \in State
IsSubWalk(h, n, State, signed, upper, usedsOut) ==
    /\ \A k \in 0..n : h[k] \in State
    /\ \A k \in 1..n : h[k] = SubWith(signed, upper, h[k - 1], usedsOut[k])

LEMMA SubAccountSteps ==
    ASSUME NEW signed, NEW upper, NEW usedsIn, NEW usedsOut, NEW squash, NEW unlockeds,
           NEW State, NEW n \in Nat, DOMAIN usedsOut = 1..n,
           SubStaysIn(State, n, signed, upper, usedsOut),
           SubBefore(signed, usedsIn, squash, unlockeds) \in State
    PROVE  \E h :
              /\ IsSubWalk(h, n, State, signed, upper, usedsOut)
              /\ h[0] = SubBefore(signed, usedsIn, squash, unlockeds)
              /\ SubAccount(signed, upper, usedsIn, usedsOut, squash, unlockeds) = h[n]
<1>. DEFINE base == SubBefore(signed, usedsIn, squash, unlockeds)
            F(iter) == [s \in SUBSET (1..n) |->
                          IF s = {} THEN base
                          ELSE SubWith(signed, upper, iter[s \ {Max(s)}], usedsOut[Max(s)])]
            step == [p \in State \X (1..n) |-> SubWith(signed, upper, p[1], usedsOut[p[2]])]
            it == CHOOSE iter : iter = F(iter)
<1>1. SubAccount(signed, upper, usedsIn, usedsOut, squash, unlockeds) = it[1..n]
  BY DEF SubAccount, SubBefore, FoldLeft, MapThenFoldSet
<1>a. base \in State
  OBVIOUS
<1>. HIDE DEF base
<1>2. step \in [State \X (1..n) -> State]
  BY DEF SubStaysIn
<1>3. PICK walk : IsWalk(walk, n, State, base, step)
  <2>. HIDE DEF step
  <2>. QED
    BY <1>a, <1>2, WalkExists
<1>4. ASSUME NEW s \in SUBSET (1..n)
      PROVE  walk[s] = IF s = {} THEN base
                       ELSE SubWith(signed, upper, walk[s \ {Max(s)}], usedsOut[Max(s)])
  <2>1. CASE s = {}
    BY <1>3, <2>1 DEF IsWalk
  <2>2. CASE s # {}
    <3>1. Max(s) \in 1..n /\ s \ {Max(s)} \in SUBSET (1..n)
      BY <2>2, MaxIsIn
    <3>2. walk[s] = step[<<walk[s \ {Max(s)}], Max(s)>>] /\ walk[s \ {Max(s)}] \in State
      <4>. HIDE DEF step
      <4>. QED
        BY <1>3, <2>2, <3>1 DEF IsWalk
    <3>. QED
      BY <2>2, <3>1, <3>2
  <2>. QED
    BY <2>1, <2>2
<1>5. walk = F(walk)
  BY <1>3, <1>4 DEF IsWalk
<1>6. it = F(it)
  <2>. HIDE DEF F
  <2>. QED
    BY <1>5
<1>. HIDE DEF it
<1>7. \A s \in SUBSET (1..n) :
          it[s] = IF s = {} THEN base ELSE SubWith(signed, upper, it[s \ {Max(s)}], usedsOut[Max(s)])
  BY <1>6
<1>. DEFINE h == [k \in 0..n |-> it[1..k]]
<1>8. h[0] = base
  <2>1. h[0] = it[1..0] /\ 1..0 = {}
    OBVIOUS
  <2>2. it[{}] = base
    BY <1>7
  <2>. HIDE DEF h
  <2>. QED
    BY <2>1, <2>2
<1>9. ASSUME NEW k \in 1..n PROVE h[k] = SubWith(signed, upper, h[k - 1], usedsOut[k])
  <2>1. h[k] = it[1..k] /\ h[k - 1] = it[1..(k - 1)]
    OBVIOUS
  <2>2. 1..k \in SUBSET (1..n)
    OBVIOUS
  <2>3. Max(1..k) = k /\ (1..k) \ {k} = 1..(k - 1) /\ 1..k # {}
    <3>1. k \in Nat \ {0}
      OBVIOUS
    <3>. QED
      BY <3>1, MaxOfFirst
  <2>4. it[1..k] = SubWith(signed, upper, it[1..(k - 1)], usedsOut[k])
    BY <1>7, <2>2, <2>3
  <2>. HIDE DEF h
  <2>. QED
    BY <2>1, <2>4
<1>10. h[n] = it[1..n]
  OBVIOUS
<1>. HIDE DEF h
<1>11. \A k \in 0..n : h[k] \in State
  <2>. DEFINE T == {k \in 0..n : h[k] \in State}
  <2>1. 0 \in T
    BY <1>a, <1>8
  <2>2. \A k \in 1..n : k - 1 \in T => k \in T
    BY <1>9 DEF SubStaysIn
  <2>3. \A k \in 0..n : k \in T
    <3>. HIDE DEF T
    <3>. QED
      BY <2>1, <2>2, Climb
  <2>. QED
    BY <2>3
<1>. QED
  BY <1>1, <1>8, <1>9, <1>10, <1>11 DEF IsSubWalk, base

\* The point a walk over a squash starts at, and what the squash stands for.
StartOf(squash) == [index |-> squash.index, exclude |-> squash.exclude]
StandsFor(squash, S) ==
    /\ squash.amount = Total(S) /\ StartOf(squash) \in Points
    /\ \A c \in S : Accounted(StartOf(squash), c.index)

\* No walk over useds makes up for a squash that is not signed.
LEMMA SubNeedsSquash ==
    ASSUME NEW signed, NEW upper, NEW usedsIn, NEW T, NEW usedsOut \in Seq(T), NEW squash, NEW unlockeds,
           SubAccount(signed, upper, usedsIn, usedsOut, squash, unlockeds).ok
    PROVE  squash \in signed
<1>. DEFINE n == Len(usedsOut)
            at == [index |-> squash.index, exclude |-> squash.exclude]
            State == [ok : {FALSE}, owed : {squash.amount}, useds : {usedsIn},
                      unlockeds : {unlockeds}, at : {at}]
            account == SubAccount(signed, upper, usedsIn, usedsOut, squash, unlockeds)
<1>. SUFFICES ASSUME squash \notin signed PROVE ~account.ok
  OBVIOUS
<1>1. n \in Nat /\ DOMAIN usedsOut = 1..n
  OBVIOUS
<1>2. SubBefore(signed, usedsIn, squash, unlockeds) \in State
  <2>1. (squash \in signed) = FALSE
    OBVIOUS
  <2>. HIDE DEF at
  <2>. QED
    BY <2>1 DEF SubBefore, at
<1>. HIDE DEF n, at, account
<1>3. ASSUME NEW acc \in State, NEW used PROVE SubWith(signed, upper, acc, used) \in State
  <2>1. acc.ok = FALSE /\ [acc EXCEPT !.ok = FALSE] \in State
    OBVIOUS
  <2>. HIDE DEF State
  <2>. QED
    BY <2>1 DEF SubWith
<1>4. SubStaysIn(State, n, signed, upper, usedsOut)
  BY <1>3 DEF SubStaysIn
<1>5. account \in State
  <2>. HIDE DEF State
  <2>1. PICK h : /\ IsSubWalk(h, n, State, signed, upper, usedsOut)
                 /\ SubAccount(signed, upper, usedsIn, usedsOut, squash, unlockeds) = h[n]
    BY <1>1, <1>2, <1>4, SubAccountSteps
  <2>. QED
    BY <1>1, <2>1 DEF IsSubWalk, account
<1>. QED
  BY <1>5

LEMMA SubWithSteps ==
    ASSUME NEW E, NEW U, NEW signed, NEW upper, NEW acc \in SubStates(E, U), NEW used,
           SubWith(signed, upper, acc, used).ok
    PROVE  /\ IsUnaccounted(acc.at, used.index)
           /\ SubWith(signed, upper, acc, used).at = NextIndex(acc.at, used.index)
<1>1. acc \in [ok : BOOLEAN, owed : Nat, useds : Seq(UsedsOf(E)), unlockeds : Seq(U), at : Points]
  BY DEF SubStates
<1>2. [acc EXCEPT !.ok = FALSE].ok = FALSE
  BY <1>1
<1>. QED
  BY <1>2 DEF SubWith

\* The walk over a squash that covers cheques of E: it owes no more than E is
\* worth, and the useds it leaves are of E, of one index each.
LEMMA SubOwesCovered ==
    ASSUME NEW E, Distinct(E), NEW U, NEW signed, NEW upper, VouchedFor(signed, upper, E, U),
           NEW usedsIn \in Seq(UsedsOf(E)), NEW usedsOut \in Seq([index : Nat, amount : Nat]),
           NEW unlockeds \in Seq(U), NEW squash, NEW S \in SUBSET E, StandsFor(squash, S),
           SubAccount(signed, upper, usedsIn, usedsOut, squash, unlockeds).ok
    PROVE  /\ SubAccount(signed, upper, usedsIn, usedsOut, squash, unlockeds).owed \in 0..Total(E)
           /\ usedsOut \in Seq(UsedsOf(E))
           /\ \A j, k \in DOMAIN usedsOut : usedsOut[j].index = usedsOut[k].index => j = k
<1>. DEFINE n == Len(usedsOut)
            State == SubStates(E, U)
            account == SubAccount(signed, upper, usedsIn, usedsOut, squash, unlockeds)
<1>1. n \in Nat /\ DOMAIN usedsOut = 1..n /\ \A k \in 1..n : usedsOut[k] \in [index : Nat, amount : Nat]
  BY ListEntries
<1>. HIDE DEF n
<1>2. \A acc \in State : \A k \in 1..n :
         /\ SubWith(signed, upper, acc, usedsOut[k]) \in State
         /\ SubWith(signed, upper, acc, usedsOut[k]).ok => acc.ok /\ usedsOut[k] \in UsedsOf(E)
  BY <1>1, SubWithKeeps
<1>3. SubBefore(signed, usedsIn, squash, unlockeds) \in State
  <2>. DEFINE at == StartOf(squash)
              base == SubBefore(signed, usedsIn, squash, unlockeds)
  <2>1. squash.amount = Total(S) /\ at \in Points /\ \A c \in S : Accounted(at, c.index)
    BY DEF StandsFor
  <2>2. Total(S) \in Nat
    BY TotalAdds
  <2>3. base.owed = squash.amount /\ base.at = at
    BY DEF SubBefore, StartOf
  <2>. HIDE DEF at
  <2>4. base \in [ok : BOOLEAN, owed : Nat, useds : Seq(UsedsOf(E)), unlockeds : Seq(U), at : Points]
    BY <2>1, <2>2 DEF SubBefore, StartOf, at
  <2>. HIDE DEF base
  <2>. QED
    BY <2>1, <2>3, <2>4 DEF SubStates, base
<1>. HIDE DEF State
<1>a. PICK h : IsSubWalk(h, n, State, signed, upper, usedsOut) /\ account = h[n]
  <2>1. SubStaysIn(State, n, signed, upper, usedsOut)
    BY <1>2 DEF SubStaysIn
  <2>2. \E h : /\ IsSubWalk(h, n, State, signed, upper, usedsOut)
               /\ SubAccount(signed, upper, usedsIn, usedsOut, squash, unlockeds) = h[n]
    <3>1. n \in Nat /\ DOMAIN usedsOut = 1..n
      BY <1>1
    <3>. HIDE DEF account
    <3>. QED
      BY ONLY <1>3, <2>1, <3>1, SubAccountSteps, SMT
  <2>. QED
    BY <2>2, Zenon
<1>4. /\ \A k \in 0..n : h[k] \in State
      /\ \A k \in 1..n : h[k] = SubWith(signed, upper, h[k - 1], usedsOut[k])
      /\ account = h[n]
  BY <1>a DEF IsSubWalk
<1>5. h[n].ok
  BY <1>4
<1>6. \A k \in 0..n : h[k].ok
  <2>. DEFINE T == {k \in 0..n : h[n - k].ok}
  <2>1. 0 \in T
    BY <1>1, <1>5
  <2>2. ASSUME NEW k \in 1..n, k - 1 \in T PROVE k \in T
    <3>. DEFINE m == n - (k - 1)
    <3>1. m \in 1..n /\ m - 1 = n - k /\ n - k \in 0..n /\ k \in 0..n
      BY <1>1
    <3>2. h[m].ok
      BY <2>2
    <3>. HIDE DEF m, T
    <3>3. h[m - 1] \in State /\ h[m] = SubWith(signed, upper, h[m - 1], usedsOut[m])
      BY <1>4, <3>1
    <3>4. h[m - 1].ok
      BY <1>2, <3>1, <3>2, <3>3
    <3>. QED
      BY <3>1, <3>4 DEF T
  <2>3. \A k \in 0..n : k \in T
    <3>. HIDE DEF T
    <3>. QED
      BY <1>1, <2>1, <2>2, Climb
  <2>4. ASSUME NEW k \in 0..n PROVE h[k].ok
    <3>1. n - k \in 0..n /\ n - (n - k) = k
      BY <1>1
    <3>2. n - k \in T
      BY <2>3, <3>1
    <3>. QED
      BY <3>1, <3>2
  <2>. QED
    BY <2>4
<1>7. usedsOut \in Seq(UsedsOf(E))
  <2>1. \A k \in 1..n : usedsOut[k] \in UsedsOf(E)
    <3>. TAKE k \in 1..n
    <3>1. k \in 0..n /\ k - 1 \in 0..n
      BY <1>1
    <3>2. h[k - 1] \in State /\ SubWith(signed, upper, h[k - 1], usedsOut[k]).ok
      BY <1>4, <1>6, <3>1
    <3>. QED
      BY <1>2, <3>2
  <2>. QED
    BY <1>1, <2>1
<1>8. h[n].owed \in 0..Total(E)
  <2>1. h[n] \in SubStates(E, U)
    BY <1>1, <1>4 DEF State
  <2>2. PICK C \in SUBSET E : h[n].owed = Total(C)
    BY <1>5, <2>1 DEF SubStates
  <2>3. Total(C) \in Nat /\ Total(E) \in Nat /\ Total(C) <= Total(E)
    BY TotalAdds
  <2>. QED
    BY <2>2, <2>3
<1>9. \A k \in 1..n : /\ usedsOut[k].index \in Nat
                      /\ ~Accounted(h[k - 1].at, usedsOut[k].index)
                      /\ Accounted(h[k].at, usedsOut[k].index)
                      /\ \A i \in Nat : Accounted(h[k - 1].at, i) => Accounted(h[k].at, i)
  <2>1. ASSUME NEW k \in 1..n
        PROVE  /\ usedsOut[k].index \in Nat
               /\ ~Accounted(h[k - 1].at, usedsOut[k].index)
               /\ Accounted(h[k].at, usedsOut[k].index)
               /\ \A i \in Nat : Accounted(h[k - 1].at, i) => Accounted(h[k].at, i)
    <3>. DEFINE acc == h[k - 1]
    <3>a. k - 1 \in 0..n /\ k \in 0..n
      BY <1>1
    <3>1. /\ acc \in SubStates(E, U) /\ SubWith(signed, upper, acc, usedsOut[k]).ok
          /\ h[k] = SubWith(signed, upper, acc, usedsOut[k])
      BY <1>4, <1>6, <3>a DEF State
    <3>. HIDE DEF acc
    <3>2. usedsOut[k].index \in Nat /\ acc.at \in Points
      BY <1>1, <2>1, <3>1 DEF SubStates
    <3>3. /\ IsUnaccounted(acc.at, usedsOut[k].index)
          /\ SubWith(signed, upper, acc, usedsOut[k]).at = NextIndex(acc.at, usedsOut[k].index)
      BY <3>1, SubWithSteps
    <3>. QED
      BY <3>1, <3>2, <3>3, NextIndexAccounts DEF acc
  <2>. QED
    BY <2>1
<1>10. ASSUME NEW j \in 1..n, NEW k \in 1..n, usedsOut[j].index = usedsOut[k].index, j < k
       PROVE FALSE
  <2>. DEFINE i == usedsOut[j].index
              T == {m \in 0..(k - 1) : m < j \/ Accounted(h[m].at, i)}
  <2>1. 0 \in T
    BY <1>1, <1>10
  <2>2. ASSUME NEW m \in 1..(k - 1), m - 1 \in T PROVE m \in T
    <3>1. m \in 1..n /\ i \in Nat
      BY <1>1, <1>9, <1>10
    <3>2. m \in 0..(k - 1) /\ (m < j \/ m = j \/ ~(m - 1 < j))
      BY <1>10, <2>2
    <3>3. m = j => Accounted(h[m].at, i)
      BY <1>9, <3>1
    <3>4. ~(m - 1 < j) => Accounted(h[m - 1].at, i)
      BY <2>2
    <3>5. Accounted(h[m - 1].at, i) => Accounted(h[m].at, i)
      BY <1>9, <3>1
    <3>. HIDE DEF i
    <3>. QED
      BY <3>2, <3>3, <3>4, <3>5
  <2>3. \A m \in 0..(k - 1) : m \in T
    <3>1. k - 1 \in Nat
      BY <1>1
    <3>. HIDE DEF T
    <3>. QED
      BY <2>1, <2>2, <3>1, Climb
  <2>4. k - 1 \in 0..(k - 1) /\ ~(k - 1 < j)
    BY <1>1, <1>10
  <2>. QED
    BY <1>9, <1>10, <2>3, <2>4
<1>11. \A j, k \in DOMAIN usedsOut : usedsOut[j].index = usedsOut[k].index => j = k
  <2>1. ASSUME NEW j \in 1..n, NEW k \in 1..n, usedsOut[j].index = usedsOut[k].index PROVE j = k
    <3>1. ~(j < k) /\ ~(k < j)
      BY <1>10, <2>1
    <3>. QED
      BY <1>1, <3>1
  <2>. QED
    BY <1>1, <2>1
<1>. QED
  BY <1>4, <1>7, <1>8, <1>11

(* Whatever squash, useds and unlocked cheques a Sub brings along, the walk
   that accepts them owes no more than the cheques that were earned, each of
   them counted once, and leaves only useds of earned cheques. *)
THEOREM SubOwesEarned ==
    ASSUME NEW E, Distinct(E), NEW U, NEW signed, NEW upper, VouchedFor(signed, upper, E, U),
           NEW usedsIn \in Seq(UsedsOf(E)), NEW usedsOut \in Seq([index : Nat, amount : Nat]),
           NEW unlockeds \in Seq(U), NEW S \in SUBSET E,
           SubAccount(signed, upper, usedsIn, usedsOut, SquashOf(S), unlockeds).ok
    PROVE  /\ SubAccount(signed, upper, usedsIn, usedsOut, SquashOf(S), unlockeds).owed \in 0..Total(E)
           /\ usedsOut \in Seq(UsedsOf(E))
<1>1. StandsFor(SquashOf(S), S)
  BY SquashAccounts DEF StandsFor, StartOf
<1>. QED
  BY <1>1, SubOwesCovered

-----------------------------------------------------------------------------
(* The total of a list.                                                    *)

LEMMA ListTotalIsSum ==
    ASSUME NEW list, NEW w, \A n \in DOMAIN list : w[n] = list[n].amount
    PROVE  ListTotal(list) = SumOver(DOMAIN list, w)
<1>. DEFINE D == DOMAIN list
            G(f) == [s \in SUBSET D |->
                       IF s = {} THEN 0
                       ELSE LET x == CHOOSE x \in s : TRUE IN list[x].amount + f[s \ {x}]]
<1>1. ListTotal(list) = (CHOOSE f : f = G(f))[D]
  BY DEF ListTotal, MapThenSumSet, MapThenFoldSet
<1>2. ASSUME NEW f PROVE G(f) = Weigh(f, D, w)
  BY DEF Weigh
<1>. HIDE DEF G
<1>3. (CHOOSE f : f = G(f)) = CHOOSE f : f = Weigh(f, D, w)
  BY <1>2
<1>. QED
  BY <1>1, <1>3 DEF SumOver, Sums

\* Records that have an amount.
HaveAmounts(P) == \A p \in P : p.amount \in Nat

\* A list is worth its first entry and the rest.
LEMMA ListTotalTail ==
    ASSUME NEW P, HaveAmounts(P), NEW list \in Seq(P)
    PROVE  /\ ListTotal(list) \in Nat
           /\ list = <<>> => ListTotal(list) = 0
           /\ list # <<>> => ListTotal(list) = Head(list).amount + ListTotal(Tail(list))
<1>. DEFINE w == [n \in DOMAIN list |-> list[n].amount]
<1>1. DOMAIN list = 1..Len(list) /\ Len(list) \in Nat /\ \A k \in 1..Len(list) : list[k] \in P
  BY ListEntries
<1>2. IsFiniteSet(DOMAIN list) /\ \A n \in DOMAIN list : w[n] = list[n].amount /\ w[n] \in Nat
  BY <1>1, FS_Interval DEF HaveAmounts
<1>. HIDE DEF w
<1>3. ListTotal(list) = SumOver(DOMAIN list, w)
  BY <1>2, ListTotalIsSum
<1>4. ListTotal(list) \in Nat
  BY <1>2, <1>3, SumType
<1>5. list = <<>> => ListTotal(list) = 0
  <2>1. list = <<>> => DOMAIN list = {}
    OBVIOUS
  <2>. QED
    BY <1>3, <2>1, SumPicks, FS_EmptySet
<1>6. ASSUME list # <<>> PROVE ListTotal(list) = Head(list).amount + ListTotal(Tail(list))
  <2>. DEFINE rest == Tail(list)
              v == [n \in DOMAIN rest |-> rest[n].amount]
              f == [n \in DOMAIN rest |-> n + 1]
  <2>1. /\ rest \in Seq(P) /\ DOMAIN rest = 1..(Len(list) - 1) /\ Len(list) \in Nat \ {0}
        /\ \A n \in DOMAIN rest : rest[n] = list[n + 1]
    BY <1>6
  <2>. HIDE DEF rest
  <2>2. IsFiniteSet(DOMAIN rest)
    BY <1>1, <1>6, <2>1, FS_Interval
  <2>3. \A n \in DOMAIN rest : n + 1 \in DOMAIN list /\ v[n] = w[f[n]] /\ v[n] \in Nat
    BY <1>1, <1>2, <2>1
  <2>4. \A m, n \in DOMAIN rest : f[m] = f[n] => m = n
    BY <2>1
  <2>5. Image(f, DOMAIN rest) = (DOMAIN list) \ {1}
    <3>1. ASSUME NEW n \in (DOMAIN list) \ {1} PROVE n - 1 \in DOMAIN rest /\ n = (n - 1) + 1
      BY <1>1, <2>1
    <3>2. \A n \in DOMAIN rest : f[n] = n + 1 /\ n + 1 # 1
      BY <2>1
    <3>. HIDE DEF f
    <3>. QED
      BY <2>3, <3>1, <3>2 DEF Image
  <2>6. SumOver(DOMAIN rest, v) = SumOver((DOMAIN list) \ {1}, w)
    <3>. HIDE DEF f, v
    <3>1. \A n \in DOMAIN rest : v[n] = w[f[n]] /\ v[n] \in Nat
      BY <2>3
    <3>2. SumOver(DOMAIN rest, v) = SumOver(Image(f, DOMAIN rest), w)
      BY <2>2, <2>4, <3>1, SumMoved
    <3>. QED
      BY <2>5, <3>2
  <2>7. ListTotal(rest) = SumOver(DOMAIN rest, v)
    BY ListTotalIsSum
  <2>8. 1 \in DOMAIN list /\ Head(list) = list[1]
    BY <1>1, <1>6, <2>1
  <2>9. SumOver(DOMAIN list, w) = w[1] + SumOver((DOMAIN list) \ {1}, w)
    BY <1>2, <2>8, SumRemoves
  <2>. HIDE DEF v, f
  <2>. QED
    BY <1>2, <1>3, <2>6, <2>7, <2>8, <2>9 DEF rest
<1>. QED
  BY <1>4, <1>5, <1>6

-----------------------------------------------------------------------------
(* Unlock and Expire: a walk over the unpends.                             *)

PendsStates(P) == [ok : BOOLEAN, total : Int, pendsIn : Seq(P), pendsOut : Seq(P)]

\* By how much more often p stands among the old pendings than among the new.
Surplus(acc, p) == Count(acc.pendsIn, p) - Count(acc.pendsOut, p)
\* The total settled and what the pendings still to come differ by.
Settled(acc) == acc.total + ListTotal(acc.pendsIn) - ListTotal(acc.pendsOut)

LEMMA PendsWithKeeps ==
    ASSUME NEW P, HaveAmounts(P), NEW acc \in PendsStates(P), NEW unpend, NEW settles \in BOOLEAN
    PROVE  LET next == PendsWith(acc, unpend, settles)
           IN  /\ next \in PendsStates(P)
               /\ next.ok =>
                     /\ acc.ok
                     /\ Settled(next) = Settled(acc)
                     /\ \A p : Surplus(next, p) = Surplus(acc, p)
                              \/ /\ Surplus(next, p) = Surplus(acc, p) - 1
                                 /\ unpend # Keep /\ settles /\ Head(acc.pendsIn) = p
<1>. DEFINE next == PendsWith(acc, unpend, settles)
            failed == [acc EXCEPT !.ok = FALSE]
            kept == [acc EXCEPT !.pendsIn = Tail(@), !.pendsOut = SubSeq(@, 2, Len(@))]
            left == [acc EXCEPT !.total = @ + Head(acc.pendsIn).amount, !.pendsIn = Tail(@)]
<1>1. /\ acc.ok \in BOOLEAN /\ acc.total \in Int /\ acc.pendsIn \in Seq(P) /\ acc.pendsOut \in Seq(P)
      /\ acc.pendsIn # <<>> => Tail(acc.pendsIn) \in Seq(P) /\ Head(acc.pendsIn) \in P
  BY DEF PendsStates
<1>2. CASE ~acc.ok \/ acc.pendsIn = <<>>
  <2>1. next = failed
    BY <1>2 DEF PendsWith
  <2>2. failed \in PendsStates(P) /\ ~failed.ok
    BY <1>1 DEF PendsStates
  <2>. HIDE DEF failed, next
  <2>. QED
    BY <2>1, <2>2 DEF next
<1>3. CASE acc.ok /\ acc.pendsIn # <<>> /\ unpend = Keep
  <2>1. CASE PendKept(acc)
    <3>1. next = kept
      BY <1>3, <2>1 DEF PendsWith
    <3>2. acc.pendsOut # <<>> /\ Head(acc.pendsIn) = Head(acc.pendsOut)
      BY <2>1 DEF PendKept
    <3>3. SubSeq(acc.pendsOut, 2, Len(acc.pendsOut)) = Tail(acc.pendsOut)
          /\ Tail(acc.pendsOut) \in Seq(P)
      BY <1>1, <3>2
    <3>4. /\ kept \in PendsStates(P) /\ kept.total = acc.total
          /\ kept.pendsIn = Tail(acc.pendsIn) /\ kept.pendsOut = Tail(acc.pendsOut)
      BY <1>1, <1>3, <3>3 DEF PendsStates
    <3>. HIDE DEF kept
    <3>5. Settled(kept) = Settled(acc)
      <4>1. /\ ListTotal(acc.pendsIn) = Head(acc.pendsIn).amount + ListTotal(Tail(acc.pendsIn))
            /\ ListTotal(acc.pendsOut) = Head(acc.pendsOut).amount + ListTotal(Tail(acc.pendsOut))
            /\ ListTotal(Tail(acc.pendsIn)) \in Nat /\ ListTotal(Tail(acc.pendsOut)) \in Nat
        BY <1>1, <1>3, <3>2, <3>3, ListTotalTail
      <4>2. Head(acc.pendsIn).amount \in Nat
        BY <1>1, <1>3 DEF HaveAmounts
      <4>. QED
        BY <1>1, <3>2, <3>4, <4>1, <4>2 DEF Settled
    <3>6. ASSUME NEW p PROVE Surplus(kept, p) = Surplus(acc, p)
      <4>1. /\ Count(acc.pendsIn, p) = Count(Tail(acc.pendsIn), p) + (IF Head(acc.pendsIn) = p THEN 1 ELSE 0)
            /\ Count(acc.pendsOut, p) = Count(Tail(acc.pendsOut), p) + (IF Head(acc.pendsOut) = p THEN 1 ELSE 0)
            /\ Count(Tail(acc.pendsIn), p) \in Nat /\ Count(Tail(acc.pendsOut), p) \in Nat
        BY <1>1, <1>3, <3>2, <3>3, CountTail
      <4>. QED
        BY <3>2, <3>4, <4>1 DEF Surplus
    <3>. HIDE DEF next
    <3>. QED
      BY <1>3, <3>1, <3>4, <3>5, <3>6 DEF next
  <2>2. CASE ~PendKept(acc)
    <3>1. next = failed
      BY <1>3, <2>2 DEF PendsWith
    <3>2. failed \in PendsStates(P) /\ ~failed.ok
      BY <1>1 DEF PendsStates
    <3>. HIDE DEF failed, next
    <3>. QED
      BY <3>1, <3>2 DEF next
  <2>. QED
    BY <2>1, <2>2
<1>4. CASE acc.ok /\ acc.pendsIn # <<>> /\ unpend # Keep /\ settles
  <2>1. next = left
    BY <1>4 DEF PendsWith
  <2>2. Head(acc.pendsIn).amount \in Nat
    BY <1>1, <1>4 DEF HaveAmounts
  <2>3. /\ left \in PendsStates(P) /\ left.total = acc.total + Head(acc.pendsIn).amount
        /\ left.pendsIn = Tail(acc.pendsIn) /\ left.pendsOut = acc.pendsOut
    <3>. DEFINE sum == acc.total + Head(acc.pendsIn).amount
                rest == Tail(acc.pendsIn)
    <3>1. sum \in Int /\ rest \in Seq(P)
      BY <1>1, <1>4, <2>2
    <3>2. left = [acc EXCEPT !.total = sum, !.pendsIn = rest]
      OBVIOUS
    <3>. HIDE DEF left, sum, rest
    <3>3. left \in PendsStates(P) /\ left.total = sum
          /\ left.pendsIn = rest /\ left.pendsOut = acc.pendsOut
      BY <3>1, <3>2 DEF PendsStates
    <3>. QED
      BY <3>3 DEF sum, rest
  <2>. HIDE DEF left
  <2>4. Settled(left) = Settled(acc)
    <3>1. /\ ListTotal(acc.pendsIn) = Head(acc.pendsIn).amount + ListTotal(Tail(acc.pendsIn))
          /\ ListTotal(Tail(acc.pendsIn)) \in Nat /\ ListTotal(acc.pendsOut) \in Nat
      BY <1>1, <1>4, ListTotalTail
    <3>. QED
      BY <1>1, <2>2, <2>3, <3>1 DEF Settled
  <2>5. ASSUME NEW p
        PROVE  \/ Surplus(left, p) = Surplus(acc, p)
               \/ Surplus(left, p) = Surplus(acc, p) - 1 /\ Head(acc.pendsIn) = p
    <3>1. /\ Count(acc.pendsIn, p) = Count(Tail(acc.pendsIn), p) + (IF Head(acc.pendsIn) = p THEN 1 ELSE 0)
          /\ Count(Tail(acc.pendsIn), p) \in Nat /\ Count(acc.pendsOut, p) \in Nat
      BY <1>1, <1>4, CountTail
    <3>. QED
      BY <2>3, <3>1 DEF Surplus
  <2>. HIDE DEF next
  <2>. QED
    BY <1>4, <2>1, <2>3, <2>4, <2>5 DEF next
<1>5. CASE acc.ok /\ acc.pendsIn # <<>> /\ unpend # Keep /\ ~settles
  <2>1. next = failed
    BY <1>5 DEF PendsWith
  <2>2. failed \in PendsStates(P) /\ ~failed.ok
    BY <1>1 DEF PendsStates
  <2>. HIDE DEF failed, next
  <2>. QED
    BY <2>1, <2>2 DEF next
<1>. QED
  BY <1>1, <1>2, <1>3, <1>4, <1>5

\* A walk over the first n unpends; settled says what each of them settles.
IsPendsWalk(h, n, P, unpends, settled, pendsIn, pendsOut) ==
    /\ h \in [0..n -> PendsStates(P)]
    /\ h[0] = PendsBefore(pendsIn, pendsOut)
    /\ \A k \in 1..n : settled[k] \in BOOLEAN /\ h[k] = PendsWith(h[k - 1], unpends[k], settled[k])

\* What a walk that ends well says of the old and the new pendings.
SettledAlong(h, n, unpends, settled, pendsIn, pendsOut) ==
    /\ h[n].total = ListTotal(pendsIn) - ListTotal(pendsOut)
    /\ \A p : /\ Count(pendsOut, p) <= Count(pendsIn, p)
              /\ Count(pendsOut, p) < Count(pendsIn, p) =>
                   \E k \in 1..n : unpends[k] # Keep /\ settled[k] /\ Head(h[k - 1].pendsIn) = p

\* A walk that ends well holds all along.
LEMMA PendsWalkHolds ==
    ASSUME NEW P, HaveAmounts(P), NEW n \in Nat, NEW unpends, NEW settled, NEW h,
           NEW pendsIn, NEW pendsOut,
           IsPendsWalk(h, n, P, unpends, settled, pendsIn, pendsOut), h[n].ok
    PROVE  \A k \in 0..n : h[k].ok
<1>1. \A k \in 1..n : h[k].ok => h[k - 1].ok
  <2>. TAKE k \in 1..n
  <2>1. k - 1 \in 0..n /\ h[k - 1] \in PendsStates(P)
    BY DEF IsPendsWalk
  <2>2. settled[k] \in BOOLEAN /\ h[k] = PendsWith(h[k - 1], unpends[k], settled[k])
    BY DEF IsPendsWalk
  <2>. QED
    BY <2>1, <2>2, PendsWithKeeps
<1>. DEFINE T == {k \in 0..n : h[n - k].ok}
<1>2. 0 \in T
  OBVIOUS
<1>3. ASSUME NEW k \in 1..n, k - 1 \in T PROVE k \in T
  <2>1. n - (k - 1) \in 1..n /\ (n - (k - 1)) - 1 = n - k /\ n - k \in 0..n
    OBVIOUS
  <2>2. h[n - (k - 1)].ok
    BY <1>3
  <2>3. h[(n - (k - 1)) - 1].ok
    BY <1>1, <2>1, <2>2
  <2>. QED
    BY <2>1, <2>3
<1>4. \A k \in 0..n : k \in T
  <2>. HIDE DEF T
  <2>. QED
    BY <1>2, <1>3, Climb
<1>5. ASSUME NEW k \in 0..n PROVE h[k].ok
  <2>1. n - k \in 0..n /\ n - (n - k) = k
    OBVIOUS
  <2>. QED
    BY <1>4, <2>1
<1>. QED
  BY <1>5

LEMMA PendsWalkSettles ==
    ASSUME NEW P, HaveAmounts(P), NEW n \in Nat, NEW unpends, NEW settled, NEW h,
           NEW pendsIn \in Seq(P), NEW pendsOut \in Seq(P),
           IsPendsWalk(h, n, P, unpends, settled, pendsIn, pendsOut),
           PendsAfter(h[n]).ok
    PROVE  SettledAlong(h, n, unpends, settled, pendsIn, pendsOut)
<1>1. /\ \A k \in 0..n : h[k] \in PendsStates(P)
      /\ h[0] = [ok |-> TRUE, total |-> 0, pendsIn |-> pendsIn, pendsOut |-> pendsOut]
  BY DEF IsPendsWalk, PendsBefore
<1>2. h[n].ok /\ h[n].pendsIn = h[n].pendsOut
  BY DEF PendsAfter
<1>3. \A k \in 1..n : h[k].ok =>
         /\ h[k - 1].ok
         /\ Settled(h[k]) = Settled(h[k - 1])
         /\ \A p : Surplus(h[k], p) = Surplus(h[k - 1], p)
                  \/ /\ Surplus(h[k], p) = Surplus(h[k - 1], p) - 1
                     /\ unpends[k] # Keep /\ settled[k] /\ Head(h[k - 1].pendsIn) = p
  <2>. TAKE k \in 1..n
  <2>1. k - 1 \in 0..n /\ h[k - 1] \in PendsStates(P)
    BY <1>1
  <2>2. settled[k] \in BOOLEAN /\ h[k] = PendsWith(h[k - 1], unpends[k], settled[k])
    BY DEF IsPendsWalk
  <2>. QED
    BY <2>1, <2>2, PendsWithKeeps
<1>4. \A k \in 0..n : h[k].ok
  BY <1>2, PendsWalkHolds
<1>5. Settled(h[n]) = Settled(h[0])
  <2>. DEFINE T == {k \in 0..n : Settled(h[k]) = Settled(h[0])}
  <2>1. 0 \in T
    OBVIOUS
  <2>2. ASSUME NEW k \in 1..n, k - 1 \in T PROVE k \in T
    <3>1. h[k].ok
      BY <1>4
    <3>. QED
      BY <1>3, <2>2, <3>1
  <2>3. \A k \in 0..n : k \in T
    <3>. HIDE DEF T
    <3>. QED
      BY <2>1, <2>2, Climb
  <2>. QED
    BY <2>3
<1>6. h[n].total = ListTotal(pendsIn) - ListTotal(pendsOut)
  <2>1. h[n].total \in Int /\ h[n].pendsIn \in Seq(P)
    BY <1>1 DEF PendsStates
  <2>2. ListTotal(h[n].pendsIn) \in Nat /\ ListTotal(pendsIn) \in Nat /\ ListTotal(pendsOut) \in Nat
    BY <2>1, ListTotalTail
  <2>. QED
    BY <1>1, <1>2, <1>5, <2>1, <2>2 DEF Settled
<1>7. ASSUME NEW p
      PROVE  /\ Count(pendsOut, p) <= Count(pendsIn, p)
             /\ Count(pendsOut, p) < Count(pendsIn, p) =>
                  \E k \in 1..n : unpends[k] # Keep /\ settled[k] /\ Head(h[k - 1].pendsIn) = p
  <2>. DEFINE Some(m) == \E k \in 1..m : unpends[k] # Keep /\ settled[k] /\ Head(h[k - 1].pendsIn) = p
              T == {m \in 0..n : /\ Surplus(h[m], p) <= Surplus(h[0], p)
                                 /\ Surplus(h[m], p) = Surplus(h[0], p) \/ Some(m)}
  <2>1. \A m \in 0..n : Surplus(h[m], p) \in Int
    <3>. TAKE m \in 0..n
    <3>1. h[m].pendsIn \in Seq(P) /\ h[m].pendsOut \in Seq(P)
      BY <1>1 DEF PendsStates
    <3>2. Count(h[m].pendsIn, p) \in Nat /\ Count(h[m].pendsOut, p) \in Nat
      BY <3>1, CountTail
    <3>. QED
      BY <3>2 DEF Surplus
  <2>2. 0 \in T
    BY <2>1
  <2>3. ASSUME NEW m \in 1..n, m - 1 \in T PROVE m \in T
    <3>1. m \in 0..n /\ m - 1 \in 0..n
      OBVIOUS
    <3>2. /\ Surplus(h[m - 1], p) <= Surplus(h[0], p)
          /\ Surplus(h[m - 1], p) = Surplus(h[0], p) \/ Some(m - 1)
      BY <2>3
    <3>3. Some(m - 1) => Some(m)
      <4>1. 1..(m - 1) \subseteq 1..m
        OBVIOUS
      <4>. QED
        BY <4>1
    <3>4. \/ Surplus(h[m], p) = Surplus(h[m - 1], p)
          \/ /\ Surplus(h[m], p) = Surplus(h[m - 1], p) - 1
             /\ unpends[m] # Keep /\ settled[m] /\ Head(h[m - 1].pendsIn) = p
      BY <1>3, <1>4, <3>1
    <3>5. CASE Surplus(h[m], p) = Surplus(h[m - 1], p)
      <4>. HIDE DEF Some
      <4>. QED
        BY <3>1, <3>2, <3>3, <3>5
    <3>6. CASE /\ Surplus(h[m], p) = Surplus(h[m - 1], p) - 1
               /\ unpends[m] # Keep /\ settled[m] /\ Head(h[m - 1].pendsIn) = p
      <4>1. m \in 1..m
        OBVIOUS
      <4>2. Some(m)
        BY <3>6, <4>1
      <4>3. Surplus(h[m], p) <= Surplus(h[0], p)
        BY <2>1, <3>1, <3>2, <3>6
      <4>. HIDE DEF Some
      <4>. QED
        BY <3>1, <4>2, <4>3
    <3>. QED
      BY <3>4, <3>5, <3>6
  <2>4. \A m \in 0..n : m \in T
    <3>. HIDE DEF T
    <3>. QED
      BY <2>2, <2>3, Climb
  <2>5. n \in T
    <3>. HIDE DEF T
    <3>. QED
      BY <2>4
  <2>6. Surplus(h[n], p) = 0
    <3>1. h[n].pendsIn \in Seq(P)
      BY <1>1 DEF PendsStates
    <3>2. Count(h[n].pendsIn, p) \in Nat
      BY <3>1, CountTail
    <3>. QED
      BY <1>2, <3>2 DEF Surplus
  <2>7. Surplus(h[0], p) = Count(pendsIn, p) - Count(pendsOut, p)
    BY <1>1 DEF Surplus
  <2>8. Count(pendsIn, p) \in Nat /\ Count(pendsOut, p) \in Nat
    BY CountTail
  <2>. HIDE DEF Some
  <2>9. 0 <= Surplus(h[0], p) /\ (0 = Surplus(h[0], p) \/ Some(n))
    BY <2>5, <2>6
  <2>. QED
    BY <2>7, <2>8, <2>9 DEF Some
<1>8. \A p : /\ Count(pendsOut, p) <= Count(pendsIn, p)
             /\ Count(pendsOut, p) < Count(pendsIn, p) =>
                  \E k \in 1..n : unpends[k] # Keep /\ settled[k] /\ Head(h[k - 1].pendsIn) = p
  BY ONLY <1>7, Zenon
<1>. QED
  BY ONLY <1>6, <1>8, Zenon DEF SettledAlong

\* Each unpend takes the next of the old pendings: as it is, or to settle it.
LEMMA PendsWithTakes ==
    ASSUME NEW acc, NEW P, acc \in PendsStates(P), NEW unpend, NEW settles \in BOOLEAN,
           PendsWith(acc, unpend, settles).ok
    PROVE  /\ acc.pendsIn # <<>> /\ PendsWith(acc, unpend, settles).pendsIn = Tail(acc.pendsIn)
           /\ unpend = Keep \/ settles
<1>. DEFINE next == PendsWith(acc, unpend, settles)
            failed == [acc EXCEPT !.ok = FALSE]
<1>0. ~failed.ok
  BY DEF PendsStates
<1>1. acc.ok /\ acc.pendsIn # <<>>
  <2>1. ASSUME ~acc.ok \/ acc.pendsIn = <<>> PROVE next = failed
    BY <2>1 DEF PendsWith
  <2>. HIDE DEF next, failed
  <2>. QED
    BY <1>0, <2>1 DEF next
<1>2. unpend = Keep \/ settles
  <2>1. ASSUME unpend # Keep, ~settles PROVE next = failed
    BY <2>1 DEF PendsWith
  <2>. HIDE DEF next, failed
  <2>. QED
    BY <1>0, <2>1 DEF next
<1>3. unpend = Keep => PendKept(acc)
  <2>1. ASSUME unpend = Keep, ~PendKept(acc) PROVE next = failed
    BY <2>1 DEF PendsWith
  <2>. HIDE DEF next, failed
  <2>. QED
    BY <1>0, <2>1 DEF next
<1>4. CASE unpend = Keep
  <2>1. next = [acc EXCEPT !.pendsIn = Tail(@), !.pendsOut = SubSeq(@, 2, Len(@))]
    BY <1>1, <1>3, <1>4 DEF PendsWith
  <2>2. next.pendsIn = Tail(acc.pendsIn)
    BY <2>1 DEF PendsStates
  <2>. HIDE DEF next
  <2>. QED
    BY <1>1, <1>2, <2>2 DEF next
<1>5. CASE unpend # Keep
  <2>1. next = [acc EXCEPT !.total = @ + Head(acc.pendsIn).amount, !.pendsIn = Tail(@)]
    BY <1>1, <1>2, <1>5 DEF PendsWith
  <2>2. next.pendsIn = Tail(acc.pendsIn)
    BY <2>1 DEF PendsStates
  <2>. HIDE DEF next
  <2>. QED
    BY <1>1, <1>2, <2>2 DEF next
<1>. QED
  BY <1>4, <1>5

\* So the unpends stand at the places of the pendings they settle.
LEMMA PendsWalkTakes ==
    ASSUME NEW P, HaveAmounts(P), NEW n \in Nat, NEW unpends, NEW settled, NEW h,
           NEW pendsIn \in Seq(P), NEW pendsOut,
           IsPendsWalk(h, n, P, unpends, settled, pendsIn, pendsOut), h[n].ok
    PROVE  \A k \in 1..n : /\ k \in DOMAIN pendsIn /\ Head(h[k - 1].pendsIn) = pendsIn[k]
                           /\ unpends[k] = Keep \/ settled[k]
<1>1. /\ \A k \in 0..n : h[k] \in PendsStates(P) /\ h[k].pendsIn \in Seq(P)
      /\ h[0].pendsIn = pendsIn
  BY DEF IsPendsWalk, PendsBefore, PendsStates
<1>2. \A k \in 0..n : h[k].ok
  BY PendsWalkHolds
<1>3. ASSUME NEW k \in 1..n
      PROVE  /\ h[k - 1].pendsIn # <<>> /\ h[k].pendsIn = Tail(h[k - 1].pendsIn)
             /\ unpends[k] = Keep \/ settled[k]
  <2>1. k - 1 \in 0..n /\ k \in 0..n
    OBVIOUS
  <2>2. settled[k] \in BOOLEAN /\ h[k] = PendsWith(h[k - 1], unpends[k], settled[k])
    BY DEF IsPendsWalk
  <2>3. h[k - 1] \in PendsStates(P) /\ PendsWith(h[k - 1], unpends[k], settled[k]).ok
    BY <1>1, <1>2, <2>1, <2>2
  <2>. QED
    BY <2>2, <2>3, PendsWithTakes
<1>. DEFINE top == Len(pendsIn)
            IsRest(list, k) == Len(list) = top - k /\ \A i \in 1..(top - k) : list[i] = pendsIn[i + k]
            T == {k \in 0..n : IsRest(h[k].pendsIn, k)}
<1>4. top \in Nat /\ DOMAIN pendsIn = 1..top
  BY ListEntries
<1>. HIDE DEF top
<1>5. 0 \in T
  BY <1>1, <1>4 DEF top
<1>6. ASSUME NEW k \in 1..n, k - 1 \in T PROVE k \in T
  <2>. DEFINE old == h[k - 1].pendsIn
              new == h[k].pendsIn
  <2>1. old # <<>> /\ new = Tail(old) /\ old \in Seq(P) /\ IsRest(old, k - 1)
    <3>1. k - 1 \in 0..n
      OBVIOUS
    <3>. QED
      BY <1>1, <1>3, <1>6, <3>1
  <2>. HIDE DEF old, new
  <2>2. Len(new) = Len(old) - 1 /\ Len(old) \in Nat /\ \A i \in 1..(Len(old) - 1) : new[i] = old[i + 1]
    <3>1. old # <<>> /\ old \in Seq(P) /\ new = Tail(old)
      BY <2>1
    <3>. QED
      BY ONLY <3>1
  <2>3. Len(old) = top - (k - 1) /\ \A i \in 1..(top - (k - 1)) : old[i] = pendsIn[i + (k - 1)]
    BY <2>1
  <2>4. Len(new) = top - k
    BY <1>4, <2>2, <2>3
  <2>5. \A i \in 1..(top - k) : new[i] = pendsIn[i + k]
    <3>1. ASSUME NEW i \in 1..(top - k) PROVE new[i] = pendsIn[i + k]
      <4>1. i \in 1..(Len(old) - 1) /\ i + 1 \in 1..(top - (k - 1)) /\ (i + 1) + (k - 1) = i + k
        BY <1>4, <2>3
      <4>. QED
        BY <2>2, <2>3, <4>1
    <3>. QED
      BY <3>1
  <2>. QED
    BY <2>4, <2>5 DEF new
<1>7. \A k \in 0..n : k \in T
  <2>. HIDE DEF T
  <2>. QED
    BY <1>5, <1>6, Climb
<1>8. ASSUME NEW k \in 1..n
      PROVE  k \in DOMAIN pendsIn /\ Head(h[k - 1].pendsIn) = pendsIn[k]
  <2>. DEFINE old == h[k - 1].pendsIn
  <2>1. old # <<>> /\ old \in Seq(P) /\ IsRest(old, k - 1)
    <3>1. k - 1 \in 0..n
      OBVIOUS
    <3>. QED
      BY <1>1, <1>3, <1>7, <3>1
  <2>. HIDE DEF old
  <2>2. Len(old) \in Nat \ {0} /\ Head(old) = old[1]
    <3>1. old # <<>> /\ old \in Seq(P)
      BY <2>1
    <3>. QED
      BY ONLY <3>1
  <2>3. 1 \in 1..(top - (k - 1)) /\ 1 + (k - 1) = k /\ k \in 1..top
    BY <1>4, <2>1, <2>2
  <2>. QED
    BY <1>4, <2>1, <2>2, <2>3 DEF old
<1>. QED
  BY <1>3, <1>8

IsUnlockWalk(h, n, P, upper, unpends, pendsIn, pendsOut) ==
    /\ IsPendsWalk(h, n, P, unpends, [k \in 1..n |-> UnlockSettles(upper, Head(h[k - 1].pendsIn), unpends[k])], pendsIn, pendsOut)
    /\ UnlockAccount(upper, unpends, pendsIn, pendsOut) = PendsAfter(h[n])

LEMMA UnlockWalks ==
    ASSUME NEW P, HaveAmounts(P), NEW upper, NEW n \in Nat, NEW unpends, DOMAIN unpends = 1..n,
           NEW pendsIn \in Seq(P), NEW pendsOut \in Seq(P)
    PROVE  \E h : IsUnlockWalk(h, n, P, upper, unpends, pendsIn, pendsOut)
<1>. DEFINE State == PendsStates(P)
            base == PendsBefore(pendsIn, pendsOut)
            settles(acc, unpend) == UnlockSettles(upper, Head(acc.pendsIn), unpend)
            F(iter) == [s \in SUBSET (1..n) |->
                          IF s = {} THEN base
                          ELSE PendsWith(iter[s \ {Max(s)}], unpends[Max(s)],
                                         settles(iter[s \ {Max(s)}], unpends[Max(s)]))]
            step == [q \in State \X (1..n) |->
                        PendsWith(q[1], unpends[q[2]], settles(q[1], unpends[q[2]]))]
            it == CHOOSE iter : iter = F(iter)
<1>1. UnlockAccount(upper, unpends, pendsIn, pendsOut) = PendsAfter(it[1..n])
  BY DEF UnlockAccount, FoldLeft, MapThenFoldSet
<1>2. base \in State
  BY DEF PendsBefore, PendsStates
<1>. HIDE DEF base
<1>3. \A acc, unpend : settles(acc, unpend) \in BOOLEAN
  BY DEF UnlockSettles
<1>. HIDE DEF settles
<1>4. \A acc \in State : \A k \in 1..n :
         PendsWith(acc, unpends[k], settles(acc, unpends[k])) \in State
  BY <1>3, PendsWithKeeps
<1>5. step \in [State \X (1..n) -> State]
  BY <1>4
<1>. HIDE DEF State
<1>6. it = F(it)
  <2>1. PICK walk : IsWalk(walk, n, State, base, step)
    <3>. HIDE DEF step
    <3>. QED
      BY <1>2, <1>5, WalkExists
  <2>2. ASSUME NEW s \in SUBSET (1..n), s # {}
        PROVE  walk[s] = PendsWith(walk[s \ {Max(s)}], unpends[Max(s)],
                                   settles(walk[s \ {Max(s)}], unpends[Max(s)]))
    <3>1. Max(s) \in 1..n /\ s \ {Max(s)} \in SUBSET (1..n)
      BY <2>2, MaxIsIn
    <3>2. walk[s] = step[<<walk[s \ {Max(s)}], Max(s)>>] /\ walk[s \ {Max(s)}] \in State
      <4>. HIDE DEF step
      <4>. QED
        BY <2>1, <2>2, <3>1 DEF IsWalk
    <3>. QED
      BY <3>1, <3>2
  <2>3. walk = F(walk)
    BY <2>1, <2>2 DEF IsWalk
  <2>. HIDE DEF F
  <2>. QED
    BY <2>3
<1>. HIDE DEF it
<1>7. it[{}] = base
  BY <1>6
<1>8. ASSUME NEW s \in SUBSET (1..n), s # {}, it[s \ {Max(s)}] \in State
      PROVE  it[s] = step[<<it[s \ {Max(s)}], Max(s)>>]
  <2>1. Max(s) \in 1..n
    BY <1>8, MaxIsIn
  <2>. QED
    BY <1>6, <1>8, <2>1
<1>9. PICK h : IsHistoryOf(h, it, n, State, base, step)
  <2>1. IsFold(it, n, State, base, step)
    BY <1>7, <1>8 DEF IsFold
  <2>. HIDE DEF step
  <2>. QED
    BY <1>2, <1>5, <2>1, FoldIsHistory
<1>. DEFINE settled == [k \in 1..n |-> settles(h[k - 1], unpends[k])]
<1>10. ASSUME NEW k \in 1..n
       PROVE  settled[k] \in BOOLEAN /\ h[k] = PendsWith(h[k - 1], unpends[k], settled[k])
  <2>1. k - 1 \in 0..n
    OBVIOUS
  <2>2. h[k] = step[<<h[k - 1], k>>] /\ h[k - 1] \in State
    <3>. HIDE DEF step
    <3>. QED
      BY <1>9, <2>1 DEF IsHistory, IsHistoryOf
  <2>. QED
    BY <1>3, <2>2
<1>. HIDE DEF settled, step
<1>11. IsPendsWalk(h, n, P, unpends, settled, pendsIn, pendsOut)
  BY <1>9, <1>10 DEF IsHistory, IsHistoryOf, IsPendsWalk, State, base
<1>12. settled = [k \in 1..n |-> UnlockSettles(upper, Head(h[k - 1].pendsIn), unpends[k])]
  BY DEF settled, settles
<1>. QED
  BY <1>1, <1>9, <1>11, <1>12 DEF IsHistoryOf, IsUnlockWalk

IsExpireWalk(h, n, P, lower, unpends, pendsIn, pendsOut) ==
    /\ IsPendsWalk(h, n, P, unpends, [k \in 1..n |-> ExpireSettles(lower, Head(h[k - 1].pendsIn))], pendsIn, pendsOut)
    /\ ExpireAccount(lower, unpends, pendsIn, pendsOut) = PendsAfter(h[n])

LEMMA ExpireWalks ==
    ASSUME NEW P, HaveAmounts(P), NEW lower, NEW n \in Nat, NEW unpends, DOMAIN unpends = 1..n,
           NEW pendsIn \in Seq(P), NEW pendsOut \in Seq(P)
    PROVE  \E h : IsExpireWalk(h, n, P, lower, unpends, pendsIn, pendsOut)
<1>. DEFINE State == PendsStates(P)
            base == PendsBefore(pendsIn, pendsOut)
            settles(acc, unpend) == ExpireSettles(lower, Head(acc.pendsIn))
            F(iter) == [s \in SUBSET (1..n) |->
                          IF s = {} THEN base
                          ELSE PendsWith(iter[s \ {Max(s)}], unpends[Max(s)],
                                         settles(iter[s \ {Max(s)}], unpends[Max(s)]))]
            step == [q \in State \X (1..n) |->
                        PendsWith(q[1], unpends[q[2]], settles(q[1], unpends[q[2]]))]
            it == CHOOSE iter : iter = F(iter)
<1>1. ExpireAccount(lower, unpends, pendsIn, pendsOut) = PendsAfter(it[1..n])
  BY DEF ExpireAccount, FoldLeft, MapThenFoldSet
<1>2. base \in State
  BY DEF PendsBefore, PendsStates
<1>. HIDE DEF base
<1>3. \A acc, unpend : settles(acc, unpend) \in BOOLEAN
  BY DEF ExpireSettles
<1>. HIDE DEF settles
<1>4. \A acc \in State : \A k \in 1..n :
         PendsWith(acc, unpends[k], settles(acc, unpends[k])) \in State
  BY <1>3, PendsWithKeeps
<1>5. step \in [State \X (1..n) -> State]
  BY <1>4
<1>. HIDE DEF State
<1>6. it = F(it)
  <2>1. PICK walk : IsWalk(walk, n, State, base, step)
    <3>. HIDE DEF step
    <3>. QED
      BY <1>2, <1>5, WalkExists
  <2>2. ASSUME NEW s \in SUBSET (1..n), s # {}
        PROVE  walk[s] = PendsWith(walk[s \ {Max(s)}], unpends[Max(s)],
                                   settles(walk[s \ {Max(s)}], unpends[Max(s)]))
    <3>1. Max(s) \in 1..n /\ s \ {Max(s)} \in SUBSET (1..n)
      BY <2>2, MaxIsIn
    <3>2. walk[s] = step[<<walk[s \ {Max(s)}], Max(s)>>] /\ walk[s \ {Max(s)}] \in State
      <4>. HIDE DEF step
      <4>. QED
        BY <2>1, <2>2, <3>1 DEF IsWalk
    <3>. QED
      BY <3>1, <3>2
  <2>3. walk = F(walk)
    BY <2>1, <2>2 DEF IsWalk
  <2>. HIDE DEF F
  <2>. QED
    BY <2>3
<1>. HIDE DEF it
<1>7. it[{}] = base
  BY <1>6
<1>8. ASSUME NEW s \in SUBSET (1..n), s # {}, it[s \ {Max(s)}] \in State
      PROVE  it[s] = step[<<it[s \ {Max(s)}], Max(s)>>]
  <2>1. Max(s) \in 1..n
    BY <1>8, MaxIsIn
  <2>. QED
    BY <1>6, <1>8, <2>1
<1>9. PICK h : IsHistoryOf(h, it, n, State, base, step)
  <2>1. IsFold(it, n, State, base, step)
    BY <1>7, <1>8 DEF IsFold
  <2>. HIDE DEF step
  <2>. QED
    BY <1>2, <1>5, <2>1, FoldIsHistory
<1>. DEFINE settled == [k \in 1..n |-> settles(h[k - 1], unpends[k])]
<1>10. ASSUME NEW k \in 1..n
       PROVE  settled[k] \in BOOLEAN /\ h[k] = PendsWith(h[k - 1], unpends[k], settled[k])
  <2>1. k - 1 \in 0..n
    OBVIOUS
  <2>2. h[k] = step[<<h[k - 1], k>>] /\ h[k - 1] \in State
    <3>. HIDE DEF step
    <3>. QED
      BY <1>9, <2>1 DEF IsHistory, IsHistoryOf
  <2>. QED
    BY <1>3, <2>2
<1>. HIDE DEF settled, step
<1>11. IsPendsWalk(h, n, P, unpends, settled, pendsIn, pendsOut)
  BY <1>9, <1>10 DEF IsHistory, IsHistoryOf, IsPendsWalk, State, base
<1>12. settled = [k \in 1..n |-> ExpireSettles(lower, Head(h[k - 1].pendsIn))]
  BY DEF settled, settles
<1>. QED
  BY <1>1, <1>9, <1>11, <1>12 DEF IsHistoryOf, IsExpireWalk

(* What an Unlock settles is paid for secrets in time, and the rest is kept:
   a pending that is listed less often in the new datum was unlocked by its
   secret before its timeout, and the total settled is what the pendings lost
   (unlock.ak's walk over the unpends). *)
THEOREM UnlockSettlesOneByOne ==
    ASSUME NEW P, HaveAmounts(P), NEW upper, NEW V, NEW unpends \in Seq(V),
           NEW pendsIn \in Seq(P), NEW pendsOut \in Seq(P),
           UnlockAccount(upper, unpends, pendsIn, pendsOut).ok
    PROVE  /\ UnlockAccount(upper, unpends, pendsIn, pendsOut).total
                 = ListTotal(pendsIn) - ListTotal(pendsOut)
           /\ \A p : /\ Count(pendsOut, p) <= Count(pendsIn, p)
                     /\ Count(pendsOut, p) < Count(pendsIn, p) =>
                          \E k \in DOMAIN unpends :
                             unpends[k] # Keep /\ UnlockSettles(upper, p, unpends[k])
<1>. DEFINE n == Len(unpends)
            account == UnlockAccount(upper, unpends, pendsIn, pendsOut)
<1>1. n \in Nat /\ DOMAIN unpends = 1..n
  BY ListEntries
<1>. HIDE DEF n
<1>2. PICK h : IsUnlockWalk(h, n, P, upper, unpends, pendsIn, pendsOut)
  BY <1>1, UnlockWalks
<1>. DEFINE settled == [k \in 1..n |-> UnlockSettles(upper, Head(h[k - 1].pendsIn), unpends[k])]
<1>3. IsPendsWalk(h, n, P, unpends, settled, pendsIn, pendsOut) /\ account = PendsAfter(h[n])
  BY <1>2 DEF IsUnlockWalk
<1>4. \A k \in 1..n : settled[k] = UnlockSettles(upper, Head(h[k - 1].pendsIn), unpends[k])
  OBVIOUS
<1>. HIDE DEF settled
<1>5. SettledAlong(h, n, unpends, settled, pendsIn, pendsOut)
  BY <1>1, <1>3, PendsWalkSettles
<1>6. account.total = h[n].total
  BY <1>3 DEF PendsAfter
<1>. QED
  BY <1>1, <1>4, <1>5, <1>6 DEF SettledAlong

\* The same place by place: what a secret unlocks is the pending it stands for.
LEMMA UnlockSettlesEach ==
    ASSUME NEW P, HaveAmounts(P), NEW upper, NEW V, NEW unpends \in Seq(V),
           NEW pendsIn \in Seq(P), NEW pendsOut \in Seq(P),
           UnlockAccount(upper, unpends, pendsIn, pendsOut).ok
    PROVE  \A k \in DOMAIN unpends :
              /\ k \in DOMAIN pendsIn
              /\ unpends[k] = Keep \/ UnlockSettles(upper, pendsIn[k], unpends[k])
<1>. DEFINE n == Len(unpends)
<1>1. n \in Nat /\ DOMAIN unpends = 1..n
  BY ListEntries
<1>. HIDE DEF n
<1>2. PICK h : IsUnlockWalk(h, n, P, upper, unpends, pendsIn, pendsOut)
  BY <1>1, UnlockWalks
<1>. DEFINE settled == [k \in 1..n |-> UnlockSettles(upper, Head(h[k - 1].pendsIn), unpends[k])]
<1>3. /\ IsPendsWalk(h, n, P, unpends, settled, pendsIn, pendsOut)
      /\ UnlockAccount(upper, unpends, pendsIn, pendsOut) = PendsAfter(h[n])
  BY <1>2 DEF IsUnlockWalk
<1>4. \A k \in 1..n : settled[k] = UnlockSettles(upper, Head(h[k - 1].pendsIn), unpends[k])
  OBVIOUS
<1>. HIDE DEF settled
<1>5. h[n].ok
  <2>. DEFINE account == UnlockAccount(upper, unpends, pendsIn, pendsOut)
  <2>1. account.ok
    OBVIOUS
  <2>. HIDE DEF account
  <2>2. account = PendsAfter(h[n])
    BY <1>3 DEF account
  <2>. QED
    BY <2>1, <2>2 DEF PendsAfter
<1>6. \A k \in 1..n : /\ k \in DOMAIN pendsIn /\ Head(h[k - 1].pendsIn) = pendsIn[k]
                      /\ unpends[k] = Keep \/ settled[k]
  BY <1>1, <1>3, <1>5, PendsWalkTakes
<1>. QED
  BY <1>1, <1>4, <1>6

(* The same of an Expire, which settles what has timed out (expire.ak). *)
THEOREM ExpireSettlesOneByOne ==
    ASSUME NEW P, HaveAmounts(P), NEW lower, NEW V, NEW unpends \in Seq(V),
           NEW pendsIn \in Seq(P), NEW pendsOut \in Seq(P),
           ExpireAccount(lower, unpends, pendsIn, pendsOut).ok
    PROVE  /\ ExpireAccount(lower, unpends, pendsIn, pendsOut).total
                 = ListTotal(pendsIn) - ListTotal(pendsOut)
           /\ \A p : /\ Count(pendsOut, p) <= Count(pendsIn, p)
                     /\ Count(pendsOut, p) < Count(pendsIn, p) =>
                          ExpireSettles(lower, p)
<1>. DEFINE n == Len(unpends)
            account == ExpireAccount(lower, unpends, pendsIn, pendsOut)
<1>1. n \in Nat /\ DOMAIN unpends = 1..n
  BY ListEntries
<1>. HIDE DEF n
<1>2. PICK h : IsExpireWalk(h, n, P, lower, unpends, pendsIn, pendsOut)
  BY <1>1, ExpireWalks
<1>. DEFINE settled == [k \in 1..n |-> ExpireSettles(lower, Head(h[k - 1].pendsIn))]
<1>3. IsPendsWalk(h, n, P, unpends, settled, pendsIn, pendsOut) /\ account = PendsAfter(h[n])
  BY <1>2 DEF IsExpireWalk
<1>4. \A k \in 1..n : settled[k] = ExpireSettles(lower, Head(h[k - 1].pendsIn))
  OBVIOUS
<1>. HIDE DEF settled
<1>5. SettledAlong(h, n, unpends, settled, pendsIn, pendsOut)
  BY <1>1, <1>3, PendsWalkSettles
<1>6. account.total = h[n].total
  BY <1>3 DEF PendsAfter
<1>. QED
  BY <1>1, <1>4, <1>5, <1>6 DEF SettledAlong

-----------------------------------------------------------------------------
(* Respond: every cheque of the consumer is counted once, as a used or an  *)
(* unlocked cheque (C) or as a pending (L).                                *)

\* What a walk has counted when left are the pendings still to come.
IsSplit(pends, total, owed, at, pTotal, left, C, L) ==
    /\ C \cap L = {}
    /\ owed = Total(C)
    /\ pTotal = total - Total(L)
    /\ ListTotal(left) = ListTotal(pends) - Total(L)
    /\ \A p : Count(left, p) = Count(pends, p) - Cardinality({c \in L : PendOf(c) = p})
    /\ \A c \in C \cup L : Accounted(at, c.index)
Splits(E, G, pends, total, owed, at, pTotal, left) ==
    \E C \in SUBSET G, L \in SUBSET E : IsSplit(pends, total, owed, at, pTotal, left, C, L)

LEMMA SplitTakesEarned ==
    ASSUME NEW E, Distinct(E), NEW G \in SUBSET E, NEW pends, NEW total,
           NEW owed, NEW at \in Points, NEW pTotal, NEW left,
           Splits(E, G, pends, total, owed, at, pTotal, left),
           NEW c \in G, IsUnaccounted(at, c.index)
    PROVE  Splits(E, G, pends, total, owed + c.amount, NextIndex(at, c.index), pTotal, left)
<1>1. PICK C \in SUBSET G, L \in SUBSET E : IsSplit(pends, total, owed, at, pTotal, left, C, L)
  BY DEF Splits
<1>2. c \in E /\ c.index \in Nat /\ \A d \in E : d.index \in Nat
  BY DEF Distinct
<1>. DEFINE next == NextIndex(at, c.index)
<1>3. /\ ~Accounted(at, c.index) /\ Accounted(next, c.index)
      /\ \A i \in Nat : Accounted(at, i) => Accounted(next, i)
  BY <1>2, NextIndexAccounts
<1>. HIDE DEF next
<1>4. \A d \in C \cup L : Accounted(at, d.index)
  BY <1>1 DEF IsSplit
<1>5. c \notin C \cup L
  BY <1>3, <1>4
<1>6. owed + c.amount = Total(C \cup {c})
  BY <1>1, <1>2, <1>5, TotalAdds DEF IsSplit
<1>7. \A d \in (C \cup {c}) \cup L : Accounted(next, d.index)
  BY <1>2, <1>3, <1>4
<1>8. (C \cup {c}) \cap L = {} /\ C \cup {c} \in SUBSET G
  BY <1>1, <1>5 DEF IsSplit
<1>9. IsSplit(pends, total, owed + c.amount, next, pTotal, left, C \cup {c}, L)
  BY <1>1, <1>6, <1>7, <1>8 DEF IsSplit
<1>10. Splits(E, G, pends, total, owed + c.amount, next, pTotal, left)
  BY <1>8, <1>9 DEF Splits
<1>. QED
  BY <1>10 DEF next

LEMMA SplitTakesPending ==
    ASSUME NEW E, Distinct(E), NEW G \in SUBSET E, NEW P, HaveAmounts(P), NEW pends \in Seq(P),
           NEW total \in Int, NEW owed, NEW at \in Points, NEW pTotal, NEW left \in Seq(P),
           Splits(E, G, pends, total, owed, at, pTotal, left),
           NEW c \in E, IsUnaccounted(at, c.index), left # <<>>, Head(left) = PendOf(c)
    PROVE  Splits(E, G, pends, total, owed, NextIndex(at, c.index), pTotal - c.amount, Tail(left))
<1>1. PICK C \in SUBSET G, L \in SUBSET E : IsSplit(pends, total, owed, at, pTotal, left, C, L)
  BY DEF Splits
<1>2. c.index \in Nat /\ c.amount \in Nat /\ \A d \in E : d.index \in Nat
  BY DEF Distinct
<1>. DEFINE next == NextIndex(at, c.index)
            M == L \cup {c}
<1>3. /\ ~Accounted(at, c.index) /\ Accounted(next, c.index)
      /\ \A i \in Nat : Accounted(at, i) => Accounted(next, i)
  BY <1>2, NextIndexAccounts
<1>. HIDE DEF next
<1>4. \A d \in C \cup L : Accounted(at, d.index)
  BY <1>1 DEF IsSplit
<1>5. c \notin C \cup L
  BY <1>3, <1>4
<1>6. Total(M) = Total(L) + c.amount /\ Total(L) \in Nat
  BY <1>5, TotalAdds
<1>7. \A d \in C \cup M : Accounted(next, d.index)
  BY <1>2, <1>3, <1>4
<1>8. C \cap M = {} /\ M \in SUBSET E
  BY <1>1, <1>5 DEF IsSplit
<1>9. pTotal - c.amount = total - Total(M)
  BY <1>1, <1>2, <1>6 DEF IsSplit
<1>10. ListTotal(Tail(left)) = ListTotal(pends) - Total(M)
  <2>1. ListTotal(left) = ListTotal(pends) - Total(L)
    BY <1>1 DEF IsSplit
  <2>2. ListTotal(left) = Head(left).amount + ListTotal(Tail(left)) /\ Tail(left) \in Seq(P)
    BY ListTotalTail
  <2>3. ListTotal(Tail(left)) \in Nat /\ ListTotal(pends) \in Nat
    BY <2>2, ListTotalTail
  <2>4. Head(left).amount = c.amount
    BY DEF PendOf
  <2>. QED
    BY <1>2, <1>6, <2>1, <2>2, <2>3, <2>4
<1>11. ASSUME NEW p
       PROVE  Count(Tail(left), p) = Count(pends, p) - Cardinality({d \in M : PendOf(d) = p})
  <2>. DEFINE D == {d \in L : PendOf(d) = p}
              N == {d \in M : PendOf(d) = p}
  <2>1. Count(left, p) = Count(pends, p) - Cardinality(D)
    BY <1>1 DEF IsSplit
  <2>2. Count(left, p) = Count(Tail(left), p) + (IF Head(left) = p THEN 1 ELSE 0)
        /\ Tail(left) \in Seq(P)
    BY CountTail
  <2>3. Count(Tail(left), p) \in Nat /\ Count(pends, p) \in Nat
    BY <2>2, CountTail
  <2>4. IsFiniteSet(D) /\ Cardinality(D) \in Nat /\ c \notin D
    <3>1. D \subseteq E /\ IsFiniteSet(E)
      BY DEF Distinct
    <3>2. IsFiniteSet(D)
      BY <3>1, FS_Subset
    <3>. QED
      BY <1>5, <3>2, FS_CardinalityType
  <2>5. N = IF PendOf(c) = p THEN D \cup {c} ELSE D
    OBVIOUS
  <2>. HIDE DEF D, N
  <2>6. Cardinality(N) = Cardinality(D) + (IF PendOf(c) = p THEN 1 ELSE 0)
    <3>1. Cardinality(D \cup {c}) = Cardinality(D) + 1
      BY <2>4, FS_AddElement
    <3>. QED
      BY <2>4, <2>5, <3>1
  <2>7. Count(Tail(left), p) = Count(pends, p) - Cardinality(N)
    BY <2>1, <2>2, <2>3, <2>4, <2>6
  <2>. QED
    BY <2>7 DEF N
<1>. HIDE DEF M
<1>12. IsSplit(pends, total, owed, next, pTotal - c.amount, Tail(left), C, M)
  BY <1>1, <1>7, <1>8, <1>9, <1>10, <1>11 DEF IsSplit
<1>13. Splits(E, G, pends, total, owed, next, pTotal - c.amount, Tail(left))
  BY <1>8, <1>12 DEF Splits
<1>. QED
  BY <1>13 DEF next

\* The accumulators of a Respond, as long as they hold.
RespondStates(E, G, P, pends, total) ==
    {acc \in [ok : BOOLEAN, owed : Int, useds : Seq(UsedsOf(G)), at : Points,
              pTotal : Int, pends : Seq(P)] :
        acc.ok => Splits(E, G, pends, total, acc.owed, acc.at, acc.pTotal, acc.pends)}

\* One more of the old useds.
UsedWith(acc, used) ==
    IF acc.ok /\ IsUnaccounted(acc.at, used.index)
    THEN [acc EXCEPT !.owed = @ + used.amount, !.at = NextIndex(@, used.index)]
    ELSE [acc EXCEPT !.ok = FALSE]

LEMMA UsedWithKeeps ==
    ASSUME NEW E, Distinct(E), NEW G \in SUBSET E, NEW P, NEW pends, NEW total,
           NEW acc \in RespondStates(E, G, P, pends, total), NEW used \in UsedsOf(G)
    PROVE  /\ UsedWith(acc, used) \in RespondStates(E, G, P, pends, total)
           /\ UsedWith(acc, used).pends = acc.pends
<1>. DEFINE Records == [ok : BOOLEAN, owed : Int, useds : Seq(UsedsOf(G)), at : Points,
                        pTotal : Int, pends : Seq(P)]
            sum == acc.owed + used.amount
            at == NextIndex(acc.at, used.index)
            next == [acc EXCEPT !.owed = sum, !.at = at]
            failed == [acc EXCEPT !.ok = FALSE]
<1>1. acc \in Records
  BY DEF RespondStates
<1>2. CASE ~(acc.ok /\ IsUnaccounted(acc.at, used.index))
  <2>1. UsedWith(acc, used) = failed
    BY <1>2 DEF UsedWith
  <2>2. failed \in Records /\ failed.ok = FALSE /\ failed.pends = acc.pends
    BY <1>1
  <2>. HIDE DEF failed
  <2>. QED
    BY <2>1, <2>2 DEF RespondStates
<1>3. CASE acc.ok /\ IsUnaccounted(acc.at, used.index)
  <2>1. PICK c \in G : used = UsedOf(c)
    BY DEF UsedsOf
  <2>2. used.index = c.index /\ used.amount = c.amount /\ c.index \in Nat /\ c.amount \in Nat
    BY <2>1 DEF UsedOf, Distinct
  <2>3. Splits(E, G, pends, total, sum, at, acc.pTotal, acc.pends)
    <3>1. Splits(E, G, pends, total, acc.owed, acc.at, acc.pTotal, acc.pends) /\ acc.at \in Points
      BY <1>1, <1>3 DEF RespondStates
    <3>. QED
      BY <1>3, <2>2, <3>1, SplitTakesEarned
  <2>4. sum \in Int /\ at \in Points
    BY <1>1, <1>3, <2>2, NextIndexAccounts
  <2>5. UsedWith(acc, used) = next
    BY <1>1, <1>3 DEF UsedWith
  <2>. HIDE DEF sum, at
  <2>6. /\ next \in Records /\ next.owed = sum /\ next.at = at
        /\ next.pTotal = acc.pTotal /\ next.pends = acc.pends
    BY <1>1, <2>4
  <2>. HIDE DEF next
  <2>. QED
    BY <2>3, <2>5, <2>6 DEF RespondStates
<1>. QED
  BY <1>2, <1>3

LEMMA PassedIsPrefix ==
    ASSUME NEW G, NEW useds \in Seq(G), NEW index
    PROVE  Passed(useds, index) \in 0..Len(useds)
<1>. DEFINE I == {i \in 1..Len(useds) : useds[i].index > index}
            n == SelectInSeq(useds, LAMBDA used : used.index > index)
<1>1. n = IF I # {} THEN Min(I) ELSE 0
  BY DEF SelectInSeq
<1>2. I # {} => Min(I) \in 1..Len(useds)
  <2>1. I \subseteq Nat /\ I \subseteq 1..Len(useds)
    OBVIOUS
  <2>. HIDE DEF I
  <2>. QED
    BY <2>1, MinIsLeast
<1>3. Passed(useds, index) = IF n = 0 THEN Len(useds) ELSE n - 1
  BY DEF Passed
<1>. HIDE DEF n, I
<1>. QED
  BY <1>1, <1>2, <1>3

LEMMA UsedsUpToKeeps ==
    ASSUME NEW E, Distinct(E), NEW G \in SUBSET E, NEW P, NEW pends, NEW total,
           NEW acc \in RespondStates(E, G, P, pends, total), NEW index
    PROVE  /\ UsedsUpTo(acc, index) \in RespondStates(E, G, P, pends, total)
           /\ UsedsUpTo(acc, index).pends = acc.pends
<1>. DEFINE State == {a \in RespondStates(E, G, P, pends, total) : a.pends = acc.pends}
            n == Passed(acc.useds, index)
            first == SubSeq(acc.useds, 1, n)
            rest == SubSeq(acc.useds, n + 1, Len(acc.useds))
            base == [acc EXCEPT !.useds = rest]
            F(iter) == [s \in SUBSET (1..n) |->
                          IF s = {} THEN base
                          ELSE UsedWith(iter[s \ {Max(s)}], first[Max(s)])]
            step == [q \in State \X (1..n) |-> UsedWith(q[1], first[q[2]])]
            it == CHOOSE iter : iter = F(iter)
<1>1. acc.useds \in Seq(UsedsOf(G))
  BY DEF RespondStates
<1>2. n \in 0..Len(acc.useds)
  BY <1>1, PassedIsPrefix
<1>3. DOMAIN first = 1..n /\ \A k \in 1..n : first[k] \in UsedsOf(G)
  <2>. HIDE DEF n
  <2>. QED
    BY <1>1, <1>2
<1>4. UsedsUpTo(acc, index) = it[1..n]
  <2>1. [acc EXCEPT !.useds = SubSeq(@, n + 1, Len(@))] = base
    OBVIOUS
  <2>. HIDE DEF base
  <2>. QED
    BY <1>3, <2>1 DEF UsedsUpTo, UsedWith, FoldLeft, MapThenFoldSet
<1>5. base \in State
  <2>1. rest \in Seq(UsedsOf(G))
    <3>. HIDE DEF n
    <3>. QED
      BY <1>1, <1>2
  <2>. HIDE DEF rest
  <2>2. base \in [ok : BOOLEAN, owed : Int, useds : Seq(UsedsOf(G)), at : Points,
                  pTotal : Int, pends : Seq(P)]
        /\ base.ok = acc.ok /\ base.owed = acc.owed /\ base.at = acc.at
        /\ base.pTotal = acc.pTotal /\ base.pends = acc.pends
    BY <2>1 DEF RespondStates
  <2>. HIDE DEF base
  <2>. QED
    BY <2>2 DEF RespondStates
<1>. HIDE DEF base
<1>6. \A a \in State : \A k \in 1..n : UsedWith(a, first[k]) \in State
  <2>. HIDE DEF n, first
  <2>. QED
    BY <1>3, UsedWithKeeps
<1>. HIDE DEF State, first
<1>7. n \in Nat
  <2>. HIDE DEF n
  <2>. QED
    BY <1>1, <1>2
<1>. HIDE DEF n
<1>8. step \in [State \X (1..n) -> State]
  BY <1>6
<1>9. it = F(it)
  <2>1. PICK walk : IsWalk(walk, n, State, base, step)
    <3>. HIDE DEF step
    <3>. QED
      BY <1>5, <1>7, <1>8, WalkExists
  <2>2. ASSUME NEW s \in SUBSET (1..n), s # {}
        PROVE  walk[s] = UsedWith(walk[s \ {Max(s)}], first[Max(s)])
    <3>1. Max(s) \in 1..n /\ s \ {Max(s)} \in SUBSET (1..n)
      BY <1>7, <2>2, MaxIsIn
    <3>2. walk[s] = step[<<walk[s \ {Max(s)}], Max(s)>>] /\ walk[s \ {Max(s)}] \in State
      <4>. HIDE DEF step
      <4>. QED
        BY <2>1, <2>2, <3>1 DEF IsWalk
    <3>. QED
      BY <3>1, <3>2
  <2>3. walk = F(walk)
    BY <2>1, <2>2 DEF IsWalk
  <2>. HIDE DEF F
  <2>. QED
    BY <2>3
<1>. HIDE DEF it
<1>10. it[{}] = base
  BY <1>9
<1>11. ASSUME NEW s \in SUBSET (1..n), s # {}, it[s \ {Max(s)}] \in State
       PROVE  it[s] = step[<<it[s \ {Max(s)}], Max(s)>>]
  <2>1. Max(s) \in 1..n
    BY <1>7, <1>11, MaxIsIn
  <2>. QED
    BY <1>9, <1>11, <2>1
<1>12. it[1..n] \in State
  <2>1. IsFold(it, n, State, base, step)
    BY <1>10, <1>11 DEF IsFold
  <2>. HIDE DEF step
  <2>. QED
    BY <1>5, <1>7, <1>8, <2>1, FoldStays
<1>. QED
  BY <1>4, <1>12 DEF State

\* What the provider shows in a Respond: an unlocked cheque is earned, a
\* locked one is signed.
ShownTo(signed, upper, E, G, R) ==
    \A r \in R :
        /\ r.unlocked \in BOOLEAN
        /\ r.unlocked /\ LockedForm(r.body) \in signed /\ upper <= r.body.timeout =>
              \E c \in G : c.index = r.body.index /\ c.amount = r.body.amount
        /\ ~r.unlocked /\ r.body \in signed => r.body \in E

LEMMA RespondWithKeeps ==
    ASSUME NEW E, Distinct(E), NEW G \in SUBSET E, NEW P, HaveAmounts(P), NEW pends \in Seq(P),
           NEW total \in Int, NEW acc \in RespondStates(E, G, P, pends, total),
           NEW signed, NEW upper, NEW R, ShownTo(signed, upper, E, G, R), NEW cheque \in R
    PROVE  RespondWith(signed, upper, acc, cheque) \in RespondStates(E, G, P, pends, total)
<1>. DEFINE Records == [ok : BOOLEAN, owed : Int, useds : Seq(UsedsOf(G)), at : Points,
                        pTotal : Int, pends : Seq(P)]
            reduced == UsedsUpTo(acc, cheque.body.index)
            body == cheque.body
            holds == /\ reduced.ok
                     /\ IsUnaccounted(reduced.at, body.index)
                     /\ IF cheque.unlocked
                        THEN LockedForm(body) \in signed /\ upper <= body.timeout
                        ELSE /\ body \in signed
                             /\ acc.pends # <<>> /\ Head(acc.pends) = PendOf(body)
            failed == [acc EXCEPT !.ok = FALSE]
            at == NextIndex(reduced.at, body.index)
            paid == [reduced EXCEPT !.at = at, !.owed = @ + body.amount]
            left == [reduced EXCEPT !.at = at, !.pTotal = @ - body.amount, !.pends = Tail(@)]
<1>1. acc \in Records
  BY DEF RespondStates
<1>2. reduced \in RespondStates(E, G, P, pends, total) /\ reduced.pends = acc.pends
  BY UsedsUpToKeeps
<1>3. cheque.unlocked \in BOOLEAN
  BY DEF ShownTo
<1>. HIDE DEF reduced
<1>4. reduced \in Records
  BY <1>2 DEF RespondStates
<1>5. CASE ~holds
  <2>1. RespondWith(signed, upper, acc, cheque) = failed
    BY <1>5 DEF RespondWith, reduced
  <2>2. failed \in Records /\ failed.ok = FALSE
    BY <1>1
  <2>. HIDE DEF failed
  <2>. QED
    BY <2>1, <2>2 DEF RespondStates
<1>6. CASE holds /\ cheque.unlocked
  <2>1. RespondWith(signed, upper, acc, cheque) = paid
    <3>1. RespondWith(signed, upper, acc, cheque)
            = [reduced EXCEPT !.at = at, !.owed = @ + body.amount, !.pTotal = @, !.pends = @]
      BY <1>6 DEF RespondWith, reduced
    <3>. QED
      BY <1>4, <3>1
  <2>2. PICK c \in G : c.index = body.index /\ c.amount = body.amount
    BY <1>6 DEF ShownTo
  <2>3. c.index \in Nat /\ c.amount \in Nat
    BY DEF Distinct
  <2>. DEFINE sum == reduced.owed + body.amount
  <2>4. Splits(E, G, pends, total, sum, at, reduced.pTotal, reduced.pends)
    <3>1. Splits(E, G, pends, total, reduced.owed, reduced.at, reduced.pTotal, reduced.pends)
          /\ reduced.at \in Points /\ IsUnaccounted(reduced.at, c.index)
      BY <1>2, <1>4, <1>6, <2>2 DEF RespondStates
    <3>2. Splits(E, G, pends, total, reduced.owed + c.amount, NextIndex(reduced.at, c.index),
                 reduced.pTotal, reduced.pends)
      BY <3>1, SplitTakesEarned
    <3>. QED
      BY <2>2, <3>2
  <2>5. sum \in Int /\ at \in Points
    BY <1>4, <1>6, <2>2, <2>3, NextIndexAccounts
  <2>6. paid = [reduced EXCEPT !.at = at, !.owed = sum]
    OBVIOUS
  <2>. HIDE DEF sum, at, paid
  <2>7. /\ paid \in Records /\ paid.owed = sum /\ paid.at = at
        /\ paid.pTotal = reduced.pTotal /\ paid.pends = reduced.pends
    BY <1>4, <2>5, <2>6
  <2>. QED
    BY <2>1, <2>4, <2>7 DEF RespondStates
<1>7. CASE holds /\ ~cheque.unlocked
  <2>1. RespondWith(signed, upper, acc, cheque) = left
    <3>1. RespondWith(signed, upper, acc, cheque)
            = [reduced EXCEPT !.at = at, !.owed = @, !.pTotal = @ - body.amount, !.pends = Tail(@)]
      BY <1>7 DEF RespondWith, reduced
    <3>. QED
      BY <1>4, <3>1
  <2>2. body \in E
    BY <1>7 DEF ShownTo
  <2>3. body.index \in Nat /\ body.amount \in Nat
    BY <2>2 DEF Distinct
  <2>. DEFINE rest == Tail(reduced.pends)
              sum == reduced.pTotal - body.amount
  <2>4. Splits(E, G, pends, total, reduced.owed, at, sum, rest)
    <3>1. Splits(E, G, pends, total, reduced.owed, reduced.at, reduced.pTotal, reduced.pends)
          /\ reduced.at \in Points /\ IsUnaccounted(reduced.at, body.index)
          /\ reduced.pends \in Seq(P) /\ reduced.pends # <<>> /\ Head(reduced.pends) = PendOf(body)
      BY <1>2, <1>4, <1>7 DEF RespondStates
    <3>. QED
      BY <2>2, <3>1, SplitTakesPending
  <2>5. sum \in Int /\ at \in Points /\ rest \in Seq(P)
    BY <1>2, <1>4, <1>7, <2>3, NextIndexAccounts
  <2>6. left = [reduced EXCEPT !.at = at, !.pTotal = sum, !.pends = rest]
    OBVIOUS
  <2>. HIDE DEF sum, at, rest, left
  <2>7. /\ left \in Records /\ left.owed = reduced.owed /\ left.at = at
        /\ left.pTotal = sum /\ left.pends = rest
    BY <1>4, <2>5, <2>6
  <2>. QED
    BY <2>1, <2>4, <2>7 DEF RespondStates
<1>. QED
  BY <1>3, <1>5, <1>6, <1>7

\* The accumulator a Respond starts with.
RespondBefore(signed, useds, squash, total, pends) ==
    [ok     |-> squash \in signed,
     owed   |-> squash.amount,
     useds  |-> useds,
     at     |-> [index |-> squash.index, exclude |-> squash.exclude],
     pTotal |-> total,
     pends  |-> pends]

LEMMA RespondStarts ==
    ASSUME NEW E, Distinct(E), NEW G \in SUBSET E, NEW P, HaveAmounts(P), NEW pends \in Seq(P),
           NEW total \in Int, NEW S \in SUBSET G, NEW signed, NEW useds \in Seq(UsedsOf(G))
    PROVE  RespondBefore(signed, useds, SquashOf(S), total, pends)
              \in RespondStates(E, G, P, pends, total)
<1>. DEFINE squash == SquashOf(S)
            at == [index |-> squash.index, exclude |-> squash.exclude]
            base == RespondBefore(signed, useds, squash, total, pends)
<1>1. squash.amount = Total(S) /\ at \in Points /\ \A c \in S : Accounted(at, c.index)
  BY SquashAccounts
<1>2. Total(S) \in Nat /\ Total({}) = 0
  BY TotalAdds
<1>. HIDE DEF squash
<1>3. /\ base \in [ok : BOOLEAN, owed : Int, useds : Seq(UsedsOf(G)), at : Points,
                    pTotal : Int, pends : Seq(P)]
      /\ base.owed = squash.amount /\ base.at = at /\ base.pTotal = total /\ base.pends = pends
  BY <1>1, <1>2 DEF RespondBefore
<1>. HIDE DEF at, base
<1>4. IsSplit(pends, total, squash.amount, at, total, pends, S, {})
  <2>1. ListTotal(pends) \in Nat
    BY ListTotalTail
  <2>2. ASSUME NEW p PROVE Count(pends, p) = Count(pends, p) - Cardinality({c \in {} : PendOf(c) = p})
    <3>1. {c \in {} : PendOf(c) = p} = {} /\ Cardinality({}) = 0
      BY FS_EmptySet
    <3>2. Count(pends, p) \in Nat
      BY CountTail
    <3>. QED
      BY <3>1, <3>2
  <2>. QED
    BY <1>1, <1>2, <2>1, <2>2 DEF IsSplit
<1>5. Splits(E, G, pends, total, squash.amount, at, total, pends)
  BY <1>4 DEF Splits
<1>. QED
  BY <1>3, <1>5 DEF RespondStates, base, squash

\* What a Respond that holds has counted: C was used or unlocked, L pends.
Responds(E, G, pends, total, owed) ==
    \E C \in SUBSET G, L \in SUBSET E :
        /\ C \cap L = {}
        /\ owed = Total(C)
        /\ total = Total(L) /\ total = ListTotal(pends)
        /\ \A p : Count(pends, p) = Cardinality({c \in L : PendOf(c) = p})

(* Whatever squash, old useds and cheques a Respond brings along, the walk
   that accepts it counts every cheque of the consumer at most once: what is
   owed is the worth of earned cheques (squashed, used or unlocked), and the
   pendings are other signed cheques, each listed once, whose worth is
   pends_amount (respond.ak's walk and its end). *)
THEOREM RespondCountsOnce ==
    ASSUME NEW E, Distinct(E), NEW G \in SUBSET E, NEW P, HaveAmounts(P), NEW pends \in Seq(P),
           NEW total \in Int, NEW S \in SUBSET G, NEW signed, NEW upper,
           NEW useds \in Seq(UsedsOf(G)),
           NEW R, ShownTo(signed, upper, E, G, R), NEW list \in Seq(R),
           RespondAccount(signed, upper, useds, SquashOf(S), list, total, pends).ok
    PROVE  Responds(E, G, pends, total,
                    RespondAccount(signed, upper, useds, SquashOf(S), list, total, pends).owed)
<1>. DEFINE State == RespondStates(E, G, P, pends, total)
            n == Len(list)
            base == RespondBefore(signed, useds, SquashOf(S), total, pends)
            F(iter) == [s \in SUBSET (1..n) |->
                          IF s = {} THEN base
                          ELSE RespondWith(signed, upper, iter[s \ {Max(s)}], list[Max(s)])]
            step == [q \in State \X (1..n) |-> RespondWith(signed, upper, q[1], list[q[2]])]
            it == CHOOSE iter : iter = F(iter)
            end == it[1..n]
            account == RespondAccount(signed, upper, useds, SquashOf(S), list, total, pends)
<1>1. n \in Nat /\ DOMAIN list = 1..n /\ \A k \in 1..n : list[k] \in R
  BY ListEntries
<1>. HIDE DEF n
<1>2. account = [end EXCEPT !.ok = @ /\ PendingsAccounted(end)]
  BY <1>1 DEF RespondAccount, RespondBefore, FoldLeft, MapThenFoldSet
<1>3. base \in State
  BY RespondStarts
<1>. HIDE DEF base, account
<1>4. \A a \in State : \A k \in 1..n : RespondWith(signed, upper, a, list[k]) \in State
  BY <1>1, RespondWithKeeps
<1>. HIDE DEF State
<1>5. step \in [State \X (1..n) -> State]
  BY <1>4
<1>6. it = F(it)
  <2>1. PICK walk : IsWalk(walk, n, State, base, step)
    <3>. HIDE DEF step
    <3>. QED
      BY <1>1, <1>3, <1>5, WalkExists
  <2>2. ASSUME NEW s \in SUBSET (1..n), s # {}
        PROVE  walk[s] = RespondWith(signed, upper, walk[s \ {Max(s)}], list[Max(s)])
    <3>1. Max(s) \in 1..n /\ s \ {Max(s)} \in SUBSET (1..n)
      BY <1>1, <2>2, MaxIsIn
    <3>2. walk[s] = step[<<walk[s \ {Max(s)}], Max(s)>>] /\ walk[s \ {Max(s)}] \in State
      <4>. HIDE DEF step
      <4>. QED
        BY <2>1, <2>2, <3>1 DEF IsWalk
    <3>. QED
      BY <3>1, <3>2
  <2>3. walk = F(walk)
    BY <2>1, <2>2 DEF IsWalk
  <2>. HIDE DEF F
  <2>. QED
    BY <2>3
<1>. HIDE DEF it
<1>7. it[{}] = base
  BY <1>6
<1>8. ASSUME NEW s \in SUBSET (1..n), s # {}, it[s \ {Max(s)}] \in State
      PROVE  it[s] = step[<<it[s \ {Max(s)}], Max(s)>>]
  <2>1. Max(s) \in 1..n
    BY <1>1, <1>8, MaxIsIn
  <2>. QED
    BY <1>6, <1>8, <2>1
<1>9. end \in State
  <2>1. IsFold(it, n, State, base, step)
    BY <1>7, <1>8 DEF IsFold
  <2>. HIDE DEF step
  <2>. QED
    BY <1>1, <1>3, <1>5, <2>1, FoldStays
<1>. HIDE DEF end
<1>10. end.ok /\ PendingsAccounted(end) /\ account.owed = end.owed
  <2>1. end \in [ok : BOOLEAN, owed : Int, useds : Seq(UsedsOf(G)), at : Points,
                 pTotal : Int, pends : Seq(P)]
    BY <1>9 DEF State, RespondStates
  <2>2. account.ok
    BY DEF account
  <2>. QED
    BY <1>2, <2>1, <2>2
<1>11. Splits(E, G, pends, total, end.owed, end.at, 0, <<>>)
  <2>1. Splits(E, G, pends, total, end.owed, end.at, end.pTotal, end.pends)
    BY <1>9, <1>10 DEF State, RespondStates
  <2>2. end.pTotal = 0 /\ end.pends = <<>>
    BY <1>10 DEF PendingsAccounted
  <2>. QED
    BY <2>1, <2>2
<1>12. PICK C \in SUBSET G, L \in SUBSET E : IsSplit(pends, total, end.owed, end.at, 0, <<>>, C, L)
  BY <1>11 DEF Splits
<1>13. C \cap L = {} /\ end.owed = Total(C)
  BY <1>12 DEF IsSplit
<1>14. total = Total(L) /\ total = ListTotal(pends)
  <2>1. 0 = total - Total(L) /\ ListTotal(<<>>) = ListTotal(pends) - Total(L)
    BY <1>12 DEF IsSplit
  <2>2. <<>> \in Seq(P)
    OBVIOUS
  <2>3. ListTotal(<<>>) = 0 /\ ListTotal(pends) \in Nat /\ Total(L) \in Nat
    BY <2>2, ListTotalTail, TotalAdds
  <2>. QED
    BY <2>1, <2>3
<1>15. ASSUME NEW p PROVE Count(pends, p) = Cardinality({c \in L : PendOf(c) = p})
  <2>. DEFINE D == {c \in L : PendOf(c) = p}
  <2>1. Count(<<>>, p) = Count(pends, p) - Cardinality(D)
    BY <1>12 DEF IsSplit
  <2>2. <<>> \in Seq(P)
    OBVIOUS
  <2>3. Count(<<>>, p) = 0 /\ Count(pends, p) \in Nat
    BY <2>2, CountTail
  <2>4. Cardinality(D) \in Nat
    <3>1. D \subseteq E /\ IsFiniteSet(E)
      BY DEF Distinct
    <3>. QED
      BY <3>1, FS_Subset, FS_CardinalityType
  <2>. HIDE DEF D
  <2>5. Count(pends, p) = Cardinality(D)
    BY <2>1, <2>3, <2>4
  <2>. QED
    BY <2>5 DEF D
<1>16. Responds(E, G, pends, total, end.owed)
  BY <1>13, <1>14, <1>15 DEF Responds
<1>. QED
  BY <1>10, <1>16 DEF account

-----------------------------------------------------------------------------
(* The stages as balances, and what the pendings wait for.                 *)

LEMMA OpenedMaps ==
    ASSUME NEW state, state.stage = "Opened"
    PROVE  /\ Phase(state) = "open" /\ Funds(state) = state.amount
           /\ Held(state) = 0 /\ Waits(state) = {}
  BY DEF Phase, Funds, Held, Waits

LEMMA ClosedMaps ==
    ASSUME NEW state, state.stage = "Closed"
    PROVE  /\ Phase(state) = "closing" /\ Funds(state) = state.amount
           /\ Held(state) = 0 /\ Waits(state) = {}
  BY DEF Phase, Funds, Held, Waits

LEMMA RespondedMaps ==
    ASSUME NEW state, state.stage = "Responded"
    PROVE  /\ Phase(state) = "answered" /\ Funds(state) = state.amount
           /\ Held(state) = state.pendsAmount
           /\ Waits(state) = {pend.timeout : pend \in Entries(state.pends)}
  BY DEF Phase, Funds, Held, Waits

LEMMA SpentMaps ==
    ASSUME NEW how
    PROVE  LET spent == [stage |-> "Spent", by |-> how]
           IN  Phase(spent) = CASE how = "Elapse" -> "reclaimed"
                                [] how = "End"    -> "finished"
                                [] how = "Mutual" -> "agreed"
                                [] OTHER          -> "lost"
  BY DEF Phase

\* What stands in a list counts in it.
LEMMA EntryCounts ==
    ASSUME NEW T, NEW list \in Seq(T), NEW x
    PROVE  x \in Entries(list) <=> Count(list, x) # 0
<1>1. DOMAIN list = 1..Len(list) /\ Len(list) \in Nat
  OBVIOUS
<1>2. IsFiniteSet(Places(list, x))
  <2>1. IsFiniteSet(DOMAIN list)
    BY <1>1, FS_Interval
  <2>2. Places(list, x) \in SUBSET DOMAIN list
    BY DEF Places
  <2>. QED
    BY <2>1, <2>2, FS_Subset
<1>3. Count(list, x) = 0 <=> Places(list, x) = {}
  BY <1>2, FS_EmptySet DEF Count
<1>4. x \in Entries(list) <=> Places(list, x) # {}
  BY DEF Entries, Places
<1>. QED
  BY <1>3, <1>4

\* Pendings that stand no more often than before wait for nothing new.
LEMMA FewerWait ==
    ASSUME NEW P, NEW state, NEW next, state.stage = "Responded", next.stage = "Responded",
           state.pends \in Seq(P), next.pends \in Seq(P),
           \A p : Count(next.pends, p) <= Count(state.pends, p)
    PROVE  Waits(next) \subseteq Waits(state)
<1>1. ASSUME NEW p \in Entries(next.pends) PROVE p \in Entries(state.pends)
  <2>1. Count(next.pends, p) # 0 /\ Count(next.pends, p) <= Count(state.pends, p)
    BY EntryCounts
  <2>2. Count(next.pends, p) \in Nat /\ Count(state.pends, p) \in Nat
    BY CountTail
  <2>3. Count(state.pends, p) # 0
    BY <2>1, <2>2
  <2>. QED
    BY <2>3, EntryCounts
<1>. QED
  BY <1>1, RespondedMaps

-----------------------------------------------------------------------------
(* That the walks of Unlock and Expire accept all that KernelReference does. *)

\* What is left of a list past its first k entries.
IsPast(list, of, k) ==
    /\ k \in 0..Len(of) /\ Len(list) = Len(of) - k
    /\ \A i \in 1..(Len(of) - k) : list[i] = of[i + k]

LEMMA PastFirst ==
    ASSUME NEW P, NEW of \in Seq(P), NEW list \in Seq(P), NEW k, IsPast(list, of, k)
    PROVE  /\ list # <<>> <=> k < Len(of)
           /\ list # <<>> => Head(list) = of[k + 1] /\ IsPast(Tail(list), of, k + 1)
<1>1. Len(of) \in Nat /\ k \in 0..Len(of) /\ Len(list) = Len(of) - k
      /\ \A i \in 1..(Len(of) - k) : list[i] = of[i + k]
  BY DEF IsPast
<1>2. list # <<>> <=> k < Len(of)
  BY <1>1
<1>3. ASSUME list # <<>> PROVE Head(list) = of[k + 1] /\ IsPast(Tail(list), of, k + 1)
  <2>1. Head(list) = list[1] /\ Len(Tail(list)) = Len(list) - 1
        /\ \A i \in 1..(Len(list) - 1) : Tail(list)[i] = list[i + 1]
    BY <1>3
  <2>2. 1 \in 1..(Len(of) - k) /\ 1 + k = k + 1
    BY <1>1, <1>2, <1>3
  <2>3. ASSUME NEW i \in 1..(Len(of) - (k + 1)) PROVE Tail(list)[i] = of[i + (k + 1)]
    <3>1. i \in 1..(Len(list) - 1) /\ i + 1 \in 1..(Len(of) - k) /\ (i + 1) + k = i + (k + 1)
      BY <1>1
    <3>. QED
      BY <1>1, <2>1, <3>1
  <2>4. k + 1 \in 0..Len(of) /\ Len(Tail(list)) = Len(of) - (k + 1)
    BY <1>1, <1>2, <1>3, <2>1
  <2>5. Head(list) = of[k + 1]
    BY <1>1, <2>1, <2>2
  <2>. QED
    BY <2>3, <2>4, <2>5 DEF IsPast
<1>. QED
  BY <1>2, <1>3

\* When the walk goes on, and with what.
LEMMA PendsWithIs ==
    ASSUME NEW P, NEW acc \in PendsStates(P), NEW unpend, NEW settles \in BOOLEAN
    PROVE  LET next == PendsWith(acc, unpend, settles)
           IN  /\ next.ok <=> /\ acc.ok /\ acc.pendsIn # <<>>
                              /\ IF unpend = Keep THEN PendKept(acc) ELSE settles
               /\ next.ok => /\ next.pendsIn = Tail(acc.pendsIn)
                             /\ next.pendsOut = IF unpend = Keep THEN Tail(acc.pendsOut) ELSE acc.pendsOut
<1>. DEFINE next == PendsWith(acc, unpend, settles)
            goes == /\ acc.ok /\ acc.pendsIn # <<>>
                    /\ IF unpend = Keep THEN PendKept(acc) ELSE settles
            failed == [acc EXCEPT !.ok = FALSE]
            kept == [acc EXCEPT !.pendsIn = Tail(@), !.pendsOut = SubSeq(@, 2, Len(@))]
            left == [acc EXCEPT !.total = @ + Head(acc.pendsIn).amount, !.pendsIn = Tail(@)]
<1>1. ~failed.ok
  BY DEF PendsStates
<1>2. /\ kept.ok = acc.ok /\ kept.pendsIn = Tail(acc.pendsIn)
      /\ kept.pendsOut = SubSeq(acc.pendsOut, 2, Len(acc.pendsOut))
  BY DEF PendsStates
<1>3. left.ok = acc.ok /\ left.pendsIn = Tail(acc.pendsIn) /\ left.pendsOut = acc.pendsOut
  BY DEF PendsStates
<1>. HIDE DEF failed, kept, left
<1>4. ~goes => next = failed
  BY DEF PendsWith, failed
<1>5. goes /\ unpend = Keep => next = kept /\ acc.pendsOut # <<>>
  BY DEF PendsWith, PendKept, kept
<1>6. goes /\ unpend # Keep => next = left
  BY DEF PendsWith, left
<1>7. acc.pendsOut \in Seq(P) /\ acc.ok \in BOOLEAN
  BY DEF PendsStates
<1>8. acc.pendsOut # <<>> => SubSeq(acc.pendsOut, 2, Len(acc.pendsOut)) = Tail(acc.pendsOut)
  BY <1>7
<1>9. goes => acc.ok
  OBVIOUS
<1>. HIDE DEF next, goes
<1>10. next.ok <=> goes
  BY <1>1, <1>2, <1>3, <1>4, <1>5, <1>6, <1>9
<1>11. next.ok => /\ next.pendsIn = Tail(acc.pendsIn)
                  /\ next.pendsOut = IF unpend = Keep THEN Tail(acc.pendsOut) ELSE acc.pendsOut
  BY <1>2, <1>3, <1>5, <1>6, <1>8, <1>10
<1>. QED
  BY <1>10, <1>11 DEF next, goes

\* How many of S come up to k.
RankIn(S, k) == Cardinality({m \in S : m <= k})

LEMMA RankSteps ==
    ASSUME NEW top \in Nat, NEW S \in SUBSET (1..top)
    PROVE  /\ RankIn(S, 0) = 0 /\ RankIn(S, top) = Cardinality(S)
           /\ \A k \in 0..top : RankIn(S, k) \in Nat
           /\ \A k \in 1..top : RankIn(S, k) = RankIn(S, k - 1) + (IF k \in S THEN 1 ELSE 0)
<1>1. \A k : IsFiniteSet({m \in S : m <= k})
  <2>1. IsFiniteSet(1..top)
    BY FS_Interval
  <2>2. \A k : {m \in S : m <= k} \subseteq 1..top
    OBVIOUS
  <2>. QED
    BY <2>1, <2>2, FS_Subset
<1>0. \A m \in S : m \in Int /\ 1 <= m /\ m <= top
  OBVIOUS
<1>2. {m \in S : m <= 0} = {} /\ {m \in S : m <= top} = S
  <2>1. \A m \in S : ~(m <= 0) /\ m <= top
    BY <1>0
  <2>. QED
    BY <2>1, Zenon
<1>3. RankIn(S, 0) = 0 /\ RankIn(S, top) = Cardinality(S)
  BY <1>2, FS_EmptySet DEF RankIn
<1>4. \A k : RankIn(S, k) \in Nat
  BY <1>1, FS_CardinalityType DEF RankIn
<1>5. ASSUME NEW k \in 1..top
      PROVE  RankIn(S, k) = RankIn(S, k - 1) + (IF k \in S THEN 1 ELSE 0)
  <2>. DEFINE before == {m \in S : m <= k - 1}
  <2>0. \A m \in S : (m <= k <=> m <= k - 1 \/ m = k) /\ ~(k <= k - 1)
    BY <1>0
  <2>1. IsFiniteSet(before) /\ k \notin before
    BY <1>1, <2>0, Zenon
  <2>2. CASE k \in S
    <3>1. {m \in S : m <= k} = before \cup {k}
      BY <2>0, <2>2, Zenon
    <3>2. Cardinality(before \cup {k}) = Cardinality(before) + 1
      BY <2>1, FS_AddElement
    <3>. QED
      BY <2>2, <3>1, <3>2 DEF RankIn
  <2>3. CASE k \notin S
    <3>1. {m \in S : m <= k} = before
      BY <2>0, <2>3, Zenon
    <3>. QED
      BY <1>4, <2>3, <3>1 DEF RankIn
  <2>. QED
    BY <2>2, <2>3
<1>. QED
  BY <1>3, <1>4, <1>5

\* The pendings no unpend settles.
KeptOf(unpends, pendsIn) ==
    {n \in DOMAIN pendsIn : n \notin {m \in DOMAIN unpends : unpends[m] # Keep}}

\* The first k unpends stand against the old pendings as the reference asks.
GoesTo(k, unpends, good, pendsIn, pendsOut) ==
    LET kept == KeptOf(unpends, pendsIn)
    IN  /\ k <= Len(pendsIn)
        /\ \A j \in 1..k : IF unpends[j] = Keep
                           THEN RankIn(kept, j) <= Len(pendsOut) /\ pendsOut[RankIn(kept, j)] = pendsIn[j]
                           ELSE good[j]

LEMMA PendsWalkGoes ==
    ASSUME NEW P, NEW n \in Nat, NEW unpends, DOMAIN unpends = 1..n, NEW settled, NEW h, NEW good,
           NEW pendsIn \in Seq(P), NEW pendsOut \in Seq(P),
           IsPendsWalk(h, n, P, unpends, settled, pendsIn, pendsOut),
           \A k \in 1..n : k \in DOMAIN pendsIn /\ Head(h[k - 1].pendsIn) = pendsIn[k] => settled[k] = good[k]
    PROVE  \A k \in 0..n :
              /\ h[k].ok <=> GoesTo(k, unpends, good, pendsIn, pendsOut)
              /\ h[k].ok => /\ IsPast(h[k].pendsIn, pendsIn, k)
                            /\ IsPast(h[k].pendsOut, pendsOut, RankIn(KeptOf(unpends, pendsIn), k))
<1>. DEFINE kept == KeptOf(unpends, pendsIn)
            top == Len(pendsIn)
            Goes(k) == GoesTo(k, unpends, good, pendsIn, pendsOut)
            At(j) == IF unpends[j] = Keep
                     THEN RankIn(kept, j) <= Len(pendsOut) /\ pendsOut[RankIn(kept, j)] = pendsIn[j]
                     ELSE good[j]
            T == {k \in 0..n : /\ h[k].ok <=> Goes(k)
                               /\ h[k].ok => /\ IsPast(h[k].pendsIn, pendsIn, k)
                                             /\ IsPast(h[k].pendsOut, pendsOut, RankIn(kept, k))}
<1>1. top \in Nat /\ DOMAIN pendsIn = 1..top /\ Len(pendsOut) \in Nat
  BY ListEntries
<1>. HIDE DEF top
<1>2. kept \in SUBSET (1..top) /\ \A j \in 1..n : j <= top => (j \in kept <=> unpends[j] = Keep)
  BY <1>1 DEF KeptOf
<1>. HIDE DEF kept
<1>3. /\ RankIn(kept, 0) = 0 /\ \A k \in 0..top : RankIn(kept, k) \in Nat
      /\ \A k \in 1..top : RankIn(kept, k) = RankIn(kept, k - 1) + (IF k \in kept THEN 1 ELSE 0)
  BY <1>1, <1>2, RankSteps
<1>4. \A k : Goes(k) <=> k <= top /\ \A j \in 1..k : At(j)
  BY DEF GoesTo, kept, top
<1>. HIDE DEF Goes
<1>5. \A k \in 0..n : h[k] \in PendsStates(P) /\ h[k].pendsIn \in Seq(P) /\ h[k].pendsOut \in Seq(P) /\ h[k].ok \in BOOLEAN
  BY DEF IsPendsWalk, PendsStates
<1>6. 0 \in T
  <2>1. h[0].ok /\ h[0].pendsIn = pendsIn /\ h[0].pendsOut = pendsOut
    BY DEF IsPendsWalk, PendsBefore
  <2>2. Goes(0)
    <3>. HIDE DEF At
    <3>. QED
      BY <1>1, <1>4
  <2>3. IsPast(pendsIn, pendsIn, 0) /\ IsPast(pendsOut, pendsOut, 0)
    BY <1>1 DEF IsPast, top
  <2>. QED
    BY <1>3, <2>1, <2>2, <2>3
<1>7. ASSUME NEW k \in 1..n, k - 1 \in T PROVE k \in T
  <2>. DEFINE acc == h[k - 1]
              unpend == unpends[k]
  <2>1. k - 1 \in 0..n /\ k \in 0..n /\ 1..k = (1..(k - 1)) \cup {k} /\ k - 1 + 1 = k
    OBVIOUS
  <2>2. /\ acc \in PendsStates(P) /\ acc.pendsIn \in Seq(P) /\ acc.pendsOut \in Seq(P)
        /\ acc.ok <=> Goes(k - 1)
        /\ acc.ok => /\ IsPast(acc.pendsIn, pendsIn, k - 1)
                     /\ IsPast(acc.pendsOut, pendsOut, RankIn(kept, k - 1))
    BY <1>5, <1>7, <2>1
  <2>3. settled[k] \in BOOLEAN /\ h[k] = PendsWith(acc, unpend, settled[k])
    BY DEF IsPendsWalk
  <2>. HIDE DEF acc
  <2>4. /\ h[k].ok <=> /\ acc.ok /\ acc.pendsIn # <<>>
                       /\ IF unpend = Keep THEN PendKept(acc) ELSE settled[k]
        /\ h[k].ok => /\ h[k].pendsIn = Tail(acc.pendsIn)
                      /\ h[k].pendsOut = IF unpend = Keep THEN Tail(acc.pendsOut) ELSE acc.pendsOut
    BY <2>2, <2>3, PendsWithIs
  <2>5. Goes(k) <=> Goes(k - 1) /\ k <= top /\ At(k)
    <3>. HIDE DEF At
    <3>. QED
      BY <1>1, <1>4, <2>1
  <2>6. ASSUME ~acc.ok PROVE k \in T
    BY <2>1, <2>2, <2>4, <2>5, <2>6
  <2>7. ASSUME acc.ok PROVE k \in T
    <3>1. acc.pendsIn # <<>> <=> k <= top
      <4>1. acc.pendsIn # <<>> <=> k - 1 < top
        BY <2>2, <2>7, PastFirst DEF top
      <4>. QED
        BY <1>1, <4>1
    <3>2. ASSUME k > top PROVE k \in T
      BY <1>1, <2>1, <2>4, <2>5, <3>1, <3>2
    <3>3. ASSUME k <= top PROVE k \in T
      <4>1. /\ acc.pendsIn # <<>> /\ Head(acc.pendsIn) = pendsIn[k] /\ IsPast(Tail(acc.pendsIn), pendsIn, k)
        BY <2>1, <2>2, <2>7, <3>1, <3>3, PastFirst
      <4>2. settled[k] = good[k]
        BY <1>1, <3>3, <4>1 DEF acc
      <4>3. CASE unpend = Keep
        <5>1. RankIn(kept, k) = RankIn(kept, k - 1) + 1 /\ RankIn(kept, k - 1) \in Nat
          BY <1>1, <1>2, <1>3, <3>3, <4>3
        <5>2. /\ acc.pendsOut # <<>> <=> RankIn(kept, k) <= Len(pendsOut)
              /\ acc.pendsOut # <<>> => /\ Head(acc.pendsOut) = pendsOut[RankIn(kept, k)]
                                        /\ IsPast(Tail(acc.pendsOut), pendsOut, RankIn(kept, k))
          <6>1. acc.pendsOut # <<>> <=> RankIn(kept, k - 1) < Len(pendsOut)
            BY <2>2, <2>7, PastFirst
          <6>2. acc.pendsOut # <<>> => /\ Head(acc.pendsOut) = pendsOut[RankIn(kept, k - 1) + 1]
                                       /\ IsPast(Tail(acc.pendsOut), pendsOut, RankIn(kept, k - 1) + 1)
            BY <2>2, <2>7, PastFirst
          <6>. QED
            BY <1>1, <5>1, <6>1, <6>2
        <5>3. PendKept(acc) <=> At(k)
          BY <4>1, <4>3, <5>2 DEF PendKept
        <5>4. h[k].ok <=> Goes(k)
          BY <2>2, <2>4, <2>5, <2>7, <3>3, <4>1, <4>3, <5>3
        <5>5. h[k].ok => acc.pendsOut # <<>>
          BY <2>4, <4>3 DEF PendKept
        <5>. QED
          BY <2>1, <2>4, <4>1, <4>3, <5>2, <5>4, <5>5
      <4>4. CASE unpend # Keep
        <5>1. RankIn(kept, k) = RankIn(kept, k - 1)
          BY <1>1, <1>2, <1>3, <3>3, <4>4
        <5>2. At(k) <=> settled[k]
          BY <4>2, <4>4
        <5>3. h[k].ok <=> Goes(k)
          BY <2>2, <2>4, <2>5, <2>7, <3>3, <4>1, <4>4, <5>2
        <5>. QED
          BY <2>1, <2>2, <2>4, <2>7, <4>1, <4>4, <5>1, <5>3
      <4>. QED
        BY <4>3, <4>4
    <3>. QED
      BY <1>1, <3>2, <3>3
  <2>. QED
    BY <2>2, <2>6, <2>7
<1>8. \A k \in 0..n : k \in T
  <2>. HIDE DEF T
  <2>. QED
    BY <1>6, <1>7, Climb
<1>. QED
  BY <1>8 DEF Goes, kept

\* The reference, with the rank of each pending that stays.
PendsFit(unpends, good, pendsIn, pendsOut) ==
    LET kept == KeptOf(unpends, pendsIn)
    IN  /\ Len(unpends) <= Len(pendsIn)
        /\ \A k \in DOMAIN unpends : unpends[k] # Keep => good[k]
        /\ Len(pendsOut) = Cardinality(kept)
        /\ \A k \in kept : pendsOut[RankIn(kept, k)] = pendsIn[k]

LEMMA PendsWalkFits ==
    ASSUME NEW P, NEW V, NEW unpends \in Seq(V), NEW settled, NEW h, NEW good,
           NEW pendsIn \in Seq(P), NEW pendsOut \in Seq(P),
           IsPendsWalk(h, Len(unpends), P, unpends, settled, pendsIn, pendsOut),
           \A k \in DOMAIN unpends :
              k \in DOMAIN pendsIn /\ Head(h[k - 1].pendsIn) = pendsIn[k] => settled[k] = good[k]
    PROVE  PendsAfter(h[Len(unpends)]).ok <=> PendsFit(unpends, good, pendsIn, pendsOut)
<1>. DEFINE kept == KeptOf(unpends, pendsIn)
            top == Len(pendsIn)
            n == Len(unpends)
            rank(j) == RankIn(kept, j)
            end == h[n]
<1>1. /\ top \in Nat /\ DOMAIN pendsIn = 1..top /\ Len(pendsOut) \in Nat
      /\ n \in Nat /\ DOMAIN unpends = 1..n
  BY ListEntries
<1>2. kept \in SUBSET (1..top) /\ \A j \in 1..top : j \in kept <=> j > n \/ unpends[j] = Keep
  BY <1>1 DEF KeptOf
<1>3. end \in PendsStates(P) /\ end.pendsIn \in Seq(P) /\ end.pendsOut \in Seq(P) /\ end.ok \in BOOLEAN
  BY <1>1 DEF IsPendsWalk, PendsStates
<1>4. /\ end.ok <=> GoesTo(n, unpends, good, pendsIn, pendsOut)
      /\ end.ok => IsPast(end.pendsIn, pendsIn, n) /\ IsPast(end.pendsOut, pendsOut, rank(n))
  <2>1. DOMAIN unpends = 1..n /\ n \in 0..n /\ n \in Nat
    BY <1>1
  <2>2. IsPendsWalk(h, n, P, unpends, settled, pendsIn, pendsOut)
    OBVIOUS
  <2>3. \A k \in 1..n : k \in DOMAIN pendsIn /\ Head(h[k - 1].pendsIn) = pendsIn[k] => settled[k] = good[k]
    BY <2>1
  <2>4. \A k \in 0..n :
           /\ h[k].ok <=> GoesTo(k, unpends, good, pendsIn, pendsOut)
           /\ h[k].ok => /\ IsPast(h[k].pendsIn, pendsIn, k)
                         /\ IsPast(h[k].pendsOut, pendsOut, RankIn(KeptOf(unpends, pendsIn), k))
    <3>. HIDE DEF n
    <3>. QED
      BY <2>1, <2>2, <2>3, PendsWalkGoes
  <2>. QED
    BY <2>1, <2>4
<1>5. PendsAfter(end).ok <=> end.ok /\ end.pendsIn = end.pendsOut
  BY DEF PendsAfter
<1>. HIDE DEF end
<1>6. GoesTo(n, unpends, good, pendsIn, pendsOut) <=>
         /\ n <= top
         /\ \A j \in 1..n : IF unpends[j] = Keep
                            THEN rank(j) <= Len(pendsOut) /\ pendsOut[rank(j)] = pendsIn[j]
                            ELSE good[j]
  BY DEF GoesTo
<1>7. PendsFit(unpends, good, pendsIn, pendsOut) <=>
         /\ n <= top
         /\ \A k \in 1..n : unpends[k] # Keep => good[k]
         /\ Len(pendsOut) = Cardinality(kept)
         /\ \A k \in kept : pendsOut[rank(k)] = pendsIn[k]
  BY <1>1 DEF PendsFit
<1>. HIDE DEF kept, top, n
<1>8. /\ rank(0) = 0 /\ rank(top) = Cardinality(kept)
      /\ \A k \in 0..top : rank(k) \in Nat /\ rank(k) <= Cardinality(kept)
      /\ \A k \in 1..top : rank(k) = rank(k - 1) + (IF k \in kept THEN 1 ELSE 0)
  <2>1. \A k : rank(k) <= Cardinality(kept)
    <3>0. IsFiniteSet(1..top)
      BY <1>1, FS_Interval
    <3>1. IsFiniteSet(kept)
      BY <1>2, <3>0, FS_Subset
    <3>2. \A k : {m \in kept : m <= k} \subseteq kept
      OBVIOUS
    <3>. QED
      BY <3>1, <3>2, FS_Subset DEF RankIn
  <2>. QED
    BY <1>1, <1>2, <2>1, RankSteps
<1>. HIDE DEF rank
<1>9. ASSUME n <= top PROVE \A i \in 0..(top - n) : rank(i + n) = rank(n) + i
  <2>. DEFINE T == {i \in 0..(top - n) : rank(i + n) = rank(n) + i}
  <2>1. 0 \in T
    BY <1>1, <1>8, <1>9
  <2>2. ASSUME NEW i \in 1..(top - n), i - 1 \in T PROVE i \in T
    <3>1. i + n \in 1..top /\ i + n > n /\ (i + n) - 1 = (i - 1) + n
      BY <1>1, <1>9
    <3>2. i + n \in kept
      BY <1>2, <3>1
    <3>3. rank(i + n) = rank((i - 1) + n) + 1 /\ rank((i - 1) + n) = rank(n) + (i - 1) /\ rank(n) \in Nat
      BY <1>1, <1>8, <1>9, <2>2, <3>1, <3>2
    <3>. QED
      BY <3>3
  <2>3. \A i \in 0..(top - n) : i \in T
    <3>1. top - n \in Nat
      BY <1>1, <1>9
    <3>. HIDE DEF T
    <3>. QED
      BY <2>1, <2>2, <3>1, Climb
  <2>. QED
    BY <2>3
<1>10. ASSUME n <= top
       PROVE  /\ rank(n) \in Nat /\ Cardinality(kept) = rank(n) + (top - n)
              /\ \A k \in (n + 1)..top : k - n \in 1..(top - n) /\ k = (k - n) + n /\ rank(k) = rank(n) + (k - n) /\ k \in kept
  <2>1. rank(n) \in Nat /\ top - n \in 0..(top - n) /\ (top - n) + n = top
    BY <1>1, <1>8, <1>10
  <2>2. Cardinality(kept) = rank(n) + (top - n)
    BY <1>8, <1>9, <1>10, <2>1
  <2>3. ASSUME NEW k \in (n + 1)..top
        PROVE  k - n \in 1..(top - n) /\ k = (k - n) + n /\ rank(k) = rank(n) + (k - n) /\ k \in kept
    <3>1. k - n \in 1..(top - n) /\ k = (k - n) + n /\ k \in 1..top /\ k > n /\ k - n \in 0..(top - n)
      BY <1>1, <1>10
    <3>2. rank((k - n) + n) = rank(n) + (k - n)
      BY <1>9, <1>10, <3>1
    <3>. QED
      BY <1>2, <3>1, <3>2
  <2>. QED
    BY <2>1, <2>2, <2>3
<1>11. ASSUME end.ok, end.pendsIn = end.pendsOut PROVE PendsFit(unpends, good, pendsIn, pendsOut)
  <2>1. /\ n <= top
        /\ \A j \in 1..n : IF unpends[j] = Keep
                           THEN rank(j) <= Len(pendsOut) /\ pendsOut[rank(j)] = pendsIn[j]
                           ELSE good[j]
    BY <1>4, <1>6, <1>11
  <2>2. /\ Len(end.pendsIn) = top - n /\ \A i \in 1..(top - n) : end.pendsIn[i] = pendsIn[i + n]
        /\ Len(end.pendsOut) = Len(pendsOut) - rank(n)
        /\ \A i \in 1..(Len(pendsOut) - rank(n)) : end.pendsOut[i] = pendsOut[i + rank(n)]
    BY <1>4, <1>11 DEF IsPast, top, rank
  <2>3. Len(pendsOut) = Cardinality(kept)
    BY <1>1, <1>10, <1>11, <2>1, <2>2
  <2>4. ASSUME NEW k \in kept PROVE pendsOut[rank(k)] = pendsIn[k]
    <3>1. k \in 1..top
      BY <1>2
    <3>2. CASE k <= n
      <4>1. k \in 1..n /\ unpends[k] = Keep
        BY <1>1, <1>2, <3>1, <3>2
      <4>. QED
        BY <2>1, <4>1
    <3>3. CASE k > n
      <4>1. k \in (n + 1)..top
        BY <1>1, <3>1, <3>3
      <4>2. k - n \in 1..(top - n) /\ k = (k - n) + n /\ rank(k) = rank(n) + (k - n) /\ rank(n) \in Nat
        BY <1>10, <2>1, <4>1
      <4>3. k - n \in 1..(Len(pendsOut) - rank(n)) /\ (k - n) + rank(n) = rank(k)
        BY <1>1, <1>10, <2>1, <2>3, <4>2
      <4>4. end.pendsIn[k - n] = pendsIn[k] /\ end.pendsOut[k - n] = pendsOut[rank(k)]
        BY <2>2, <4>2, <4>3
      <4>. QED
        BY <1>11, <4>4
    <3>. QED
      BY <1>1, <3>1, <3>2, <3>3
  <2>. QED
    BY <1>7, <2>1, <2>3, <2>4
<1>12. ASSUME PendsFit(unpends, good, pendsIn, pendsOut) PROVE end.ok /\ end.pendsIn = end.pendsOut
  <2>1. /\ n <= top
        /\ \A k \in 1..n : unpends[k] # Keep => good[k]
        /\ Len(pendsOut) = Cardinality(kept)
        /\ \A k \in kept : pendsOut[rank(k)] = pendsIn[k]
    BY <1>7, <1>12
  <2>2. ASSUME NEW j \in 1..n, unpends[j] = Keep
        PROVE  rank(j) <= Len(pendsOut) /\ pendsOut[rank(j)] = pendsIn[j]
    <3>1. j \in 1..top /\ j \in 0..top
      BY <1>1, <2>1
    <3>. QED
      BY <1>2, <1>8, <2>1, <2>2, <3>1
  <2>3. end.ok
    BY <1>4, <1>6, <2>1, <2>2
  <2>4. /\ Len(end.pendsIn) = top - n /\ \A i \in 1..(top - n) : end.pendsIn[i] = pendsIn[i + n]
        /\ Len(end.pendsOut) = Len(pendsOut) - rank(n)
        /\ \A i \in 1..(Len(pendsOut) - rank(n)) : end.pendsOut[i] = pendsOut[i + rank(n)]
    BY <1>4, <2>3 DEF IsPast, top, rank
  <2>5. Len(pendsOut) - rank(n) = top - n
    BY <1>1, <1>10, <2>1
  <2>6. ASSUME NEW i \in 1..(top - n) PROVE end.pendsIn[i] = end.pendsOut[i]
    <3>1. i + n \in (n + 1)..top /\ (i + n) - n = i
      BY <1>1, <2>1
    <3>2. i + n \in kept /\ rank(i + n) = rank(n) + i /\ rank(n) \in Nat
      BY <1>10, <2>1, <3>1
    <3>3. pendsOut[i + rank(n)] = pendsIn[i + n]
      BY <2>1, <3>2
    <3>. QED
      BY <2>4, <2>5, <3>3
  <2>7. /\ end.pendsIn = [i \in 1..(top - n) |-> end.pendsIn[i]]
        /\ end.pendsOut = [i \in 1..(top - n) |-> end.pendsOut[i]]
    BY <1>3, <2>4, <2>5
  <2>8. end.pendsIn = end.pendsOut
    BY <2>6, <2>7, Zenon
  <2>. QED
    BY <2>3, <2>8
<1>. QED
  BY <1>5, <1>11, <1>12 DEF end, n

(* An Unlock accepts exactly what the reference describes: every secret is that
   of the pending at its place, in time, and what the new datum lists is the
   other pendings, all of them, in their order (unlock.ak's walk). *)
THEOREM UnlockIsExact ==
    ASSUME NEW P, HaveAmounts(P), NEW upper, NEW V, NEW unpends \in Seq(V),
           NEW pendsIn \in Seq(P), NEW pendsOut \in Seq(P)
    PROVE  UnlockAccount(upper, unpends, pendsIn, pendsOut).ok
              <=> UnlockEvidence(upper, unpends, pendsIn, pendsOut)
<1>. DEFINE n == Len(unpends)
            good == [k \in DOMAIN unpends |-> UnlockSettles(upper, pendsIn[k], unpends[k])]
            account == UnlockAccount(upper, unpends, pendsIn, pendsOut)
<1>1. n \in Nat /\ DOMAIN unpends = 1..n
  BY ListEntries
<1>2. UnlockEvidence(upper, unpends, pendsIn, pendsOut) <=> PendsFit(unpends, good, pendsIn, pendsOut)
  BY DEF UnlockEvidence, PendsEvidence, PendsFit, KeptOf, RankIn
<1>3. PICK h : IsUnlockWalk(h, n, P, upper, unpends, pendsIn, pendsOut)
  <2>. HIDE DEF n
  <2>. QED
    BY <1>1, UnlockWalks
<1>. DEFINE settled == [k \in 1..n |-> UnlockSettles(upper, Head(h[k - 1].pendsIn), unpends[k])]
<1>4. IsPendsWalk(h, n, P, unpends, settled, pendsIn, pendsOut) /\ account = PendsAfter(h[n])
  BY <1>3 DEF IsUnlockWalk
<1>5. \A k \in DOMAIN unpends :
         k \in DOMAIN pendsIn /\ Head(h[k - 1].pendsIn) = pendsIn[k] => settled[k] = good[k]
  BY <1>1
<1>. HIDE DEF settled, good, account
<1>6. PendsAfter(h[n]).ok <=> PendsFit(unpends, good, pendsIn, pendsOut)
  BY <1>4, <1>5, PendsWalkFits
<1>7. account.ok <=> PendsFit(unpends, good, pendsIn, pendsOut)
  BY <1>4, <1>6
<1>. QED
  BY <1>2, <1>7 DEF account

(* An Expire accepts exactly what the reference describes: what is settled has
   timed out, and the other pendings stay, in their order (expire.ak). *)
THEOREM ExpireIsExact ==
    ASSUME NEW P, HaveAmounts(P), NEW lower, NEW V, NEW unpends \in Seq(V),
           NEW pendsIn \in Seq(P), NEW pendsOut \in Seq(P)
    PROVE  ExpireAccount(lower, unpends, pendsIn, pendsOut).ok
              <=> ExpireEvidence(lower, unpends, pendsIn, pendsOut)
<1>. DEFINE n == Len(unpends)
            good == [k \in DOMAIN unpends |-> ExpireSettles(lower, pendsIn[k])]
            account == ExpireAccount(lower, unpends, pendsIn, pendsOut)
<1>1. n \in Nat /\ DOMAIN unpends = 1..n
  BY ListEntries
<1>2. ExpireEvidence(lower, unpends, pendsIn, pendsOut) <=> PendsFit(unpends, good, pendsIn, pendsOut)
  BY DEF ExpireEvidence, PendsEvidence, PendsFit, KeptOf, RankIn
<1>3. PICK h : IsExpireWalk(h, n, P, lower, unpends, pendsIn, pendsOut)
  <2>. HIDE DEF n
  <2>. QED
    BY <1>1, ExpireWalks
<1>. DEFINE settled == [k \in 1..n |-> ExpireSettles(lower, Head(h[k - 1].pendsIn))]
<1>4. IsPendsWalk(h, n, P, unpends, settled, pendsIn, pendsOut) /\ account = PendsAfter(h[n])
  BY <1>3 DEF IsExpireWalk
<1>5. \A k \in DOMAIN unpends :
         k \in DOMAIN pendsIn /\ Head(h[k - 1].pendsIn) = pendsIn[k] => settled[k] = good[k]
  BY <1>1
<1>. HIDE DEF settled, good, account
<1>6. PendsAfter(h[n]).ok <=> PendsFit(unpends, good, pendsIn, pendsOut)
  BY <1>4, <1>5, PendsWalkFits
<1>7. account.ok <=> PendsFit(unpends, good, pendsIn, pendsOut)
  BY <1>4, <1>6
<1>. QED
  BY <1>2, <1>7 DEF account

-----------------------------------------------------------------------------
(* That the walks of Sub and Respond accept all that KernelReference does.  *)

\* The squashes there are: the indexes left out ascend up to the squash's own.
IsSquash(squash) ==
    /\ squash.amount \in Nat /\ squash.index \in Nat /\ squash.exclude \in Seq(Nat)
    /\ \A m, n \in DOMAIN squash.exclude : m < n => squash.exclude[m] < squash.exclude[n]
    /\ \A n \in DOMAIN squash.exclude : squash.exclude[n] <= squash.index

\* The point a walk over a squash is at after the index last: what comes later
\* and is not squashed is still to be accounted for, and nothing else is.
PointAt(at, squash, last) ==
    /\ at \in Points
    /\ \A m, n \in DOMAIN at.exclude : m < n => at.exclude[m] < at.exclude[n]
    /\ \A i \in Nat : IsUnaccounted(at, i) <=> last < i /\ ~IsSquashed(squash, i)

LEMMA PointStarts ==
    ASSUME NEW squash, IsSquash(squash)
    PROVE  PointAt(StartOf(squash), squash, -1)
<1>. DEFINE at == StartOf(squash)
            list == squash.exclude
<1>1. at = [index |-> squash.index, exclude |-> list]
  BY DEF StartOf
<1>2. squash.index \in Nat /\ list \in Seq(Nat) /\ DOMAIN list = 1..Len(list) /\ Len(list) \in Nat
  BY DEF IsSquash
<1>3. \A m, n \in DOMAIN list : list[m] = list[n] => m = n
  <2>. SUFFICES ASSUME NEW m \in DOMAIN list, NEW n \in DOMAIN list, list[m] = list[n] PROVE m = n
    OBVIOUS
  <2>1. ~(list[m] < list[n]) /\ ~(list[n] < list[m])
    BY <1>2
  <2>2. ~(m < n) /\ ~(n < m)
    BY <2>1 DEF IsSquash
  <2>. QED
    BY <1>2, <2>2
<1>4. at \in Points
  <2>1. at \in [index : Nat, exclude : Seq(Nat)]
    BY <1>1, <1>2
  <2>2. \A n \in DOMAIN list : list[n] <= squash.index
    BY DEF IsSquash
  <2>. QED
    BY <1>1, <1>3, <2>1, <2>2 DEF Points
<1>5. \A m, n \in DOMAIN at.exclude : m < n => at.exclude[m] < at.exclude[n]
  BY <1>1 DEF IsSquash
<1>6. ASSUME NEW i \in Nat PROVE IsUnaccounted(at, i) <=> -1 < i /\ ~IsSquashed(squash, i)
  BY <1>1, <1>2 DEF IsUnaccounted, IsAhead, IsSquashed
<1>. QED
  BY <1>4, <1>5, <1>6 DEF PointAt

LEMMA PointMoves ==
    ASSUME NEW squash, NEW last \in Int, NEW at, PointAt(at, squash, last),
           NEW index \in Nat, IsUnaccounted(at, index)
    PROVE  last < index /\ ~IsSquashed(squash, index) /\ PointAt(NextIndex(at, index), squash, index)
<1>. DEFINE next == NextIndex(at, index)
            list == at.exclude
<1>1. /\ at \in Points /\ at.index \in Nat /\ list \in Seq(Nat)
      /\ DOMAIN list = 1..Len(list) /\ Len(list) \in Nat /\ \A m \in DOMAIN list : list[m] \in Nat
  BY DEF PointAt, Points
<1>2. next \in Points
  BY <1>1, NextIndexAccounts
<1>3. \A m, n \in DOMAIN list : m < n => list[m] < list[n]
  BY DEF PointAt
<1>4. \A i \in Nat : IsUnaccounted(at, i) <=> last < i /\ ~IsSquashed(squash, i)
  BY DEF PointAt
<1>5. last < index /\ ~IsSquashed(squash, index)
  BY <1>4
<1>6. /\ \A m, n \in DOMAIN next.exclude : m < n => next.exclude[m] < next.exclude[n]
      /\ \A i \in Nat : IsUnaccounted(next, i) <=> index < i /\ IsUnaccounted(at, i)
  <2>1. CASE at.index < index
    <3>1. next = [index |-> index, exclude |-> <<>>]
      BY <2>1 DEF NextIndex, IsAhead
    <3>2. \A i \in Nat : index < i => at.index < i
      BY <1>1, <2>1
    <3>. HIDE DEF next
    <3>3. \A i \in Nat : IsUnaccounted(next, i) <=> index < i
      BY <3>1 DEF IsUnaccounted, IsAhead, Contains
    <3>4. \A i \in Nat : index < i => IsUnaccounted(at, i)
      BY <3>2 DEF IsUnaccounted, IsAhead
    <3>. QED
      BY <3>1, <3>3, <3>4
  <2>2. CASE ~(at.index < index)
    <3>. DEFINE rest == DropHard(list, index)
    <3>1. next = [index |-> at.index, exclude |-> rest]
      BY <2>2 DEF NextIndex, IsAhead
    <3>2. \E n \in DOMAIN list : list[n] = index
      BY <1>1, <2>2 DEF IsUnaccounted, IsAhead, Contains
    <3>3. PICK n \in DOMAIN list :
              /\ list[n] = index
              /\ rest \in Seq(Nat)
              /\ Len(rest) = Len(list) - n
              /\ \A m \in DOMAIN rest : m + n \in DOMAIN list /\ rest[m] = list[m + n]
      BY <1>1, <3>2, DropHardDrops
    <3>. HIDE DEF rest, next
    <3>4. DOMAIN rest = 1..(Len(list) - n) /\ n \in 1..Len(list)
      BY <1>1, <3>3
    <3>5. ASSUME NEW j \in DOMAIN rest, NEW k \in DOMAIN rest, j < k PROVE rest[j] < rest[k]
      <4>1. j + n < k + n /\ j + n \in DOMAIN list /\ k + n \in DOMAIN list
        BY <3>3, <3>4, <3>5
      <4>. QED
        BY <1>3, <3>3, <4>1
    <3>6. ASSUME NEW i \in Nat
          PROVE  (\E m \in DOMAIN rest : rest[m] = i) <=> (\E m \in DOMAIN list : list[m] = i) /\ index < i
      <4>1. ASSUME NEW m \in DOMAIN rest PROVE m + n \in DOMAIN list /\ rest[m] = list[m + n] /\ index < list[m + n]
        <5>1. n < m + n /\ m + n \in DOMAIN list
          BY <3>3, <3>4
        <5>. QED
          BY <1>3, <3>3, <5>1
      <4>2. ASSUME NEW m \in DOMAIN list, index < list[m] PROVE m - n \in DOMAIN rest /\ rest[m - n] = list[m]
        <5>1. ~(m < n) /\ m # n
          <6>1. m < n => list[m] < list[n]
            BY <1>3
          <6>. QED
            BY <1>1, <3>3, <4>2, <6>1
        <5>2. m - n \in DOMAIN rest /\ (m - n) + n = m
          BY <1>1, <3>4, <5>1
        <5>. QED
          BY <3>3, <5>2
      <4>. QED
        BY <4>1, <4>2
    <3>7. ASSUME NEW i \in Nat PROVE IsUnaccounted(next, i) <=> index < i /\ IsUnaccounted(at, i)
      <4>1. IsUnaccounted(next, i) <=> at.index < i \/ \E m \in DOMAIN rest : rest[m] = i
        <5>1. DOMAIN rest = 1..Len(rest)
          BY <3>3
        <5>. QED
          BY <3>1, <5>1 DEF IsUnaccounted, IsAhead, Contains
      <4>2. IsUnaccounted(at, i) <=> at.index < i \/ \E m \in DOMAIN list : list[m] = i
        BY <1>1 DEF IsUnaccounted, IsAhead, Contains
      <4>3. at.index < i => index < i
        BY <1>1, <2>2
      <4>. QED
        BY <3>6, <4>1, <4>2, <4>3
    <3>. QED
      BY <3>1, <3>5, <3>7
  <2>. QED
    BY <2>1, <2>2
<1>7. ASSUME NEW i \in Nat PROVE IsUnaccounted(next, i) <=> index < i /\ ~IsSquashed(squash, i)
  <2>1. index < i => last < i
    BY <1>5
  <2>. QED
    BY <1>4, <1>6, <2>1
<1>. QED
  BY <1>2, <1>5, <1>6, <1>7 DEF PointAt

LEMMA RestIsPast ==
    ASSUME NEW P, NEW list \in Seq(P), NEW k \in 0..Len(list)
    PROVE  IsPast(SubSeq(list, k + 1, Len(list)), list, k) /\ SubSeq(list, k + 1, Len(list)) \in Seq(P)
<1>. DEFINE rest == SubSeq(list, k + 1, Len(list))
<1>1. /\ rest \in Seq(P) /\ Len(rest) = Len(list) - k /\ Len(list) \in Nat
      /\ \A i \in 1..(Len(list) - k) : rest[i] = list[k + i]
  OBVIOUS
<1>. HIDE DEF rest
<1>2. \A i \in 1..(Len(list) - k) : k + i = i + k
  BY <1>1
<1>3. IsPast(rest, list, k)
  BY <1>1, <1>2 DEF IsPast
<1>. QED
  BY <1>1, <1>3 DEF rest

\* Useds as datums list them.
UsedRecords == [index : Nat, amount : Nat]

LEMMA DropUntilIs ==
    ASSUME NEW useds \in Seq(UsedRecords), Ascending(useds), NEW index \in Nat
    PROVE  \E m \in 0..Len(useds) :
              /\ IsPast(DropUntil(useds, index), useds, m)
              /\ \A j \in DOMAIN useds : j > m <=> useds[j].index >= index
<1>. DEFINE I == {i \in 1..Len(useds) : useds[i].index >= index}
            n == SelectInSeq(useds, LAMBDA used : used.index >= index)
<1>0. Len(useds) \in Nat /\ DOMAIN useds = 1..Len(useds) /\ \A j \in DOMAIN useds : useds[j].index \in Nat
  <2>1. Len(useds) \in Nat /\ DOMAIN useds = 1..Len(useds) /\ \A j \in 1..Len(useds) : useds[j] \in UsedRecords
    BY ListEntries
  <2>. QED
    BY <2>1 DEF UsedRecords
<1>1. n = IF I # {} THEN Min(I) ELSE 0
  BY DEF SelectInSeq
<1>2. DropUntil(useds, index) = IF n = 0 THEN <<>> ELSE SubSeq(useds, n, Len(useds))
  BY DEF DropUntil
<1>3. CASE I = {}
  <2>1. DropUntil(useds, index) = <<>>
    BY <1>1, <1>2, <1>3
  <2>2. IsPast(<<>>, useds, Len(useds))
    BY <1>0 DEF IsPast
  <2>3. \A j \in DOMAIN useds : ~(j > Len(useds)) /\ ~(useds[j].index >= index)
    BY <1>0, <1>3
  <2>. QED
    BY <1>0, <2>1, <2>2, <2>3
<1>4. CASE I # {}
  <2>1. Min(I) \in I /\ \A j \in I : Min(I) <= j
    <3>1. I \subseteq Nat
      OBVIOUS
    <3>. HIDE DEF I
    <3>. QED
      BY <1>4, <3>1, MinIsLeast
  <2>2. n = Min(I) /\ n \in 1..Len(useds) /\ useds[n].index >= index
    BY <1>1, <1>4, <2>1
  <2>. HIDE DEF n, I
  <2>3. DropUntil(useds, index) = SubSeq(useds, n, Len(useds))
    <3>1. n # 0
      BY <1>0, <2>2
    <3>. QED
      BY <1>2, <3>1
  <2>4. IsPast(SubSeq(useds, n, Len(useds)), useds, n - 1)
    <3>1. n - 1 \in 0..Len(useds) /\ (n - 1) + 1 = n
      BY <1>0, <2>2
    <3>2. IsPast(SubSeq(useds, (n - 1) + 1, Len(useds)), useds, n - 1)
      BY <3>1, RestIsPast
    <3>. QED
      BY <3>1, <3>2
  <2>5. ASSUME NEW j \in DOMAIN useds PROVE j > n - 1 <=> useds[j].index >= index
    <3>1. j >= n \/ j < n
      BY <1>0, <2>2
    <3>2. CASE j < n
      <4>1. j \notin I
        BY <1>0, <2>1, <2>2, <3>2
      <4>. USE DEF I
      <4>. QED
        BY <1>0, <2>2, <3>2, <4>1
    <3>3. CASE j >= n
      <4>1. j = n \/ useds[n].index < useds[j].index
        <5>1. j = n \/ n < j
          BY <1>0, <2>2, <3>3
        <5>. QED
          BY <1>0, <2>2, <5>1 DEF Ascending
      <4>2. useds[n].index \in Nat /\ useds[j].index \in Nat
        BY <1>0, <2>2
      <4>. QED
        BY <1>0, <2>2, <3>3, <4>1, <4>2
    <3>. QED
      BY <3>1, <3>2, <3>3
  <2>6. n - 1 \in 0..Len(useds)
    BY <1>0, <2>2
  <2>. QED
    BY <2>3, <2>4, <2>5, <2>6
<1>. QED
  BY <1>3, <1>4

\* What is past a part of the rest.
LEMMA PastPast ==
    ASSUME NEW P, NEW of \in Seq(P), NEW list \in Seq(P), NEW rest, NEW k, NEW m,
           IsPast(list, of, k), IsPast(rest, list, m)
    PROVE  IsPast(rest, of, k + m)
<1>1. /\ k \in 0..Len(of) /\ Len(list) = Len(of) - k /\ Len(of) \in Nat
      /\ \A i \in 1..(Len(of) - k) : list[i] = of[i + k]
  BY DEF IsPast
<1>2. /\ m \in 0..Len(list) /\ Len(rest) = Len(list) - m
      /\ \A i \in 1..(Len(list) - m) : rest[i] = list[i + m]
  BY DEF IsPast
<1>3. k + m \in 0..Len(of) /\ Len(rest) = Len(of) - (k + m)
  BY <1>1, <1>2
<1>4. ASSUME NEW i \in 1..(Len(of) - (k + m)) PROVE rest[i] = of[i + (k + m)]
  <2>1. i \in 1..(Len(list) - m) /\ i + m \in 1..(Len(of) - k) /\ (i + m) + k = i + (k + m)
    BY <1>1, <1>2
  <2>. QED
    BY <1>1, <1>2, <2>1
<1>. QED
  BY <1>3, <1>4 DEF IsPast

\* What is left of the useds when those up to the index last have been passed.
PassesOver(rest, useds, last) ==
    \E d : /\ IsPast(rest, useds, d)
           /\ \A j \in DOMAIN useds : j > d <=> useds[j].index > last

IsOld(useds, used) == \E n \in DOMAIN useds : useds[n].index = used.index

\* The useds are walked once, and the one of the index sought is found.
LEMMA UsedsMove ==
    ASSUME NEW useds \in Seq(UsedRecords), Ascending(useds), NEW rest \in Seq(UsedRecords),
           NEW last \in Int, PassesOver(rest, useds, last), NEW used \in UsedRecords, last < used.index
    PROVE  LET left == DropUntil(rest, used.index)
               kept == left # <<>> /\ Head(left).index = used.index
           IN  /\ kept <=> IsOld(useds, used)
               /\ kept => (Head(left) = used <=> Contains(useds, used))
               /\ PassesOver(IF kept THEN Tail(left) ELSE left, useds, used.index)
<1>. DEFINE left == DropUntil(rest, used.index)
            kept == left # <<>> /\ Head(left).index = used.index
            i == used.index
            top == Len(useds)
<1>1. /\ top \in Nat /\ DOMAIN useds = 1..top /\ \A j \in 1..top : useds[j] \in UsedRecords /\ useds[j].index \in Nat
      /\ i \in Nat
  <2>1. top \in Nat /\ DOMAIN useds = 1..top /\ \A j \in 1..top : useds[j] \in UsedRecords
    BY ListEntries
  <2>. QED
    BY <2>1 DEF UsedRecords
<1>. HIDE DEF i, top
<1>2. PICK d : /\ IsPast(rest, useds, d)
               /\ \A j \in DOMAIN useds : j > d <=> useds[j].index > last
  BY DEF PassesOver
<1>3. /\ d \in 0..top /\ Len(rest) = top - d /\ DOMAIN rest = 1..(top - d)
      /\ \A j \in 1..(top - d) : rest[j] = useds[j + d]
  <2>1. /\ d \in 0..top /\ Len(rest) = top - d
        /\ \A j \in 1..(top - d) : rest[j] = useds[j + d]
    BY <1>2 DEF IsPast, top
  <2>2. DOMAIN rest = 1..Len(rest)
    BY ListEntries
  <2>. QED
    BY <2>1, <2>2
<1>4. Ascending(rest)
  <2>. SUFFICES ASSUME NEW m \in DOMAIN rest, NEW n \in DOMAIN rest, m < n
                PROVE  rest[m].index < rest[n].index
    BY DEF Ascending
  <2>1. m + d \in DOMAIN useds /\ n + d \in DOMAIN useds /\ m + d < n + d
    BY <1>1, <1>3
  <2>2. useds[m + d].index < useds[n + d].index
    BY <2>1 DEF Ascending
  <2>. QED
    BY <1>3, <2>2
<1>5. left \in Seq(UsedRecords)
  BY DropUntilType
<1>6. PICK m \in 0..Len(rest) :
              /\ IsPast(left, rest, m)
              /\ \A j \in DOMAIN rest : j > m <=> rest[j].index >= i
  BY <1>1, <1>4, DropUntilIs DEF i
<1>. HIDE DEF left
<1>. DEFINE e == d + m
<1>7. IsPast(left, useds, e) /\ e \in 0..top
  <2>1. IsPast(left, useds, e)
    BY <1>2, <1>5, <1>6, PastPast
  <2>. QED
    BY <1>1, <1>3, <1>6, <2>1
<1>8. ASSUME NEW j \in DOMAIN useds PROVE j > e <=> useds[j].index >= i
  <2>1. CASE j > d
    <3>1. j - d \in DOMAIN rest /\ (j - d) + d = j /\ (j - d > m <=> j > e)
      BY <1>1, <1>3, <1>6, <2>1
    <3>2. rest[j - d] = useds[j]
      BY <1>3, <3>1
    <3>. QED
      BY <1>6, <3>1, <3>2
  <2>2. CASE ~(j > d)
    <3>1. ~(useds[j].index > last)
      BY <1>2, <2>2
    <3>2. ~(useds[j].index >= i) /\ ~(j > e)
      BY <1>1, <1>3, <1>6, <2>2, <3>1 DEF i
    <3>. QED
      BY <3>2
  <2>. QED
    BY <2>1, <2>2
<1>. HIDE DEF e
<1>9. /\ left # <<>> <=> e < top
      /\ left # <<>> => Head(left) = useds[e + 1] /\ IsPast(Tail(left), useds, e + 1)
  BY <1>5, <1>7, PastFirst DEF top
<1>10. ASSUME NEW j \in DOMAIN useds, useds[j].index = i PROVE kept /\ j = e + 1
  <2>1. j > e /\ e + 1 \in DOMAIN useds /\ e < top
    BY <1>1, <1>7, <1>8, <1>10
  <2>2. useds[e + 1].index >= i
    BY <1>1, <1>7, <1>8, <2>1
  <2>3. ~(e + 1 < j)
    <3>1. e + 1 < j => useds[e + 1].index < useds[j].index
      BY <2>1 DEF Ascending
    <3>. QED
      BY <1>1, <1>10, <2>1, <2>2, <3>1
  <2>4. j = e + 1
    BY <1>1, <1>7, <2>1, <2>3
  <2>. QED
    BY <1>9, <1>10, <2>1, <2>4 DEF i
<1>11. kept => e + 1 \in DOMAIN useds /\ useds[e + 1].index = i /\ Head(left) = useds[e + 1]
  BY <1>1, <1>7, <1>9 DEF i
<1>12. kept <=> IsOld(useds, used)
  <2>1. kept => \E n \in DOMAIN useds : useds[n].index = i
    <3>. HIDE DEF kept
    <3>. QED
      BY <1>11
  <2>2. (\E n \in DOMAIN useds : useds[n].index = i) => kept
    BY <1>10
  <2>. QED
    BY <2>1, <2>2 DEF IsOld, i
<1>13. ASSUME kept PROVE Head(left) = used <=> Contains(useds, used)
  <2>1. ASSUME Head(left) = used PROVE Contains(useds, used)
    BY <1>1, <1>11, <1>13, <2>1 DEF Contains, top
  <2>2. ASSUME Contains(useds, used) PROVE Head(left) = used
    <3>1. PICK j \in DOMAIN useds : useds[j] = used
      BY <1>1, <2>2 DEF Contains, top
    <3>2. j = e + 1
      BY <1>10, <3>1 DEF i
    <3>. QED
      BY <1>11, <1>13, <3>1, <3>2
  <2>. QED
    BY <2>1, <2>2
<1>14. PassesOver(IF kept THEN Tail(left) ELSE left, useds, i)
  <2>1. CASE kept
    <3>1. IsPast(Tail(left), useds, e + 1)
      BY <1>9, <2>1
    <3>2. ASSUME NEW j \in DOMAIN useds PROVE j > e + 1 <=> useds[j].index > i
      <4>1. j > e + 1 => useds[e + 1].index < useds[j].index
        BY <1>1, <1>7, <1>11, <2>1 DEF Ascending
      <4>2. j = e + 1 \/ j > e + 1 \/ ~(j > e)
        BY <1>1, <1>7
      <4>3. ~(j > e) => ~(useds[j].index >= i) /\ ~(j > e + 1)
        BY <1>1, <1>7, <1>8
      <4>4. j = e + 1 => ~(j > e + 1) /\ ~(useds[j].index > i)
        BY <1>1, <1>7, <1>11, <2>1
      <4>5. useds[j].index > i => useds[j].index >= i
        BY <1>1
      <4>6. j > e + 1 => useds[j].index > i
        BY <1>1, <1>11, <2>1, <4>1
      <4>. QED
        BY <4>2, <4>3, <4>4, <4>5, <4>6
    <3>. QED
      BY <2>1, <3>1, <3>2 DEF PassesOver
  <2>2. CASE ~kept
    <3>1. ASSUME NEW j \in DOMAIN useds PROVE j > e <=> useds[j].index > i
      <4>1. useds[j].index # i
        BY <1>10, <2>2
      <4>. QED
        BY <1>1, <1>8, <4>1
    <3>. HIDE DEF kept
    <3>. QED
      BY <1>7, <2>2, <3>1 DEF PassesOver
  <2>. QED
    BY <2>1, <2>2
<1>. QED
  BY <1>12, <1>13, <1>14 DEF left, i

SubMidways(U) == [ok : BOOLEAN, owed : Nat, useds : Seq(UsedRecords), unlockeds : Seq(U), at : Points]

\* When the walk of a Sub goes on, and with what.
LEMMA SubWithIs ==
    ASSUME NEW U, NEW signed, NEW upper, NEW acc \in SubMidways(U), NEW used \in UsedRecords
    PROVE  LET useds == DropUntil(acc.useds, used.index)
               kept  == useds # <<>> /\ Head(useds).index = used.index
               next  == SubWith(signed, upper, acc, used)
           IN  /\ next \in SubMidways(U)
               /\ next.ok <=> /\ acc.ok
                              /\ IF kept THEN Head(useds) = used
                                 ELSE /\ acc.unlockeds # <<>>
                                      /\ Vouches(signed, upper, Head(acc.unlockeds), used)
                              /\ IsUnaccounted(acc.at, used.index)
               /\ next.ok => /\ next.owed = acc.owed + used.amount
                             /\ next.useds = IF kept THEN Tail(useds) ELSE useds
                             /\ next.unlockeds = IF kept THEN acc.unlockeds ELSE Tail(acc.unlockeds)
                             /\ next.at = NextIndex(acc.at, used.index)
<1>. DEFINE useds == DropUntil(acc.useds, used.index)
            kept  == useds # <<>> /\ Head(useds).index = used.index
            holds == /\ acc.ok
                     /\ IF kept THEN Head(useds) = used
                        ELSE /\ acc.unlockeds # <<>>
                             /\ Vouches(signed, upper, Head(acc.unlockeds), used)
                     /\ IsUnaccounted(acc.at, used.index)
            next == SubWith(signed, upper, acc, used)
            failed == [acc EXCEPT !.ok = FALSE]
            more == [ok        |-> TRUE,
                     owed      |-> acc.owed + used.amount,
                     useds     |-> IF kept THEN Tail(useds) ELSE useds,
                     unlockeds |-> IF kept THEN acc.unlockeds ELSE Tail(acc.unlockeds),
                     at        |-> NextIndex(acc.at, used.index)]
<1>1. next = IF ~holds THEN failed ELSE more
  BY DEF SubWith
<1>2. /\ acc.ok \in BOOLEAN /\ acc.owed \in Nat /\ acc.useds \in Seq(UsedRecords)
      /\ acc.unlockeds \in Seq(U) /\ acc.at \in Points /\ used.index \in Nat /\ used.amount \in Nat
  BY DEF SubMidways, UsedRecords
<1>3. useds \in Seq(UsedRecords)
  BY <1>2, DropUntilType
<1>4. failed \in SubMidways(U) /\ ~failed.ok
  BY <1>2 DEF SubMidways
<1>. HIDE DEF useds
<1>5. holds => more \in SubMidways(U)
  <2>. SUFFICES ASSUME holds PROVE more \in SubMidways(U)
    OBVIOUS
  <2>1. NextIndex(acc.at, used.index) \in Points
    BY <1>2, NextIndexAccounts
  <2>2. (IF kept THEN Tail(useds) ELSE useds) \in Seq(UsedRecords)
    BY <1>3
  <2>3. (IF kept THEN acc.unlockeds ELSE Tail(acc.unlockeds)) \in Seq(U)
    BY <1>2
  <2>4. acc.owed + used.amount \in Nat
    BY <1>2
  <2>. QED
    BY <2>1, <2>2, <2>3, <2>4 DEF SubMidways
<1>6. /\ more.ok /\ more.owed = acc.owed + used.amount
      /\ more.useds = IF kept THEN Tail(useds) ELSE useds
      /\ more.unlockeds = IF kept THEN acc.unlockeds ELSE Tail(acc.unlockeds)
      /\ more.at = NextIndex(acc.at, used.index)
  OBVIOUS
<1>. HIDE DEF next, failed, more, kept
<1>7. next.ok <=> holds
  <2>. HIDE DEF holds
  <2>. QED
    BY <1>1, <1>4, <1>6
<1>8. next \in SubMidways(U)
  <2>. HIDE DEF holds
  <2>. QED
    BY <1>1, <1>4, <1>5
<1>9. next.ok => next = more
  <2>. HIDE DEF holds
  <2>. QED
    BY <1>1, <1>7
<1>10. next.ok => /\ next.owed = acc.owed + used.amount
                  /\ next.useds = IF kept THEN Tail(useds) ELSE useds
                  /\ next.unlockeds = IF kept THEN acc.unlockeds ELSE Tail(acc.unlockeds)
                  /\ next.at = NextIndex(acc.at, used.index)
  BY <1>6, <1>9, Zenon
<1>. QED
  BY <1>7, <1>8, <1>10 DEF next, kept, useds

\* A Sub's accumulator that has passed the index last and f unlocked cheques.
SubReaches(acc, last, f, usedsIn, squash, unlockeds) ==
    /\ acc.ok /\ PointAt(acc.at, squash, last)
    /\ PassesOver(acc.useds, usedsIn, last) /\ IsPast(acc.unlockeds, unlockeds, f)

\* One more used of the new datum.
LEMMA SubStepIs ==
    ASSUME NEW U, NEW signed, NEW upper, NEW acc \in SubMidways(U), NEW used \in UsedRecords,
           NEW usedsIn \in Seq(UsedRecords), Ascending(usedsIn), NEW squash,
           NEW unlockeds \in Seq(U), NEW last \in Int, NEW f,
           SubReaches(acc, last, f, usedsIn, squash, unlockeds)
    PROVE  LET next == SubWith(signed, upper, acc, used)
           IN  /\ next.ok <=> /\ last < used.index /\ ~IsSquashed(squash, used.index)
                              /\ IF IsOld(usedsIn, used) THEN Contains(usedsIn, used)
                                 ELSE f < Len(unlockeds) /\ Vouches(signed, upper, unlockeds[f + 1], used)
               /\ next.ok => /\ next.owed = acc.owed + used.amount
                             /\ SubReaches(next, used.index, IF IsOld(usedsIn, used) THEN f ELSE f + 1,
                                           usedsIn, squash, unlockeds)
<1>. DEFINE useds == DropUntil(acc.useds, used.index)
            kept  == useds # <<>> /\ Head(useds).index = used.index
            next  == SubWith(signed, upper, acc, used)
            evidenced == IF kept THEN Head(useds) = used
                         ELSE /\ acc.unlockeds # <<>>
                              /\ Vouches(signed, upper, Head(acc.unlockeds), used)
            vouched == IF IsOld(usedsIn, used) THEN Contains(usedsIn, used)
                       ELSE f < Len(unlockeds) /\ Vouches(signed, upper, unlockeds[f + 1], used)
<1>1. /\ acc.ok /\ PointAt(acc.at, squash, last)
      /\ PassesOver(acc.useds, usedsIn, last) /\ IsPast(acc.unlockeds, unlockeds, f)
      /\ acc.useds \in Seq(UsedRecords) /\ acc.unlockeds \in Seq(U) /\ used.index \in Nat
  BY DEF SubReaches, SubMidways, UsedRecords
<1>2. /\ next.ok <=> acc.ok /\ evidenced /\ IsUnaccounted(acc.at, used.index)
      /\ next.ok => /\ next.owed = acc.owed + used.amount
                    /\ next.useds = IF kept THEN Tail(useds) ELSE useds
                    /\ next.unlockeds = IF kept THEN acc.unlockeds ELSE Tail(acc.unlockeds)
                    /\ next.at = NextIndex(acc.at, used.index)
  BY SubWithIs
<1>3. IsUnaccounted(acc.at, used.index) <=> last < used.index /\ ~IsSquashed(squash, used.index)
  BY <1>1 DEF PointAt
<1>4. last < used.index =>
         /\ kept <=> IsOld(usedsIn, used)
         /\ kept => (Head(useds) = used <=> Contains(usedsIn, used))
         /\ PassesOver(IF kept THEN Tail(useds) ELSE useds, usedsIn, used.index)
  BY <1>1, UsedsMove
<1>5. /\ acc.unlockeds # <<>> <=> f < Len(unlockeds)
      /\ acc.unlockeds # <<>> => Head(acc.unlockeds) = unlockeds[f + 1] /\ IsPast(Tail(acc.unlockeds), unlockeds, f + 1)
  BY <1>1, PastFirst
<1>. HIDE DEF next, useds
<1>6. last < used.index => (evidenced <=> vouched)
  BY <1>4, <1>5
<1>7. next.ok <=> last < used.index /\ ~IsSquashed(squash, used.index) /\ vouched
  <2>. HIDE DEF evidenced, vouched
  <2>. QED
    BY <1>1, <1>2, <1>3, <1>6
<1>8. ASSUME next.ok
      PROVE  /\ next.owed = acc.owed + used.amount
             /\ SubReaches(next, used.index, IF IsOld(usedsIn, used) THEN f ELSE f + 1, usedsIn, squash, unlockeds)
  <2>1. last < used.index /\ IsUnaccounted(acc.at, used.index) /\ evidenced
    BY <1>2, <1>7, <1>8
  <2>2. PointAt(next.at, squash, used.index)
    <3>1. PointAt(NextIndex(acc.at, used.index), squash, used.index)
      BY <1>1, <2>1, PointMoves
    <3>. QED
      BY <1>2, <1>8, <3>1
  <2>3. PassesOver(next.useds, usedsIn, used.index)
    <3>. HIDE DEF kept
    <3>. QED
      BY <1>2, <1>4, <1>8, <2>1
  <2>4. IsPast(next.unlockeds, unlockeds, IF IsOld(usedsIn, used) THEN f ELSE f + 1)
    <3>1. CASE kept
      BY <1>1, <1>2, <1>4, <1>8, <2>1, <3>1
    <3>2. CASE ~kept
      <4>1. acc.unlockeds # <<>> /\ ~IsOld(usedsIn, used)
        BY <1>4, <2>1, <3>2
      <4>2. next.unlockeds = Tail(acc.unlockeds)
        BY <1>2, <1>8, <3>2
      <4>. QED
        BY <1>5, <4>1, <4>2
    <3>. QED
      BY <3>1, <3>2
  <2>. QED
    BY <1>2, <1>8, <2>2, <2>3, <2>4 DEF SubReaches
<1>. QED
  BY <1>7, <1>8 DEF next, vouched

\* The sum over the first places of a list, one after the other.
LEMMA PrefixIsNat ==
    ASSUME NEW n \in Nat, NEW w, \A k \in 1..n : w[k] \in Nat
    PROVE  \A d \in 0..n : SumOver(1..d, w) \in Nat
<1>1. IsFiniteSet(1..n)
  BY FS_Interval
<1>2. \A d \in 0..n : 1..d \in SUBSET (1..n)
  OBVIOUS
<1>. QED
  BY <1>1, <1>2, SumType

LEMMA PrefixSums ==
    ASSUME NEW n \in Nat, NEW w, \A k \in 1..n : w[k] \in Nat
    PROVE  /\ SumOver(1..0, w) = 0
           /\ \A k \in 1..n : /\ SumOver(1..k, w) = w[k] + SumOver(1..(k - 1), w)
                              /\ SumOver(1..(k - 1), w) \in Nat
<1>1. 1..0 = {} /\ IsFiniteSet(1..n)
  BY FS_Interval
<1>2. SumOver(1..0, w) = 0
  BY <1>1, SumPicks
<1>3. ASSUME NEW k \in 1..n
      PROVE  SumOver(1..k, w) = w[k] + SumOver(1..(k - 1), w) /\ SumOver(1..(k - 1), w) \in Nat
  <2>1. k \in Nat \ {0} /\ 1..k \in SUBSET (1..n) /\ 1..(k - 1) \in SUBSET (1..n) /\ k \in 1..k
    OBVIOUS
  <2>2. (1..k) \ {k} = 1..(k - 1)
    BY <2>1, MaxOfFirst
  <2>3. SumOver(1..k, w) = w[k] + SumOver((1..k) \ {k}, w)
    BY <1>1, <2>1, SumRemoves
  <2>4. SumOver(1..(k - 1), w) \in Nat
    BY <1>1, <2>1, SumType
  <2>. QED
    BY <2>2, <2>3, <2>4
<1>. QED
  BY <1>2, <1>3

\* The useds of the new datum that the old one does not list.
FreshIn(usedsIn, usedsOut) == {n \in DOMAIN usedsOut : ~IsOld(usedsIn, usedsOut[n])}
IndexBefore(list, k) == IF k = 1 THEN -1 ELSE list[k - 1].index

\* The j-th of them stands as the reference asks.
SubAllows(j, signed, upper, usedsIn, usedsOut, squash, unlockeds) ==
    LET rank == RankIn(FreshIn(usedsIn, usedsOut), j)
    IN  /\ IndexBefore(usedsOut, j) < usedsOut[j].index /\ ~IsSquashed(squash, usedsOut[j].index)
        /\ IF j \in FreshIn(usedsIn, usedsOut)
           THEN rank <= Len(unlockeds) /\ Vouches(signed, upper, unlockeds[rank], usedsOut[j])
           ELSE Contains(usedsIn, usedsOut[j])

\* What the walk of a Sub says when it ends.
SubSays(account, signed, upper, usedsIn, usedsOut, squash, unlockeds) ==
    /\ account.ok <=> /\ squash \in signed
                      /\ \A j \in DOMAIN usedsOut :
                            SubAllows(j, signed, upper, usedsIn, usedsOut, squash, unlockeds)
    /\ account.ok => account.owed = squash.amount + ListTotal(usedsOut)

LEMMA SubAccountIs ==
    ASSUME NEW U, NEW signed, NEW upper, NEW usedsIn \in Seq(UsedRecords), Ascending(usedsIn),
           NEW usedsOut \in Seq(UsedRecords), NEW squash, IsSquash(squash), NEW unlockeds \in Seq(U)
    PROVE  SubSays(SubAccount(signed, upper, usedsIn, usedsOut, squash, unlockeds),
                   signed, upper, usedsIn, usedsOut, squash, unlockeds)
<1>. DEFINE n == Len(usedsOut)
            State == SubMidways(U)
            account == SubAccount(signed, upper, usedsIn, usedsOut, squash, unlockeds)
            fresh == FreshIn(usedsIn, usedsOut)
            Allows(j) == SubAllows(j, signed, upper, usedsIn, usedsOut, squash, unlockeds)
            w == [k \in DOMAIN usedsOut |-> usedsOut[k].amount]
            last(k) == IndexBefore(usedsOut, k + 1)
            base == SubBefore(signed, usedsIn, squash, unlockeds)
<1>1. /\ n \in Nat /\ DOMAIN usedsOut = 1..n
      /\ \A k \in 1..n : usedsOut[k] \in UsedRecords /\ usedsOut[k].index \in Nat /\ usedsOut[k].amount \in Nat
  <2>1. n \in Nat /\ DOMAIN usedsOut = 1..n /\ \A k \in 1..n : usedsOut[k] \in UsedRecords
    BY ListEntries
  <2>. QED
    BY <2>1 DEF UsedRecords
<1>. HIDE DEF n
<1>2. base \in State /\ base.ok = (squash \in signed) /\ base.owed = squash.amount
      /\ base.useds = usedsIn /\ base.unlockeds = unlockeds /\ base.at = StartOf(squash)
  <2>0. StartOf(squash) \in Points
    BY PointStarts DEF PointAt
  <2>1. StartOf(squash) \in Points /\ squash.amount \in Nat /\ (squash \in signed) \in BOOLEAN
    BY <2>0 DEF IsSquash
  <2>2. base = [ok |-> (squash \in signed), owed |-> squash.amount, useds |-> usedsIn,
                unlockeds |-> unlockeds, at |-> StartOf(squash)]
    BY DEF SubBefore, StartOf
  <2>. HIDE DEF base
  <2>. QED
    BY <2>1, <2>2 DEF SubMidways
<1>3. PICK h : IsSubWalk(h, n, State, signed, upper, usedsOut) /\ h[0] = base /\ account = h[n]
  <2>1. SubStaysIn(State, n, signed, upper, usedsOut)
    BY <1>1, SubWithIs DEF SubStaysIn
  <2>. HIDE DEF State
  <2>2. \E h : /\ IsSubWalk(h, n, State, signed, upper, usedsOut) /\ h[0] = SubBefore(signed, usedsIn, squash, unlockeds)
               /\ SubAccount(signed, upper, usedsIn, usedsOut, squash, unlockeds) = h[n]
    <3>1. n \in Nat /\ DOMAIN usedsOut = 1..n /\ SubBefore(signed, usedsIn, squash, unlockeds) \in State
      BY <1>1, <1>2
    <3>. HIDE DEF account, base
    <3>. QED
      BY ONLY <2>1, <3>1, SubAccountSteps, SMT
  <2>. QED
    BY <2>2, Zenon
<1>4. /\ \A k \in 0..n : h[k] \in State
      /\ \A k \in 1..n : h[k] = SubWith(signed, upper, h[k - 1], usedsOut[k])
  BY <1>3 DEF IsSubWalk
<1>. HIDE DEF account, base
<1>5. fresh \in SUBSET (1..n) /\ \A k \in 1..n : k \in fresh <=> ~IsOld(usedsIn, usedsOut[k])
  BY <1>1 DEF FreshIn
<1>6. /\ RankIn(fresh, 0) = 0 /\ \A k \in 0..n : RankIn(fresh, k) \in Nat
      /\ \A k \in 1..n : RankIn(fresh, k) = RankIn(fresh, k - 1) + (IF k \in fresh THEN 1 ELSE 0)
  <2>. HIDE DEF fresh
  <2>. QED
    BY <1>1, <1>5, RankSteps
<1>7. \A j : Allows(j) <=>
         /\ IndexBefore(usedsOut, j) < usedsOut[j].index /\ ~IsSquashed(squash, usedsOut[j].index)
         /\ IF j \in fresh
            THEN RankIn(fresh, j) <= Len(unlockeds) /\ Vouches(signed, upper, unlockeds[RankIn(fresh, j)], usedsOut[j])
            ELSE Contains(usedsIn, usedsOut[j])
  BY DEF SubAllows
<1>. HIDE DEF fresh, Allows
<1>8. last(0) = -1 /\ \A k \in 1..n : last(k) = usedsOut[k].index /\ last(k - 1) = IndexBefore(usedsOut, k) /\ last(k - 1) \in Int
  <2>1. last(0) = -1
    BY DEF IndexBefore
  <2>2. ASSUME NEW k \in 1..n
        PROVE  last(k) = usedsOut[k].index /\ last(k - 1) = IndexBefore(usedsOut, k) /\ last(k - 1) \in Int
    <3>1. k + 1 # 1 /\ (k + 1) - 1 = k /\ (k - 1) + 1 = k
      BY <1>1
    <3>2. k = 1 \/ k - 1 \in 1..n
      BY <1>1
    <3>. QED
      BY <1>1, <3>1, <3>2 DEF IndexBefore
  <2>. QED
    BY <2>1, <2>2
<1>. HIDE DEF last
<1>9. \A k \in 1..n : w[k] = usedsOut[k].amount /\ w[k] \in Nat
  BY <1>1
<1>10. SumOver(1..0, w) = 0 /\ \A k \in 1..n : SumOver(1..k, w) = usedsOut[k].amount + SumOver(1..(k - 1), w) /\ SumOver(1..(k - 1), w) \in Nat
  <2>. HIDE DEF w
  <2>. QED
    BY <1>1, <1>9, PrefixSums
<1>. DEFINE Goes(k) == squash \in signed /\ \A j \in 1..k : Allows(j)
            T == {k \in 0..n : /\ h[k].ok <=> Goes(k)
                               /\ h[k].ok => /\ SubReaches(h[k], last(k), RankIn(fresh, k), usedsIn, squash, unlockeds)
                                             /\ h[k].owed = squash.amount + SumOver(1..k, w)}
<1>. HIDE DEF w
<1>11. 0 \in T
  <2>1. PassesOver(usedsIn, usedsIn, -1)
    <3>1. Len(usedsIn) \in Nat /\ \A j \in DOMAIN usedsIn : j > 0 /\ usedsIn[j].index > -1
      <4>1. Len(usedsIn) \in Nat /\ \A j \in DOMAIN usedsIn : j > 0 /\ usedsIn[j] \in UsedRecords
        OBVIOUS
      <4>. QED
        BY <4>1 DEF UsedRecords
    <3>2. IsPast(usedsIn, usedsIn, 0)
      BY <3>1 DEF IsPast
    <3>. QED
      BY <3>1, <3>2 DEF PassesOver
  <2>2. IsPast(unlockeds, unlockeds, 0)
    <3>1. Len(unlockeds) \in Nat
      OBVIOUS
    <3>. QED
      BY <3>1 DEF IsPast
  <2>3. PointAt(StartOf(squash), squash, -1)
    BY PointStarts
  <2>4. h[0].ok => SubReaches(h[0], last(0), RankIn(fresh, 0), usedsIn, squash, unlockeds)
    BY <1>2, <1>3, <1>6, <1>8, <2>1, <2>2, <2>3 DEF SubReaches
  <2>5. h[0].ok <=> Goes(0)
    <3>1. h[0].ok <=> squash \in signed
      <4>1. base.ok <=> squash \in signed
        BY <1>2
      <4>. QED
        BY <1>3, <4>1
    <3>2. 1..0 = {}
      OBVIOUS
    <3>. QED
      BY <3>1, <3>2
  <2>6. squash.amount + SumOver(1..0, w) = squash.amount
    BY <1>10 DEF IsSquash
  <2>. HIDE DEF Goes
  <2>. QED
    BY <1>1, <1>2, <1>3, <2>4, <2>5, <2>6
<1>12. ASSUME NEW k \in 1..n, k - 1 \in T PROVE k \in T
  <2>. DEFINE acc == h[k - 1]
              used == usedsOut[k]
  <2>1. k - 1 \in 0..n /\ k \in 0..n /\ 1..k = (1..(k - 1)) \cup {k}
    BY <1>1
  <2>2. /\ acc \in SubMidways(U) /\ used \in UsedRecords /\ h[k] = SubWith(signed, upper, acc, used)
        /\ acc.ok <=> Goes(k - 1)
        /\ acc.ok => /\ SubReaches(acc, last(k - 1), RankIn(fresh, k - 1), usedsIn, squash, unlockeds)
                     /\ acc.owed = squash.amount + SumOver(1..(k - 1), w)
    <3>. HIDE DEF Goes
    <3>. QED
      BY <1>1, <1>4, <1>12, <2>1
  <2>3. Goes(k) <=> Goes(k - 1) /\ Allows(k)
    BY <2>1
  <2>. HIDE DEF Goes, acc
  <2>4. CASE ~acc.ok
    <3>1. ~h[k].ok
      BY <2>2, <2>4, SubWithIs
    <3>. QED
      BY <2>1, <2>2, <2>3, <2>4, <3>1
  <2>5. CASE acc.ok
    <3>1. SubReaches(acc, last(k - 1), RankIn(fresh, k - 1), usedsIn, squash, unlockeds) /\ last(k - 1) \in Int
      BY <1>8, <2>2, <2>5
    <3>. DEFINE f == RankIn(fresh, k - 1)
                at == last(k - 1)
    <3>2. /\ h[k].ok <=> /\ at < used.index /\ ~IsSquashed(squash, used.index)
                         /\ IF IsOld(usedsIn, used) THEN Contains(usedsIn, used)
                            ELSE f < Len(unlockeds) /\ Vouches(signed, upper, unlockeds[f + 1], used)
          /\ h[k].ok => /\ h[k].owed = acc.owed + used.amount
                        /\ SubReaches(h[k], used.index, IF IsOld(usedsIn, used) THEN f ELSE f + 1,
                                      usedsIn, squash, unlockeds)
      <4>. HIDE DEF f, at, used
      <4>1. SubReaches(acc, at, f, usedsIn, squash, unlockeds) /\ at \in Int
        BY <3>1 DEF f, at
      <4>. QED
        BY <2>2, <4>1, SubStepIs
    <3>3. f \in Nat /\ RankIn(fresh, k) = (IF IsOld(usedsIn, used) THEN f ELSE f + 1) /\ (k \in fresh <=> ~IsOld(usedsIn, used))
      BY <1>1, <1>5, <1>6, <2>1
    <3>4. at = IndexBefore(usedsOut, k) /\ last(k) = used.index
      BY <1>8
    <3>. HIDE DEF f, at, used
    <3>5. h[k].ok <=> Allows(k)
      <4>1. f < Len(unlockeds) <=> f + 1 <= Len(unlockeds)
        <5>1. Len(unlockeds) \in Nat
          OBVIOUS
        <5>. QED
          BY <3>3, <5>1
      <4>2. Allows(k) <=> /\ at < used.index /\ ~IsSquashed(squash, used.index)
                          /\ IF IsOld(usedsIn, used) THEN Contains(usedsIn, used)
                             ELSE f + 1 <= Len(unlockeds) /\ Vouches(signed, upper, unlockeds[f + 1], used)
        BY <1>7, <3>3, <3>4 DEF used
      <4>. QED
        BY <3>2, <4>1, <4>2
    <3>6. h[k].ok => h[k].owed = squash.amount + SumOver(1..k, w)
      <4>1. /\ SumOver(1..k, w) = used.amount + SumOver(1..(k - 1), w) /\ SumOver(1..(k - 1), w) \in Nat
            /\ used.amount \in Nat /\ squash.amount \in Nat
        BY <1>1, <1>10 DEF used, IsSquash
      <4>2. acc.owed = squash.amount + SumOver(1..(k - 1), w)
        BY <2>2, <2>5
      <4>. QED
        BY <3>2, <4>1, <4>2
    <3>. QED
      BY <2>1, <2>2, <2>3, <2>5, <3>2, <3>3, <3>4, <3>5, <3>6
  <2>. QED
    BY <2>4, <2>5
<1>13. n \in T
  <2>1. \A k \in 0..n : k \in T
    <3>. HIDE DEF T
    <3>. QED
      BY <1>1, <1>11, <1>12, Climb
  <2>2. n \in 0..n
    BY <1>1
  <2>. HIDE DEF T
  <2>. QED
    BY <2>1, <2>2
<1>14. ListTotal(usedsOut) = SumOver(1..n, w)
  BY <1>1, ListTotalIsSum DEF w
<1>. QED
  BY <1>1, <1>3, <1>13, <1>14 DEF account, Allows, SubSays

\* Entry by entry is enough to ascend.
LEMMA AscendsStepwise ==
    ASSUME NEW n \in Nat, NEW list, DOMAIN list = 1..n, \A j \in 1..n : list[j].index \in Nat
    PROVE  Ascending(list) <=> \A j \in DOMAIN list : IndexBefore(list, j) < list[j].index
<1>1. ASSUME Ascending(list), NEW j \in 1..n PROVE IndexBefore(list, j) < list[j].index
  <2>1. CASE j = 1
    BY <2>1 DEF IndexBefore
  <2>2. CASE j # 1
    <3>1. j - 1 \in 1..n /\ j - 1 < j
      BY <2>2
    <3>. QED
      BY <1>1, <2>2, <3>1 DEF Ascending, IndexBefore
  <2>. QED
    BY <2>1, <2>2
<1>2. ASSUME \A j \in 1..n : IndexBefore(list, j) < list[j].index PROVE Ascending(list)
  <2>. DEFINE S == {k \in 0..n : \A m \in 1..n : m < k => list[m].index < list[k].index}
  <2>1. 0 \in S
    OBVIOUS
  <2>2. ASSUME NEW k \in 1..n, k - 1 \in S PROVE k \in S
    <3>1. ASSUME NEW m \in 1..n, m < k PROVE list[m].index < list[k].index
      <4>1. k # 1 /\ k - 1 \in 1..n
        BY <3>1
      <4>2. list[k - 1].index < list[k].index
        BY <1>2, <4>1 DEF IndexBefore
      <4>3. m = k - 1 \/ m < k - 1
        BY <3>1
      <4>4. m < k - 1 => list[m].index < list[k - 1].index
        BY <2>2
      <4>5. list[m].index \in Nat /\ list[k].index \in Nat /\ list[k - 1].index \in Nat
        BY <4>1
      <4>. QED
        BY <4>2, <4>3, <4>4, <4>5
    <3>. QED
      BY <3>1
  <2>3. \A k \in 0..n : k \in S
    <3>. HIDE DEF S
    <3>. QED
      BY <2>1, <2>2, Climb
  <2>4. \A k \in 1..n : k \in 0..n
    OBVIOUS
  <2>. QED
    BY <2>3, <2>4 DEF Ascending
<1>. QED
  BY <1>1, <1>2

\* What is selected from a list, by rank.
LEMMA EntriesAtRanks ==
    ASSUME NEW T, NEW list \in Seq(T), NEW chosen \in SUBSET DOMAIN list
    PROVE  LET out == EntriesAt(list, chosen)
           IN  /\ out \in Seq(T) /\ Len(out) = Cardinality(chosen)
               /\ \A n \in chosen : RankIn(chosen, n) \in 1..Len(out) /\ out[RankIn(chosen, n)] = list[n]
               /\ \A k \in 1..Len(out) : \E n \in chosen : RankIn(chosen, n) = k
<1>. DEFINE out == EntriesAt(list, chosen)
            top == Len(list)
            size == Len(out)
<1>1. PICK places : IsSelection(out, list, chosen, top, places)
  BY EntriesAtSelects DEF Selects
<1>2. out \in Seq(T) /\ size \in Nat /\ top \in Nat /\ DOMAIN list = 1..top
  BY EntriesAtSelects, ListEntries
<1>. HIDE DEF out, top
<1>3. /\ \A k \in 1..size : places[k] \in 1..top /\ places[k] \in chosen /\ out[k] = list[places[k]]
      /\ \A j, k \in 1..size : j < k => places[j] < places[k]
      /\ \A m \in chosen : \E k \in 1..size : places[k] = m
  BY <1>1, <1>2 DEF IsSelection
<1>. HIDE DEF size
<1>4. \A m \in chosen : m \in 1..top
  BY <1>2
<1>5. \A k : IsFiniteSet({m \in chosen : m <= k})
  <2>1. IsFiniteSet(1..top)
    BY <1>2, FS_Interval
  <2>2. \A k : {m \in chosen : m <= k} \subseteq 1..top
    BY <1>4
  <2>. QED
    BY <2>1, <2>2, FS_Subset
<1>6. ASSUME NEW k \in 1..size PROVE RankIn(chosen, places[k]) = k
  <2>. DEFINE S == {j \in 0..size : j = 0 \/ RankIn(chosen, places[j]) = j}
  <2>1. 0 \in S
    BY <1>2
  <2>2. ASSUME NEW j \in 1..size, j - 1 \in S PROVE j \in S
    <3>. DEFINE upTo == {m \in chosen : m <= places[j]}
                before == {m \in chosen : m < places[j]}
    <3>1. places[j] \in 1..top /\ places[j] \in chosen /\ j \in 0..size
      BY <1>2, <1>3
    <3>2. before = upTo \ {places[j]} /\ upTo = before \cup {places[j]} /\ places[j] \notin before
      <4>1. \A m \in chosen : (m <= places[j] <=> m < places[j] \/ m = places[j]) /\ ~(places[j] < places[j])
        BY <1>4, <3>1
      <4>. QED
        BY <3>1, <4>1, Zenon
    <3>3. IsFiniteSet(before)
      <4>1. before \subseteq upTo
        BY <3>2
      <4>. QED
        BY <1>5, <4>1, FS_Subset
    <3>4. RankIn(chosen, places[j]) = Cardinality(before) + 1
      <4>1. Cardinality(before \cup {places[j]}) = Cardinality(before) + 1
        BY <3>2, <3>3, FS_AddElement
      <4>. QED
        BY <3>2, <4>1 DEF RankIn
    <3>5. CASE j = 1
      <4>1. ASSUME NEW m \in before PROVE FALSE
        <5>1. PICK i \in 1..size : places[i] = m
          BY <1>3
        <5>2. i = 1 \/ 1 < i
          BY <1>2
        <5>3. places[1] <= places[i]
          BY <1>2, <1>3, <3>1, <3>5, <5>2
        <5>. QED
          BY <1>2, <1>3, <1>4, <3>1, <3>5, <5>1, <5>3
      <4>2. Cardinality(before) = 0
        <5>1. before = {}
          BY <4>1
        <5>. QED
          BY <5>1, FS_EmptySet
      <4>. QED
        BY <3>1, <3>4, <3>5, <4>2
    <3>6. CASE j # 1
      <4>1. j - 1 \in 1..size /\ places[j - 1] \in 1..top /\ places[j - 1] \in chosen /\ places[j - 1] < places[j]
        <5>1. j - 1 \in 1..size /\ j - 1 < j
          BY <1>2, <3>6
        <5>. QED
          BY <1>3, <5>1
      <4>2. before = {m \in chosen : m <= places[j - 1]}
        <5>1. ASSUME NEW m \in chosen PROVE m < places[j] <=> m <= places[j - 1]
          <6>1. PICK i \in 1..size : places[i] = m
            BY <1>3
          <6>2. i < j - 1 \/ i = j - 1 \/ i = j \/ j < i
            BY <1>2, <4>1
          <6>3. CASE i < j - 1
            <7>1. places[i] < places[j - 1]
              BY <1>3, <4>1, <6>3
            <7>. QED
              BY <1>3, <1>4, <3>1, <4>1, <6>1, <7>1
          <6>4. CASE i = j - 1
            BY <1>4, <3>1, <4>1, <6>1, <6>4
          <6>5. CASE i = j
            BY <1>4, <3>1, <4>1, <6>1, <6>5
          <6>6. CASE j < i
            <7>1. places[j] < places[i]
              BY <1>3, <6>6
            <7>. QED
              BY <1>3, <1>4, <3>1, <4>1, <6>1, <7>1
          <6>. QED
            BY <6>2, <6>3, <6>4, <6>5, <6>6
        <5>. QED
          BY <5>1, Zenon
      <4>3. RankIn(chosen, places[j - 1]) = j - 1
        BY <1>2, <2>2, <4>1
      <4>4. Cardinality(before) = j - 1
        <5>. HIDE DEF before
        <5>. QED
          BY <4>2, <4>3 DEF RankIn
      <4>5. RankIn(chosen, places[j]) = j
        <5>. HIDE DEF before
        <5>. QED
          BY <3>4, <4>4
      <4>. QED
        BY <3>1, <4>5
    <3>. QED
      BY <3>5, <3>6
  <2>3. \A j \in 0..size : j \in S
    <3>. HIDE DEF S
    <3>. QED
      BY <1>2, <2>1, <2>2, Climb
  <2>4. k \in 0..size /\ k # 0
    BY <1>2
  <2>. QED
    BY <2>3, <2>4
<1>7. ASSUME NEW n \in chosen PROVE RankIn(chosen, n) \in 1..size /\ out[RankIn(chosen, n)] = list[n]
  <2>1. PICK k \in 1..size : places[k] = n
    BY <1>3
  <2>. QED
    BY <1>3, <1>6, <2>1
<1>8. \A k \in 1..size : \E n \in chosen : RankIn(chosen, n) = k
  BY <1>3, <1>6
<1>9. size = Cardinality(chosen)
  <2>1. CASE size = 0
    <3>1. chosen = {}
      BY <1>3, <2>1
    <3>. QED
      BY <2>1, <3>1, FS_EmptySet
  <2>2. CASE size # 0
    <3>1. size \in 1..size
      BY <1>2, <2>2
    <3>2. \A m \in chosen : m <= places[size]
      <4>. TAKE m \in chosen
      <4>1. PICK i \in 1..size : places[i] = m
        BY <1>3
      <4>2. i = size \/ i < size
        BY <1>2
      <4>3. places[i] <= places[size]
        BY <1>3, <3>1, <4>2
      <4>. QED
        BY <4>1, <4>3
    <3>3. {m \in chosen : m <= places[size]} = chosen
      BY <3>2
    <3>4. RankIn(chosen, places[size]) = size
      BY <1>6, <3>1
    <3>. QED
      BY <3>3, <3>4 DEF RankIn
  <2>. QED
    BY <2>1, <2>2
<1>. QED
  BY <1>2, <1>7, <1>8, <1>9 DEF out, size

(* A Sub accepts exactly what the reference describes: a signed squash, useds of
   ascending indexes that it leaves out, each listed as the old datum lists it
   or vouched for by the next unlocked cheque; and it owes them and the squash
   (sub.ak's walk over the useds). *)
THEOREM SubIsExact ==
    ASSUME NEW U, NEW signed, NEW upper, NEW usedsIn \in Seq(UsedRecords), Ascending(usedsIn),
           NEW usedsOut \in Seq(UsedRecords), NEW squash, IsSquash(squash), NEW unlockeds \in Seq(U)
    PROVE  LET account == SubAccount(signed, upper, usedsIn, usedsOut, squash, unlockeds)
           IN  /\ account.ok <=> SubEvidence(signed, upper, usedsIn, usedsOut, squash, unlockeds)
               /\ account.ok => account.owed = squash.amount + ListTotal(usedsOut)
<1>. DEFINE n == Len(usedsOut)
            places == FreshIn(usedsIn, usedsOut)
            fresh == EntriesAt(usedsOut, places)
            rank(j) == RankIn(places, j)
            Allows(j) == SubAllows(j, signed, upper, usedsIn, usedsOut, squash, unlockeds)
            account == SubAccount(signed, upper, usedsIn, usedsOut, squash, unlockeds)
<1>1. n \in Nat /\ DOMAIN usedsOut = 1..n /\ \A j \in 1..n : usedsOut[j] \in UsedRecords /\ usedsOut[j].index \in Nat
  <2>1. n \in Nat /\ DOMAIN usedsOut = 1..n /\ \A j \in 1..n : usedsOut[j] \in UsedRecords
    BY ListEntries
  <2>. QED
    BY <2>1 DEF UsedRecords
<1>2. places \in SUBSET DOMAIN usedsOut /\ \A j \in DOMAIN usedsOut : j \in places <=> ~IsOld(usedsIn, usedsOut[j])
  BY DEF FreshIn
<1>3. /\ account.ok <=> squash \in signed /\ \A j \in DOMAIN usedsOut : Allows(j)
      /\ account.ok => account.owed = squash.amount + ListTotal(usedsOut)
  BY SubAccountIs DEF SubSays
<1>4. SubEvidence(signed, upper, usedsIn, usedsOut, squash, unlockeds) <=>
         /\ squash \in signed /\ Ascending(usedsOut)
         /\ \A j \in DOMAIN usedsOut : /\ ~IsSquashed(squash, usedsOut[j].index)
                                       /\ IsOld(usedsIn, usedsOut[j]) => Contains(usedsIn, usedsOut[j])
         /\ Len(fresh) <= Len(unlockeds)
         /\ \A k \in DOMAIN fresh : Vouches(signed, upper, unlockeds[k], fresh[k])
  BY DEF SubEvidence, Vouches, IsOld, FreshIn
<1>5. /\ fresh \in Seq(UsedRecords) /\ Len(fresh) = Cardinality(places)
      /\ \A j \in places : rank(j) \in 1..Len(fresh) /\ fresh[rank(j)] = usedsOut[j]
      /\ \A k \in 1..Len(fresh) : \E j \in places : rank(j) = k
  <2>. HIDE DEF places
  <2>. QED
    BY <1>2, EntriesAtRanks
<1>6. \A j : Allows(j) <=>
         /\ IndexBefore(usedsOut, j) < usedsOut[j].index /\ ~IsSquashed(squash, usedsOut[j].index)
         /\ IF j \in places
            THEN rank(j) <= Len(unlockeds) /\ Vouches(signed, upper, unlockeds[rank(j)], usedsOut[j])
            ELSE Contains(usedsIn, usedsOut[j])
  BY DEF SubAllows
<1>7. Len(fresh) \in Nat /\ DOMAIN fresh = 1..Len(fresh) /\ Len(unlockeds) \in Nat
  BY <1>5, ListEntries
<1>. HIDE DEF places, fresh, rank, Allows, account
<1>8. Ascending(usedsOut) <=> \A j \in DOMAIN usedsOut : IndexBefore(usedsOut, j) < usedsOut[j].index
  BY <1>1, AscendsStepwise
<1>9. (Len(fresh) <= Len(unlockeds) /\ \A k \in DOMAIN fresh : Vouches(signed, upper, unlockeds[k], fresh[k]))
      <=> \A j \in places : rank(j) <= Len(unlockeds) /\ Vouches(signed, upper, unlockeds[rank(j)], usedsOut[j])
  <2>1. ASSUME Len(fresh) <= Len(unlockeds), \A k \in DOMAIN fresh : Vouches(signed, upper, unlockeds[k], fresh[k]),
               NEW j \in places
        PROVE  rank(j) <= Len(unlockeds) /\ Vouches(signed, upper, unlockeds[rank(j)], usedsOut[j])
    <3>1. rank(j) \in 1..Len(fresh) /\ fresh[rank(j)] = usedsOut[j]
      BY <1>5
    <3>2. rank(j) <= Len(unlockeds)
      BY <1>7, <2>1, <3>1
    <3>. QED
      BY <1>7, <2>1, <3>1, <3>2
  <2>2. ASSUME \A j \in places : rank(j) <= Len(unlockeds) /\ Vouches(signed, upper, unlockeds[rank(j)], usedsOut[j])
        PROVE  Len(fresh) <= Len(unlockeds) /\ \A k \in DOMAIN fresh : Vouches(signed, upper, unlockeds[k], fresh[k])
    <3>1. ASSUME NEW k \in 1..Len(fresh) PROVE k <= Len(unlockeds) /\ Vouches(signed, upper, unlockeds[k], fresh[k])
      <4>1. PICK j \in places : rank(j) = k
        BY <1>5
      <4>. QED
        BY <1>5, <2>2, <4>1
    <3>2. Len(fresh) <= Len(unlockeds)
      <4>1. Len(fresh) = 0 \/ Len(fresh) \in 1..Len(fresh)
        BY <1>7
      <4>. QED
        BY <1>7, <3>1, <4>1
    <3>. QED
      BY <1>7, <3>1, <3>2
  <2>. QED
    BY <2>1, <2>2
<1>10. (\A j \in DOMAIN usedsOut : Allows(j)) <=>
         /\ \A j \in DOMAIN usedsOut : IndexBefore(usedsOut, j) < usedsOut[j].index
         /\ \A j \in DOMAIN usedsOut : /\ ~IsSquashed(squash, usedsOut[j].index)
                                       /\ IsOld(usedsIn, usedsOut[j]) => Contains(usedsIn, usedsOut[j])
         /\ \A j \in places : rank(j) <= Len(unlockeds) /\ Vouches(signed, upper, unlockeds[rank(j)], usedsOut[j])
  BY <1>2, <1>6, Zenon
<1>11. account.ok <=> SubEvidence(signed, upper, usedsIn, usedsOut, squash, unlockeds)
  BY <1>3, <1>4, <1>8, <1>9, <1>10, Zenon
<1>. QED
  BY <1>3, <1>11 DEF account

\* The useds that come before a cheque are those up to its index.
LEMMA PassedIs ==
    ASSUME NEW useds \in Seq(UsedRecords), Ascending(useds), NEW index \in Nat
    PROVE  /\ Passed(useds, index) \in 0..Len(useds)
           /\ \A j \in DOMAIN useds : j <= Passed(useds, index) <=> useds[j].index <= index
<1>. DEFINE I == {i \in 1..Len(useds) : useds[i].index > index}
            n == SelectInSeq(useds, LAMBDA used : used.index > index)
<1>0. Len(useds) \in Nat /\ DOMAIN useds = 1..Len(useds) /\ \A j \in DOMAIN useds : useds[j].index \in Nat
  <2>1. Len(useds) \in Nat /\ DOMAIN useds = 1..Len(useds) /\ \A j \in 1..Len(useds) : useds[j] \in UsedRecords
    BY ListEntries
  <2>. QED
    BY <2>1 DEF UsedRecords
<1>1. n = IF I # {} THEN Min(I) ELSE 0
  BY DEF SelectInSeq
<1>2. Passed(useds, index) = IF n = 0 THEN Len(useds) ELSE n - 1
  BY DEF Passed
<1>3. CASE I = {}
  <2>1. Passed(useds, index) = Len(useds)
    BY <1>1, <1>2, <1>3
  <2>2. \A j \in DOMAIN useds : j <= Len(useds) /\ useds[j].index <= index
    BY <1>0, <1>3
  <2>. QED
    BY <1>0, <2>1, <2>2
<1>4. CASE I # {}
  <2>1. Min(I) \in I /\ \A j \in I : Min(I) <= j
    <3>1. I \subseteq Nat
      OBVIOUS
    <3>. HIDE DEF I
    <3>. QED
      BY <1>4, <3>1, MinIsLeast
  <2>2. n = Min(I) /\ n \in 1..Len(useds) /\ useds[n].index > index
    BY <1>1, <1>4, <2>1
  <2>. HIDE DEF n, I
  <2>3. Passed(useds, index) = n - 1
    BY <1>0, <1>2, <2>2
  <2>4. ASSUME NEW j \in DOMAIN useds PROVE j <= n - 1 <=> useds[j].index <= index
    <3>1. CASE j < n
      <4>1. j \notin I
        BY <1>0, <2>1, <2>2, <3>1
      <4>. USE DEF I
      <4>. QED
        BY <1>0, <2>2, <3>1, <4>1
    <3>2. CASE j >= n
      <4>1. j = n \/ n < j
        BY <1>0, <2>2, <3>2
      <4>2. j = n \/ useds[n].index < useds[j].index
        BY <1>0, <2>2, <4>1 DEF Ascending
      <4>3. useds[n].index \in Nat /\ useds[j].index \in Nat
        BY <1>0, <2>2
      <4>. QED
        BY <1>0, <2>2, <3>2, <4>2, <4>3
    <3>. QED
      BY <1>0, <2>2, <3>1, <3>2
  <2>. QED
    BY <1>0, <2>2, <2>3, <2>4
<1>. QED
  BY <1>3, <1>4

RespondMidways(P) ==
    [ok : BOOLEAN, owed : Nat, useds : Seq(UsedRecords), at : Points, pTotal : Int, pends : Seq(P)]

\* What passing a used leaves alone.
SameButUsed(next, acc) ==
    next.useds = acc.useds /\ next.pTotal = acc.pTotal /\ next.pends = acc.pends

LEMMA UsedWithIs ==
    ASSUME NEW P, NEW acc \in RespondMidways(P), NEW used \in UsedRecords
    PROVE  LET next == UsedWith(acc, used)
           IN  /\ next \in RespondMidways(P) /\ SameButUsed(next, acc)
               /\ next.ok <=> acc.ok /\ IsUnaccounted(acc.at, used.index)
               /\ next.ok => /\ next.owed = acc.owed + used.amount
                             /\ next.at = NextIndex(acc.at, used.index)
<1>. DEFINE sum == acc.owed + used.amount
            at == NextIndex(acc.at, used.index)
            more == [acc EXCEPT !.owed = sum, !.at = at]
            failed == [acc EXCEPT !.ok = FALSE]
            next == UsedWith(acc, used)
            goes == acc.ok /\ IsUnaccounted(acc.at, used.index)
<1>1. /\ acc.ok \in BOOLEAN /\ acc.owed \in Nat /\ acc.at \in Points
      /\ used.index \in Nat /\ used.amount \in Nat
  BY DEF RespondMidways, UsedRecords
<1>2. next = IF goes THEN more ELSE failed
  BY DEF UsedWith
<1>3. failed \in RespondMidways(P) /\ ~failed.ok /\ SameButUsed(failed, acc)
  BY DEF RespondMidways, SameButUsed
<1>4. goes => sum \in Nat /\ at \in Points
  BY <1>1, NextIndexAccounts
<1>. HIDE DEF sum, at
<1>5. goes => /\ more \in RespondMidways(P) /\ more.ok /\ SameButUsed(more, acc)
              /\ more.owed = sum /\ more.at = at
  BY <1>4 DEF RespondMidways, SameButUsed
<1>. HIDE DEF next, more, failed, goes
<1>6. /\ next \in RespondMidways(P) /\ SameButUsed(next, acc)
      /\ next.ok <=> goes
      /\ next.ok => next.owed = sum /\ next.at = at
  BY <1>2, <1>3, <1>5
<1>. QED
  BY <1>6 DEF next, goes, sum, at

\* The useds up to an index, one after the other.
IsUsedsWalk(h, n, P, acc) ==
    /\ \A k \in 0..n : h[k] \in RespondMidways(P)
    /\ h[0] = [acc EXCEPT !.useds = SubSeq(@, n + 1, Len(@))]
    /\ \A k \in 1..n : h[k] = UsedWith(h[k - 1], acc.useds[k])

LEMMA UsedsUpToSteps ==
    ASSUME NEW P, NEW acc \in RespondMidways(P), NEW index \in Nat
    PROVE  \E h : /\ IsUsedsWalk(h, Passed(acc.useds, index), P, acc)
                  /\ UsedsUpTo(acc, index) = h[Passed(acc.useds, index)]
<1>. DEFINE n == Passed(acc.useds, index)
            State == RespondMidways(P)
            first == SubSeq(acc.useds, 1, n)
            rest == SubSeq(acc.useds, n + 1, Len(acc.useds))
            base == [acc EXCEPT !.useds = rest]
            F(iter) == [s \in SUBSET (1..n) |->
                          IF s = {} THEN base
                          ELSE UsedWith(iter[s \ {Max(s)}], first[Max(s)])]
            step == [q \in State \X (1..n) |-> UsedWith(q[1], first[q[2]])]
            it == CHOOSE iter : iter = F(iter)
<1>1. acc.useds \in Seq(UsedRecords)
  BY DEF RespondMidways
<1>2. n \in 0..Len(acc.useds) /\ n \in Nat
  <2>1. n \in 0..Len(acc.useds)
    BY <1>1, PassedIsPrefix
  <2>. QED
    BY <1>1, <2>1
<1>3. DOMAIN first = 1..n /\ \A k \in 1..n : first[k] = acc.useds[k] /\ first[k] \in UsedRecords
  <2>. HIDE DEF n
  <2>. QED
    BY <1>1, <1>2
<1>4. UsedsUpTo(acc, index) = it[1..n]
  <2>1. [acc EXCEPT !.useds = SubSeq(@, n + 1, Len(@))] = base
    OBVIOUS
  <2>. HIDE DEF base
  <2>. QED
    BY <1>3, <2>1 DEF UsedsUpTo, UsedWith, FoldLeft, MapThenFoldSet
<1>5. base \in State /\ base = [acc EXCEPT !.useds = SubSeq(@, n + 1, Len(@))]
  <2>1. rest \in Seq(UsedRecords)
    <3>. HIDE DEF n
    <3>. QED
      BY <1>1, <1>2
  <2>2. base = [acc EXCEPT !.useds = SubSeq(@, n + 1, Len(@))]
    OBVIOUS
  <2>. HIDE DEF rest
  <2>3. base \in State
    BY <2>1 DEF RespondMidways
  <2>. QED
    BY <2>2, <2>3
<1>. HIDE DEF base, n
<1>6. \A a \in State : \A k \in 1..n : UsedWith(a, first[k]) \in State
  <2>. HIDE DEF first
  <2>. QED
    BY <1>3, UsedWithIs
<1>. HIDE DEF State, first
<1>8. step \in [State \X (1..n) -> State]
  BY <1>6
<1>9. it = F(it)
  <2>1. PICK walk : IsWalk(walk, n, State, base, step)
    <3>. HIDE DEF step
    <3>. QED
      BY <1>2, <1>5, <1>8, WalkExists
  <2>2. ASSUME NEW s \in SUBSET (1..n), s # {}
        PROVE  walk[s] = UsedWith(walk[s \ {Max(s)}], first[Max(s)])
    <3>1. Max(s) \in 1..n /\ s \ {Max(s)} \in SUBSET (1..n)
      BY <1>2, <2>2, MaxIsIn
    <3>2. walk[s] = step[<<walk[s \ {Max(s)}], Max(s)>>] /\ walk[s \ {Max(s)}] \in State
      <4>. HIDE DEF step
      <4>. QED
        BY <2>1, <2>2, <3>1 DEF IsWalk
    <3>. QED
      BY <3>1, <3>2
  <2>3. walk = F(walk)
    BY <2>1, <2>2 DEF IsWalk
  <2>. HIDE DEF F
  <2>. QED
    BY <2>3
<1>. HIDE DEF it
<1>10. it[{}] = base
  BY <1>9
<1>11. ASSUME NEW s \in SUBSET (1..n), s # {}, it[s \ {Max(s)}] \in State
       PROVE  it[s] = step[<<it[s \ {Max(s)}], Max(s)>>]
  <2>1. Max(s) \in 1..n
    BY <1>2, <1>11, MaxIsIn
  <2>. QED
    BY <1>9, <1>11, <2>1
<1>12. PICK h : IsHistoryOf(h, it, n, State, base, step)
  <2>1. IsFold(it, n, State, base, step)
    BY <1>10, <1>11 DEF IsFold
  <2>. HIDE DEF step
  <2>. QED
    BY <1>2, <1>5, <1>8, <2>1, FoldIsHistory
<1>13. /\ \A k \in 0..n : h[k] \in State
       /\ h[0] = base /\ h[n] = it[1..n]
       /\ \A k \in 1..n : h[k] = step[<<h[k - 1], k>>]
  <2>. HIDE DEF step
  <2>. QED
    BY <1>12 DEF IsHistoryOf, IsHistory
<1>14. ASSUME NEW k \in 1..n PROVE h[k] = UsedWith(h[k - 1], acc.useds[k])
  <2>1. k - 1 \in 0..n
    BY <1>2
  <2>2. h[k - 1] \in State
    BY <1>13, <2>1
  <2>3. step[<<h[k - 1], k>>] = UsedWith(h[k - 1], first[k])
    BY <2>2
  <2>. QED
    BY <1>3, <1>13, <2>3
<1>. QED
  BY <1>4, <1>5, <1>13, <1>14 DEF IsUsedsWalk, State, n

\* What is left of a Respond's accumulator when the useds from the d-th to the
\* e-th, those up to the index, have been passed.
Reduces(next, acc, d, e, last, index, useds, squash, w) ==
    /\ e \in d..Len(useds) /\ IsPast(next.useds, useds, e)
    /\ \A j \in DOMAIN useds : j > d => (j <= e <=> useds[j].index <= index)
    /\ next.pTotal = acc.pTotal /\ next.pends = acc.pends
    /\ next.ok <=> \A j \in (d + 1)..e : ~IsSquashed(squash, useds[j].index)
    /\ next.ok => /\ PointAt(next.at, squash, IF e = d THEN last ELSE useds[e].index)
                  /\ next.owed + SumOver(1..d, w) = acc.owed + SumOver(1..e, w)

LEMMA UsedsUpToIs ==
    ASSUME NEW P, NEW acc \in RespondMidways(P), acc.ok, NEW useds \in Seq(UsedRecords), Ascending(useds),
           NEW squash, NEW last \in Int, PointAt(acc.at, squash, last),
           NEW d, IsPast(acc.useds, useds, d), \A j \in DOMAIN useds : j > d <=> useds[j].index > last,
           NEW index \in Nat, NEW w, \A j \in DOMAIN useds : w[j] = useds[j].amount
    PROVE  /\ UsedsUpTo(acc, index) \in RespondMidways(P)
           /\ \E e : Reduces(UsedsUpTo(acc, index), acc, d, e, last, index, useds, squash, w)
<1>. DEFINE rest == acc.useds
            n == Passed(acc.useds, index)
            top == Len(useds)
            e == d + n
            next == UsedsUpTo(acc, index)
            reach(k) == IF k = 0 THEN last ELSE rest[k].index
<1>1. /\ top \in Nat /\ DOMAIN useds = 1..top
      /\ \A j \in 1..top : useds[j] \in UsedRecords /\ useds[j].index \in Nat /\ useds[j].amount \in Nat
  <2>1. top \in Nat /\ DOMAIN useds = 1..top /\ \A j \in 1..top : useds[j] \in UsedRecords
    BY ListEntries
  <2>. QED
    BY <2>1 DEF UsedRecords
<1>. HIDE DEF top
<1>2. rest \in Seq(UsedRecords) /\ acc.owed \in Nat
  BY DEF RespondMidways
<1>3. /\ d \in 0..top /\ Len(rest) = top - d /\ DOMAIN rest = 1..(top - d)
      /\ \A j \in 1..(top - d) : rest[j] = useds[j + d] /\ j + d \in 1..top
  <2>1. /\ d \in 0..top /\ Len(rest) = top - d
        /\ \A j \in 1..(top - d) : rest[j] = useds[j + d]
    BY DEF IsPast, top
  <2>2. DOMAIN rest = 1..Len(rest)
    BY <1>2, ListEntries
  <2>. QED
    BY <1>1, <2>1, <2>2
<1>4. Ascending(rest)
  <2>. SUFFICES ASSUME NEW j \in DOMAIN rest, NEW k \in DOMAIN rest, j < k
                PROVE  rest[j].index < rest[k].index
    BY DEF Ascending
  <2>1. j + d \in DOMAIN useds /\ k + d \in DOMAIN useds /\ j + d < k + d
    BY <1>1, <1>3
  <2>2. useds[j + d].index < useds[k + d].index
    BY <2>1 DEF Ascending
  <2>. QED
    BY <1>3, <2>2
<1>5. n \in 0..Len(rest) /\ \A j \in DOMAIN rest : j <= n <=> rest[j].index <= index
  BY <1>2, <1>4, PassedIs
<1>6. n \in Nat /\ n \in 0..(top - d) /\ \A k \in 1..n : k \in 1..(top - d)
  BY <1>1, <1>3, <1>5
<1>7. PICK h : IsUsedsWalk(h, n, P, acc) /\ next = h[n]
  BY UsedsUpToSteps
<1>8. IsPast(SubSeq(rest, n + 1, Len(rest)), rest, n)
  BY <1>2, <1>5, RestIsPast
<1>. HIDE DEF n, next
<1>9. /\ \A k \in 0..n : h[k] \in RespondMidways(P)
      /\ h[0] = [acc EXCEPT !.useds = SubSeq(rest, n + 1, Len(rest))]
      /\ \A k \in 1..n : h[k] = UsedWith(h[k - 1], rest[k])
  BY <1>7 DEF IsUsedsWalk
<1>. DEFINE left == SubSeq(rest, n + 1, Len(rest))
<1>. HIDE DEF rest, left
<1>10. /\ h[0].ok = acc.ok /\ h[0].owed = acc.owed /\ h[0].at = acc.at /\ h[0].useds = left
       /\ h[0].pTotal = acc.pTotal /\ h[0].pends = acc.pends
  <2>1. acc \in [ok : BOOLEAN, owed : Nat, useds : Seq(UsedRecords), at : Points, pTotal : Int, pends : Seq(P)]
    BY DEF RespondMidways
  <2>2. h[0] = [acc EXCEPT !.useds = left]
    BY <1>9 DEF left
  <2>. QED
    BY <2>1, <2>2
<1>11. ASSUME NEW k \in 1..n
       PROVE  /\ SumOver(1..(d + k), w) = rest[k].amount + SumOver(1..(d + k - 1), w)
              /\ SumOver(1..(d + k - 1), w) \in Nat
  <2>1. \A j \in 1..top : /\ SumOver(1..j, w) = w[j] + SumOver(1..(j - 1), w)
                          /\ SumOver(1..(j - 1), w) \in Nat
    BY <1>1, PrefixSums
  <2>2. d + k \in 1..top /\ d + k = k + d /\ rest[k] = useds[k + d]
    BY <1>1, <1>3, <1>6
  <2>3. w[d + k] = rest[k].amount
    BY <1>1, <2>2
  <2>4. PICK m : m = d + k /\ m \in 1..top /\ w[m] = rest[k].amount
    BY <2>2, <2>3
  <2>5. SumOver(1..m, w) = w[m] + SumOver(1..(m - 1), w) /\ SumOver(1..(m - 1), w) \in Nat
    BY <2>1, <2>4
  <2>6. SumOver(1..m, w) = rest[k].amount + SumOver(1..(m - 1), w)
    BY <2>4, <2>5
  <2>. QED
    BY <1>1, <1>3, <1>6, <2>4, <2>5, <2>6
<1>. DEFINE Goes(k) == \A j \in 1..k : ~IsSquashed(squash, rest[j].index)
            Fits(k) == /\ PointAt(h[k].at, squash, reach(k))
                       /\ h[k].owed + SumOver(1..d, w) = acc.owed + SumOver(1..(d + k), w)
            Same(k) == h[k].useds = left /\ h[k].pTotal = acc.pTotal /\ h[k].pends = acc.pends
            T == {k \in 0..n : Same(k) /\ (h[k].ok <=> Goes(k)) /\ (h[k].ok => Fits(k))}
<1>12. 0 \in T
  <2>1. Goes(0) /\ d + 0 = d
    BY <1>1, <1>3
  <2>2. Fits(0) /\ Same(0) /\ h[0].ok
    BY <1>10, <2>1
  <2>. HIDE DEF Goes, Fits, Same
  <2>. QED
    BY <1>6, <2>1, <2>2
<1>13. ASSUME NEW k \in 1..n, k - 1 \in T PROVE k \in T
  <2>. DEFINE old == h[k - 1]
              used == rest[k]
  <2>1. k - 1 \in 0..n /\ k \in 0..n /\ 1..k = (1..(k - 1)) \cup {k} /\ k \in 1..(top - d)
    BY <1>6
  <2>2. /\ old \in RespondMidways(P) /\ h[k] = UsedWith(old, used)
        /\ Same(k - 1) /\ (old.ok <=> Goes(k - 1)) /\ (old.ok => Fits(k - 1))
    <3>. HIDE DEF Same, Goes, Fits
    <3>. QED
      BY <1>9, <1>13, <2>1
  <2>3. used \in UsedRecords /\ used.index \in Nat /\ used.amount \in Nat
    BY <1>1, <1>3, <2>1
  <2>4. Goes(k) <=> Goes(k - 1) /\ ~IsSquashed(squash, used.index)
    BY <2>1
  <2>5. reach(k - 1) < used.index /\ reach(k - 1) \in Int /\ reach(k) = used.index
    <3>1. CASE k = 1
      <4>1. 1 + d \in DOMAIN useds /\ 1 + d > d /\ used = useds[1 + d]
        BY <1>1, <1>3, <2>1, <3>1
      <4>. QED
        BY <1>1, <2>3, <3>1, <4>1
    <3>2. CASE k # 1
      <4>1. k - 1 \in 1..(top - d) /\ k - 1 < k /\ k - 1 # 0 /\ k # 0
        BY <1>1, <1>3, <2>1, <3>2
      <4>2. rest[k - 1].index < used.index /\ rest[k - 1].index \in Nat
        BY <1>1, <1>3, <1>4, <2>1, <4>1 DEF Ascending
      <4>. QED
        BY <4>1, <4>2
    <3>. QED
      BY <3>1, <3>2
  <2>6. /\ h[k] \in RespondMidways(P) /\ SameButUsed(h[k], old)
        /\ h[k].ok <=> old.ok /\ IsUnaccounted(old.at, used.index)
        /\ h[k].ok => h[k].owed = old.owed + used.amount /\ h[k].at = NextIndex(old.at, used.index)
    <3>. HIDE DEF old, used
    <3>. QED
      BY <2>2, <2>3, UsedWithIs
  <2>7. Same(k)
    BY <2>2, <2>6 DEF SameButUsed
  <2>8. ASSUME old.ok PROVE IsUnaccounted(old.at, used.index) <=> ~IsSquashed(squash, used.index)
    <3>1. PointAt(old.at, squash, reach(k - 1))
      BY <2>2, <2>8
    <3>. HIDE DEF reach
    <3>. QED
      BY <2>3, <2>5, <3>1 DEF PointAt
  <2>9. ASSUME h[k].ok PROVE Fits(k)
    <3>1. old.ok /\ IsUnaccounted(old.at, used.index) /\ Fits(k - 1)
      BY <2>2, <2>6, <2>9
    <3>2. PointAt(h[k].at, squash, reach(k))
      <4>1. PointAt(old.at, squash, reach(k - 1))
        BY <3>1
      <4>. HIDE DEF reach, old, used
      <4>2. PointAt(NextIndex(old.at, used.index), squash, used.index)
        BY <2>3, <2>5, <3>1, <4>1, PointMoves
      <4>. QED
        BY <2>5, <2>6, <2>9, <4>2
    <3>3. h[k].owed + SumOver(1..d, w) = acc.owed + SumOver(1..(d + k), w)
      <4>1. h[k].owed = old.owed + used.amount /\ old.owed \in Nat
        BY <2>2, <2>6, <2>9 DEF RespondMidways
      <4>2. SumOver(1..(d + k), w) = used.amount + SumOver(1..(d + k - 1), w) /\ SumOver(1..(d + k - 1), w) \in Nat
        BY <1>11
      <4>3. old.owed + SumOver(1..d, w) = acc.owed + SumOver(1..(d + (k - 1)), w) /\ d + (k - 1) = d + k - 1
        BY <1>1, <1>3, <2>1, <3>1
      <4>4. SumOver(1..d, w) \in Nat
        <5>1. top \in Nat /\ \A j \in 1..top : w[j] \in Nat
          BY <1>1
        <5>2. d \in 0..top
          BY <1>3
        <5>. QED
          BY <5>1, <5>2, PrefixIsNat
      <4>. DEFINE X == SumOver(1..(d + k), w)
                  Y == SumOver(1..(d + k - 1), w)
                  Z == SumOver(1..d, w)
      <4>5. X = used.amount + Y /\ Y \in Nat /\ Z \in Nat /\ old.owed + Z = acc.owed + Y
        BY <4>2, <4>3, <4>4
      <4>6. h[k].owed = old.owed + used.amount /\ old.owed \in Nat
        BY <4>1
      <4>. HIDE DEF old, used, X, Y, Z
      <4>7. PICK a \in Int, o \in Int, u \in Int, x \in Int, y \in Int, z \in Int :
               a = acc.owed /\ o = old.owed /\ u = used.amount /\ x = X /\ y = Y /\ z = Z
        BY <1>2, <2>3, <4>5, <4>6
      <4>8. h[k].owed = o + u /\ x = u + y /\ o + z = a + y
        BY <4>5, <4>6, <4>7, Zenon
      <4>9. (o + u) + z = a + x
        BY ONLY <4>8
      <4>. QED
        BY <4>7, <4>8, <4>9, Zenon DEF X, Z
    <3>. QED
      BY <3>2, <3>3
  <2>10. h[k].ok <=> Goes(k)
    <3>. HIDE DEF Goes, old, used
    <3>. QED
      BY <2>2, <2>4, <2>6, <2>8
  <2>. HIDE DEF Goes, Fits, Same
  <2>. QED
    BY <2>1, <2>7, <2>9, <2>10
<1>14. Same(n) /\ (next.ok <=> Goes(n)) /\ (next.ok => Fits(n)) /\ next \in RespondMidways(P)
  <2>1. \A k \in 0..n : k \in T
    <3>. HIDE DEF T
    <3>. QED
      BY <1>6, <1>12, <1>13, Climb
  <2>2. n \in 0..n
    BY <1>6
  <2>. HIDE DEF Goes, Fits, Same
  <2>. QED
    BY <1>7, <1>9, <2>1, <2>2
<1>15. e \in d..top /\ (e = d <=> n = 0)
  BY <1>1, <1>3, <1>6
<1>16. IsPast(next.useds, useds, e)
  <2>1. IsPast(left, useds, d + n)
    <3>1. IsPast(left, rest, n)
      BY <1>8 DEF left, rest
    <3>2. IsPast(rest, useds, d)
      BY DEF rest
    <3>. QED
      BY <1>2, <3>1, <3>2, PastPast
  <2>. QED
    BY <1>7, <1>14, <2>1
<1>17. ASSUME NEW j \in DOMAIN useds, j > d PROVE j <= e <=> useds[j].index <= index
  <2>1. j - d \in 1..(top - d) /\ (j - d) + d = j /\ (j - d <= n <=> j <= e)
    BY <1>1, <1>3, <1>6, <1>17
  <2>. QED
    BY <1>3, <1>5, <2>1
<1>18. Goes(n) <=> \A j \in (d + 1)..e : ~IsSquashed(squash, useds[j].index)
  <2>1. ASSUME NEW k \in 1..n PROVE k + d \in (d + 1)..e /\ rest[k] = useds[k + d]
    BY <1>1, <1>3, <1>6
  <2>2. ASSUME NEW j \in (d + 1)..e PROVE j - d \in 1..n /\ rest[j - d] = useds[j]
    <3>1. j - d \in 1..n /\ (j - d) + d = j
      BY <1>1, <1>3, <1>6
    <3>. QED
      BY <1>3, <1>6, <3>1
  <2>. HIDE DEF e
  <2>. QED
    BY <2>1, <2>2
<1>19. reach(n) = IF e = d THEN last ELSE useds[e].index
  <2>1. n # 0 => rest[n] = useds[e]
    <3>1. n # 0 => n \in 1..(top - d) /\ n + d = e
      BY <1>1, <1>3, <1>6
    <3>. QED
      BY <1>3, <3>1
  <2>. QED
    BY <1>15, <2>1
<1>20. next.ok => /\ PointAt(next.at, squash, IF e = d THEN last ELSE useds[e].index)
                  /\ next.owed + SumOver(1..d, w) = acc.owed + SumOver(1..e, w)
  <2>. HIDE DEF reach, e
  <2>1. next.ok => /\ PointAt(h[n].at, squash, reach(n))
                   /\ h[n].owed + SumOver(1..d, w) = acc.owed + SumOver(1..(d + n), w)
    BY <1>14
  <2>2. d + n = e
    BY DEF e
  <2>. QED
    BY <1>7, <1>19, <2>1, <2>2
<1>21. next.pTotal = acc.pTotal /\ next.pends = acc.pends
  BY <1>7, <1>14
<1>. HIDE DEF e, Goes, Fits, Same
<1>22. Reduces(next, acc, d, e, last, index, useds, squash, w)
  BY <1>14, <1>15, <1>16, <1>17, <1>18, <1>20, <1>21 DEF Reduces, top
<1>. QED
  BY <1>14, <1>22 DEF next

LEMMA UsedsUpToStays ==
    ASSUME NEW P, NEW acc \in RespondMidways(P), NEW index \in Nat
    PROVE  /\ UsedsUpTo(acc, index) \in RespondMidways(P)
           /\ UsedsUpTo(acc, index).pends = acc.pends
           /\ UsedsUpTo(acc, index).ok => acc.ok
<1>. DEFINE n == Passed(acc.useds, index)
            next == UsedsUpTo(acc, index)
<1>1. acc.useds \in Seq(UsedRecords)
  BY DEF RespondMidways
<1>2. n \in 0..Len(acc.useds) /\ n \in Nat
  <2>1. n \in 0..Len(acc.useds)
    BY <1>1, PassedIsPrefix
  <2>. QED
    BY <1>1, <2>1
<1>3. PICK h : IsUsedsWalk(h, n, P, acc) /\ next = h[n]
  BY UsedsUpToSteps
<1>4. \A k \in 1..n : acc.useds[k] \in UsedRecords
  <2>. HIDE DEF n
  <2>. QED
    BY <1>1, <1>2
<1>. HIDE DEF n, next
<1>. DEFINE T == {k \in 0..n : h[k].pends = acc.pends /\ (h[k].ok => acc.ok)}
<1>5. 0 \in T
  <2>. DEFINE rest == SubSeq(acc.useds, n + 1, Len(acc.useds))
  <2>1. h[0] = [acc EXCEPT !.useds = rest]
    BY <1>3 DEF IsUsedsWalk
  <2>. HIDE DEF rest
  <2>2. h[0].pends = acc.pends /\ h[0].ok = acc.ok
    BY <2>1 DEF RespondMidways
  <2>. QED
    BY <1>2, <2>2
<1>6. ASSUME NEW k \in 1..n, k - 1 \in T PROVE k \in T
  <2>1. k - 1 \in 0..n /\ k \in 0..n
    BY <1>2
  <2>2. h[k - 1] \in RespondMidways(P) /\ h[k] = UsedWith(h[k - 1], acc.useds[k])
    BY <1>3, <2>1 DEF IsUsedsWalk
  <2>3. SameButUsed(h[k], h[k - 1]) /\ (h[k].ok => h[k - 1].ok)
    BY <1>4, <2>2, UsedWithIs
  <2>. QED
    BY <1>6, <2>1, <2>3 DEF SameButUsed
<1>7. \A k \in 0..n : k \in T
  <2>. HIDE DEF T
  <2>. QED
    BY <1>2, <1>5, <1>6, Climb
<1>8. n \in 0..n
  BY <1>2
<1>9. next \in RespondMidways(P) /\ next.pends = acc.pends /\ (next.ok => acc.ok)
  BY <1>3, <1>7, <1>8 DEF IsUsedsWalk
<1>. QED
  BY <1>9 DEF next

\* The cheques of a Respond.
ChequeRecords(R) ==
    \A r \in R : r.unlocked \in BOOLEAN /\ r.body.index \in Nat /\ r.body.amount \in Nat

\* The signature and the timeout of a cheque of a Respond.
IsShown(signed, upper, cheque) ==
    IF cheque.unlocked THEN LockedForm(cheque.body) \in signed /\ upper <= cheque.body.timeout
                       ELSE cheque.body \in signed

\* When the walk of a Respond goes on, and with what.
RespondMovesTo(next, reduced, acc, cheque) ==
    /\ next.useds = reduced.useds /\ next.at = NextIndex(reduced.at, cheque.body.index)
    /\ next.owed = IF cheque.unlocked THEN reduced.owed + cheque.body.amount ELSE reduced.owed
    /\ next.pTotal = IF cheque.unlocked THEN reduced.pTotal ELSE reduced.pTotal - cheque.body.amount
    /\ next.pends = IF cheque.unlocked THEN acc.pends ELSE Tail(acc.pends)

LEMMA RespondWithIs ==
    ASSUME NEW P, NEW acc \in RespondMidways(P), NEW signed, NEW upper,
           NEW R, ChequeRecords(R), NEW cheque \in R
    PROVE  LET reduced == UsedsUpTo(acc, cheque.body.index)
               next == RespondWith(signed, upper, acc, cheque)
           IN  /\ next \in RespondMidways(P)
               /\ next.ok <=> /\ reduced.ok /\ IsUnaccounted(reduced.at, cheque.body.index)
                              /\ IsShown(signed, upper, cheque)
                              /\ cheque.unlocked \/ (acc.pends # <<>> /\ Head(acc.pends) = PendOf(cheque.body))
               /\ next.ok => RespondMovesTo(next, reduced, acc, cheque)
<1>. DEFINE body == cheque.body
            reduced == UsedsUpTo(acc, cheque.body.index)
            next == RespondWith(signed, upper, acc, cheque)
            holds == /\ reduced.ok
                     /\ IsUnaccounted(reduced.at, body.index)
                     /\ IF cheque.unlocked
                        THEN LockedForm(body) \in signed /\ upper <= body.timeout
                        ELSE /\ body \in signed
                             /\ acc.pends # <<>> /\ Head(acc.pends) = PendOf(body)
            goes == /\ reduced.ok /\ IsUnaccounted(reduced.at, cheque.body.index)
                    /\ IsShown(signed, upper, cheque)
                    /\ cheque.unlocked \/ (acc.pends # <<>> /\ Head(acc.pends) = PendOf(cheque.body))
            at == NextIndex(reduced.at, body.index)
            owed == IF cheque.unlocked THEN reduced.owed + body.amount ELSE reduced.owed
            pTotal == IF cheque.unlocked THEN reduced.pTotal ELSE reduced.pTotal - body.amount
            pends == IF cheque.unlocked THEN reduced.pends ELSE Tail(reduced.pends)
            more == [reduced EXCEPT !.at = at, !.owed = owed, !.pTotal = pTotal, !.pends = pends]
            failed == [acc EXCEPT !.ok = FALSE]
<1>1. cheque.unlocked \in BOOLEAN /\ body.index \in Nat /\ body.amount \in Nat
  BY DEF ChequeRecords
<1>2. reduced \in RespondMidways(P) /\ reduced.pends = acc.pends
  BY <1>1, UsedsUpToStays
<1>3. holds <=> goes
  BY <1>1 DEF IsShown
<1>4. next = IF ~holds THEN failed ELSE more
  <2>1. next = IF ~holds THEN failed
               ELSE [reduced EXCEPT
                       !.at     = NextIndex(@, body.index),
                       !.owed   = IF cheque.unlocked THEN @ + body.amount ELSE @,
                       !.pTotal = IF cheque.unlocked THEN @ ELSE @ - body.amount,
                       !.pends  = IF cheque.unlocked THEN @ ELSE Tail(@)]
    BY DEF RespondWith
  <2>. HIDE DEF reduced, holds
  <2>2. reduced \in [ok : BOOLEAN, owed : Nat, useds : Seq(UsedRecords), at : Points, pTotal : Int, pends : Seq(P)]
    BY <1>2 DEF RespondMidways
  <2>3. more = [reduced EXCEPT
                  !.at     = NextIndex(@, body.index),
                  !.owed   = IF cheque.unlocked THEN @ + body.amount ELSE @,
                  !.pTotal = IF cheque.unlocked THEN @ ELSE @ - body.amount,
                  !.pends  = IF cheque.unlocked THEN @ ELSE Tail(@)]
    BY <2>2
  <2>. QED
    BY <2>1, <2>3
<1>5. failed \in RespondMidways(P) /\ ~failed.ok
  BY DEF RespondMidways
<1>. HIDE DEF reduced, next
<1>6. reduced \in [ok : BOOLEAN, owed : Nat, useds : Seq(UsedRecords), at : Points, pTotal : Int, pends : Seq(P)]
  BY <1>2 DEF RespondMidways
<1>7. holds => at \in Points /\ owed \in Nat /\ pTotal \in Int /\ pends \in Seq(P)
  <2>. SUFFICES ASSUME holds PROVE at \in Points /\ owed \in Nat /\ pTotal \in Int /\ pends \in Seq(P)
    OBVIOUS
  <2>1. IsUnaccounted(reduced.at, body.index) /\ reduced.at \in Points
    BY <1>6
  <2>2. at \in Points
    BY <1>1, <2>1, NextIndexAccounts
  <2>3. owed \in Nat /\ pTotal \in Int
    BY <1>1, <1>6
  <2>4. cheque.unlocked \/ reduced.pends # <<>>
    BY <1>2
  <2>5. pends \in Seq(P)
    BY <1>6, <2>4
  <2>. QED
    BY <2>2, <2>3, <2>5
<1>8. holds => reduced.ok
  OBVIOUS
<1>9. pends = IF cheque.unlocked THEN acc.pends ELSE Tail(acc.pends)
  BY <1>2
<1>. HIDE DEF holds, goes, at, owed, pTotal, pends, failed
<1>10. holds => /\ more \in RespondMidways(P) /\ more.ok
                /\ more.useds = reduced.useds /\ more.at = at /\ more.owed = owed
                /\ more.pTotal = pTotal /\ more.pends = pends
  BY <1>6, <1>7, <1>8 DEF RespondMidways
<1>. HIDE DEF more
<1>11. /\ next \in RespondMidways(P) /\ (next.ok <=> goes)
       /\ next.ok => /\ next.useds = reduced.useds /\ next.at = at /\ next.owed = owed
                     /\ next.pTotal = pTotal /\ next.pends = pends
  BY <1>3, <1>4, <1>5, <1>10
<1>12. next.ok => RespondMovesTo(next, reduced, acc, cheque)
  BY <1>9, <1>11, Zenon DEF RespondMovesTo, at, owed, pTotal
<1>. QED
  BY <1>11, <1>12 DEF next, reduced, goes

\* A Respond's accumulator that has passed the index last, the first d of the
\* useds and the first f of the pendings.
RespondReaches(acc, last, d, f, useds, squash, pends) ==
    /\ acc.ok /\ PointAt(acc.at, squash, last)
    /\ IsPast(acc.useds, useds, d)
    /\ \A j \in DOMAIN useds : j > d <=> useds[j].index > last
    /\ IsPast(acc.pends, pends, f)

\* One more cheque of a response, after the index last, is as the reference
\* asks.
RespondCounting(cheque, last, f, signed, upper, useds, squash, pends) ==
    /\ last < cheque.body.index /\ ~IsSquashed(squash, cheque.body.index)
    /\ \A j \in DOMAIN useds :
          last < useds[j].index /\ useds[j].index <= cheque.body.index =>
              useds[j].index # cheque.body.index /\ ~IsSquashed(squash, useds[j].index)
    /\ IsShown(signed, upper, cheque)
    /\ cheque.unlocked \/ (f < Len(pends) /\ pends[f + 1] = PendOf(cheque.body))

\* What it adds to what is owed, and takes from what is pending.
RespondAdds(next, acc, cheque, d, e, w) ==
    /\ next.owed + SumOver(1..d, w)
          = acc.owed + SumOver(1..e, w) + (IF cheque.unlocked THEN cheque.body.amount ELSE 0)
    /\ next.pTotal = acc.pTotal - (IF cheque.unlocked THEN 0 ELSE cheque.body.amount)

LEMMA RespondStepIs ==
    ASSUME NEW P, NEW acc \in RespondMidways(P), NEW signed, NEW upper,
           NEW R, ChequeRecords(R), NEW cheque \in R,
           NEW useds \in Seq(UsedRecords), Ascending(useds), NEW squash, NEW pends \in Seq(P),
           NEW last \in Int, NEW d, NEW f, RespondReaches(acc, last, d, f, useds, squash, pends),
           NEW w, \A j \in DOMAIN useds : w[j] = useds[j].amount
    PROVE  LET next == RespondWith(signed, upper, acc, cheque)
           IN  /\ next.ok <=> RespondCounting(cheque, last, f, signed, upper, useds, squash, pends)
               /\ next.ok => \E e \in 0..Len(useds) :
                     /\ RespondReaches(next, cheque.body.index, e,
                                       IF cheque.unlocked THEN f ELSE f + 1, useds, squash, pends)
                     /\ RespondAdds(next, acc, cheque, d, e, w)
<1>. DEFINE next == RespondWith(signed, upper, acc, cheque)
            index == cheque.body.index
            reduced == UsedsUpTo(acc, index)
            top == Len(useds)
            takes == RespondCounting(cheque, last, f, signed, upper, useds, squash, pends)
            matched == cheque.unlocked \/ (acc.pends # <<>> /\ Head(acc.pends) = PendOf(cheque.body))
<1>1. /\ acc.ok /\ PointAt(acc.at, squash, last) /\ IsPast(acc.useds, useds, d)
      /\ \A j \in DOMAIN useds : j > d <=> useds[j].index > last
      /\ IsPast(acc.pends, pends, f)
  BY DEF RespondReaches
<1>2. cheque.unlocked \in BOOLEAN /\ index \in Nat /\ cheque.body.amount \in Nat
  BY DEF ChequeRecords
<1>3. /\ top \in Nat /\ DOMAIN useds = 1..top
      /\ \A j \in 1..top : useds[j] \in UsedRecords /\ useds[j].index \in Nat /\ useds[j].amount \in Nat
  <2>1. top \in Nat /\ DOMAIN useds = 1..top /\ \A j \in 1..top : useds[j] \in UsedRecords
    BY ListEntries
  <2>. QED
    BY <2>1 DEF UsedRecords
<1>4. reduced \in RespondMidways(P) /\ \E e : Reduces(reduced, acc, d, e, last, index, useds, squash, w)
  <2>. HIDE DEF index
  <2>. QED
    BY <1>1, <1>2, UsedsUpToIs
<1>5. PICK e : Reduces(reduced, acc, d, e, last, index, useds, squash, w)
  BY <1>4
<1>6. /\ next.ok <=> /\ reduced.ok /\ IsUnaccounted(reduced.at, index)
                     /\ IsShown(signed, upper, cheque) /\ matched
      /\ next.ok => RespondMovesTo(next, reduced, acc, cheque)
      /\ next \in RespondMidways(P)
  <2>. HIDE DEF next, reduced, index, matched
  <2>1. LET reached == UsedsUpTo(acc, cheque.body.index)
            moved == RespondWith(signed, upper, acc, cheque)
        IN  /\ moved \in RespondMidways(P)
            /\ moved.ok <=> /\ reached.ok /\ IsUnaccounted(reached.at, cheque.body.index)
                            /\ IsShown(signed, upper, cheque)
                            /\ cheque.unlocked \/ (acc.pends # <<>> /\ Head(acc.pends) = PendOf(cheque.body))
            /\ moved.ok => RespondMovesTo(moved, reached, acc, cheque)
    BY RespondWithIs
  <2>. QED
    BY <2>1 DEF next, reduced, index, matched
<1>7. reduced.pends = acc.pends /\ acc.pends \in Seq(P)
  BY <1>5 DEF Reduces, RespondMidways
<1>8. /\ acc.pends # <<>> <=> f < Len(pends)
      /\ acc.pends # <<>> => Head(acc.pends) = pends[f + 1] /\ IsPast(Tail(acc.pends), pends, f + 1)
  BY <1>1, <1>7, PastFirst
<1>. HIDE DEF next, reduced, index, top
<1>9. /\ e \in d..top /\ d \in 0..top /\ IsPast(reduced.useds, useds, e)
      /\ \A j \in DOMAIN useds : j > d => (j <= e <=> useds[j].index <= index)
      /\ reduced.ok <=> \A j \in (d + 1)..e : ~IsSquashed(squash, useds[j].index)
      /\ reduced.ok => /\ PointAt(reduced.at, squash, IF e = d THEN last ELSE useds[e].index)
                       /\ reduced.owed + SumOver(1..d, w) = acc.owed + SumOver(1..e, w)
      /\ reduced.pTotal = acc.pTotal
  BY <1>1, <1>5 DEF Reduces, IsPast, top
<1>. DEFINE reach == IF e = d THEN last ELSE useds[e].index
            Passing(j) == last < useds[j].index /\ useds[j].index <= index
<1>10. \A j \in 1..top : j \in (d + 1)..e <=> Passing(j)
  <2>. SUFFICES ASSUME NEW j \in 1..top PROVE j \in (d + 1)..e <=> Passing(j)
    OBVIOUS
  <2>1. j > d <=> useds[j].index > last
    BY <1>1, <1>3
  <2>2. j > d => (j <= e <=> useds[j].index <= index)
    BY <1>3, <1>9
  <2>3. e \in Nat /\ d \in Nat /\ j \in Nat /\ useds[j].index \in Nat
    BY <1>3, <1>9
  <2>4. j \in (d + 1)..e <=> j > d /\ j <= e
    BY <2>3
  <2>5. useds[j].index > last <=> last < useds[j].index
    BY <2>3
  <2>. QED
    BY <2>1, <2>2, <2>4, <2>5
<1>11. reach \in Int /\ (reach < index <=> last < index /\ \A j \in 1..top : Passing(j) => useds[j].index # index)
  <2>1. CASE e = d
    <3>1. \A j \in 1..top : ~Passing(j)
      <4>1. \A j \in 1..top : ~(j \in (d + 1)..e)
        BY <1>9, <2>1
      <4>. QED
        BY <1>10, <4>1
    <3>. QED
      BY <2>1, <3>1
  <2>2. CASE e # d
    <3>1. e \in 1..top /\ e \in (d + 1)..e
      BY <1>3, <1>9, <2>2
    <3>2. last < useds[e].index /\ useds[e].index <= index /\ useds[e].index \in Nat
      BY <1>3, <1>10, <3>1
    <3>3. last < index
      BY <1>2, <3>2
    <3>4. ASSUME NEW j \in 1..top, Passing(j) PROVE useds[j].index <= useds[e].index
      <4>1. j \in (d + 1)..e
        BY <1>10, <3>4
      <4>2. j = e \/ j < e
        BY <1>9, <4>1
      <4>3. j < e => useds[j].index < useds[e].index
        BY <1>3, <3>1 DEF Ascending
      <4>4. useds[j].index \in Nat
        BY <1>3
      <4>. QED
        BY <3>2, <4>2, <4>3, <4>4
    <3>5. reach = useds[e].index
      BY <2>2
    <3>6. ASSUME reach < index, NEW j \in 1..top, Passing(j) PROVE useds[j].index # index
      <4>1. useds[j].index <= useds[e].index /\ useds[j].index \in Nat
        BY <1>3, <3>4, <3>6
      <4>. QED
        BY <1>2, <3>2, <3>5, <3>6, <4>1
    <3>7. ASSUME \A j \in 1..top : Passing(j) => useds[j].index # index PROVE reach < index
      <4>1. Passing(e)
        BY <1>10, <3>1
      <4>2. useds[e].index # index
        BY <3>1, <3>7, <4>1
      <4>. QED
        BY <1>2, <3>2, <3>5, <4>2
    <3>. HIDE DEF reach
    <3>8. reach \in Int
      BY <3>2, <3>5
    <3>. QED
      BY <3>3, <3>6, <3>7, <3>8
  <2>. QED
    BY <2>1, <2>2
<1>12. reduced.ok <=> \A j \in 1..top : Passing(j) => ~IsSquashed(squash, useds[j].index)
  <2>1. \A j \in (d + 1)..e : j \in 1..top
    BY <1>3, <1>9
  <2>. HIDE DEF Passing
  <2>. QED
    BY <1>9, <1>10, <2>1
<1>. HIDE DEF reach
<1>13. reduced.ok => (IsUnaccounted(reduced.at, index) <=> reach < index /\ ~IsSquashed(squash, index))
  <2>1. reduced.ok => PointAt(reduced.at, squash, reach)
    BY <1>9 DEF reach
  <2>. QED
    BY <1>2, <2>1 DEF PointAt
<1>14. matched <=> cheque.unlocked \/ (f < Len(pends) /\ pends[f + 1] = PendOf(cheque.body))
  BY <1>8
<1>15. takes <=> /\ last < index /\ ~IsSquashed(squash, index)
                 /\ \A j \in 1..top : Passing(j) => useds[j].index # index /\ ~IsSquashed(squash, useds[j].index)
                 /\ IsShown(signed, upper, cheque) /\ matched
  <2>. HIDE DEF matched
  <2>. QED
    BY <1>3, <1>14 DEF RespondCounting, index
<1>. HIDE DEF takes, matched, Passing
<1>16. next.ok <=> takes
  BY <1>6, <1>11, <1>12, <1>13, <1>15
<1>17. ASSUME next.ok
       PROVE  \E g \in 0..top :
                     /\ RespondReaches(next, index, g,
                                       IF cheque.unlocked THEN f ELSE f + 1, useds, squash, pends)
                     /\ RespondAdds(next, acc, cheque, d, g, w)
  <2>1. RespondMovesTo(next, reduced, acc, cheque) /\ reduced.ok /\ IsUnaccounted(reduced.at, index) /\ matched
    BY <1>6, <1>17
  <2>2. last < index
    BY <1>15, <1>16, <1>17
  <2>3. PointAt(next.at, squash, index)
    <3>1. PointAt(reduced.at, squash, reach)
      BY <1>9, <2>1 DEF reach
    <3>2. PointAt(NextIndex(reduced.at, index), squash, index)
      BY <1>2, <1>11, <2>1, <3>1, PointMoves
    <3>. QED
      BY <2>1, <3>2 DEF RespondMovesTo, index
  <2>4. IsPast(next.useds, useds, e)
    BY <1>9, <2>1 DEF RespondMovesTo
  <2>5. \A j \in DOMAIN useds : j > e <=> useds[j].index > index
    <3>. SUFFICES ASSUME NEW j \in 1..top PROVE j > e <=> useds[j].index > index
      BY <1>3
    <3>1. e \in Nat /\ d \in Nat /\ j \in Nat /\ useds[j].index \in Nat /\ d <= e
      BY <1>3, <1>9
    <3>2. j > d <=> useds[j].index > last
      BY <1>1, <1>3
    <3>3. j > d => (j <= e <=> useds[j].index <= index)
      BY <1>3, <1>9
    <3>4. CASE j > d
      BY <1>2, <3>1, <3>3, <3>4
    <3>5. CASE ~(j > d)
      <4>1. ~(useds[j].index > last)
        BY <3>2, <3>5
      <4>2. ~(useds[j].index > index)
        BY <1>2, <2>2, <3>1, <4>1
      <4>. QED
        BY <3>1, <3>5, <4>2
    <3>. QED
      BY <3>4, <3>5
  <2>6. IsPast(next.pends, pends, IF cheque.unlocked THEN f ELSE f + 1)
    BY <1>1, <1>8, <2>1 DEF RespondMovesTo, matched
  <2>7. RespondReaches(next, index, e, IF cheque.unlocked THEN f ELSE f + 1, useds, squash, pends)
    BY <1>17, <2>3, <2>4, <2>5, <2>6 DEF RespondReaches
  <2>8. RespondAdds(next, acc, cheque, d, e, w)
    <3>0. SumOver(1..d, w) \in Nat /\ SumOver(1..e, w) \in Nat
      <4>1. top \in Nat /\ \A j \in 1..top : w[j] \in Nat
        BY <1>3
      <4>2. d \in 0..top /\ e \in 0..top
        BY <1>3, <1>9
      <4>. QED
        BY <4>1, <4>2, PrefixIsNat
    <3>1. PICK a \in Int, r \in Int, s \in Int, t \in Int, m \in Int :
             a = acc.owed /\ r = reduced.owed /\ s = SumOver(1..d, w) /\ t = SumOver(1..e, w) /\ m = cheque.body.amount
      <4>1. acc.owed \in Int /\ reduced.owed \in Int
        BY <1>4 DEF RespondMidways
      <4>. QED
        BY <1>2, <3>0, <4>1
    <3>2. r + s = a + t
      BY <1>9, <2>1, <3>1, Zenon
    <3>3. (IF cheque.unlocked THEN r + m ELSE r) + s = a + t + (IF cheque.unlocked THEN m ELSE 0)
      BY ONLY <3>2
    <3>4. next.owed = IF cheque.unlocked THEN r + m ELSE r
      BY <2>1, <3>1, Zenon DEF RespondMovesTo
    <3>5. next.owed + SumOver(1..d, w)
             = acc.owed + SumOver(1..e, w) + (IF cheque.unlocked THEN cheque.body.amount ELSE 0)
      BY <3>1, <3>3, <3>4, Zenon
    <3>6. next.pTotal = acc.pTotal - (IF cheque.unlocked THEN 0 ELSE cheque.body.amount)
      <4>1. acc.pTotal \in Int
        BY DEF RespondMidways
      <4>2. next.pTotal = IF cheque.unlocked THEN acc.pTotal ELSE acc.pTotal - cheque.body.amount
        BY <1>9, <2>1, Zenon DEF RespondMovesTo
      <4>. QED
        BY <1>2, <4>1, <4>2
    <3>. QED
      BY <3>5, <3>6 DEF RespondAdds
  <2>9. e \in 0..top
    BY <1>3, <1>9
  <2>. QED
    BY <2>7, <2>8, <2>9
<1>. QED
  BY <1>16, <1>17 DEF next, takes, index, top

\* A walk over the cheques of a Respond, one after the other.
IsRespondWalk(h, n, P, signed, upper, cheques) ==
    /\ \A k \in 0..n : h[k] \in RespondMidways(P)
    /\ \A k \in 1..n : h[k] = RespondWith(signed, upper, h[k - 1], cheques[k])

IsRespondRun(h, n, P, signed, upper, useds, squash, cheques, total, pends) ==
    /\ IsRespondWalk(h, n, P, signed, upper, cheques)
    /\ h[0] = RespondBefore(signed, useds, squash, total, pends)
    /\ RespondAccount(signed, upper, useds, squash, cheques, total, pends)
          = [h[n] EXCEPT !.ok = @ /\ PendingsAccounted(h[n])]

LEMMA RespondAccountSteps ==
    ASSUME NEW P, NEW signed, NEW upper, NEW useds, NEW squash, NEW total, NEW pends,
           NEW R, ChequeRecords(R), NEW n \in Nat, NEW cheques,
           DOMAIN cheques = 1..n, \A k \in 1..n : cheques[k] \in R,
           RespondBefore(signed, useds, squash, total, pends) \in RespondMidways(P)
    PROVE  \E h : IsRespondRun(h, n, P, signed, upper, useds, squash, cheques, total, pends)
<1>. DEFINE State == RespondMidways(P)
            base == RespondBefore(signed, useds, squash, total, pends)
            F(iter) == [s \in SUBSET (1..n) |->
                          IF s = {} THEN base
                          ELSE RespondWith(signed, upper, iter[s \ {Max(s)}], cheques[Max(s)])]
            step == [q \in State \X (1..n) |-> RespondWith(signed, upper, q[1], cheques[q[2]])]
            it == CHOOSE iter : iter = F(iter)
            end == it[1..n]
            account == RespondAccount(signed, upper, useds, squash, cheques, total, pends)
<1>1. account = [end EXCEPT !.ok = @ /\ PendingsAccounted(end)]
  BY DEF RespondAccount, RespondBefore, FoldLeft, MapThenFoldSet
<1>. HIDE DEF account
<1>2. base \in State
  OBVIOUS
<1>. HIDE DEF base
<1>3. \A a \in State : \A k \in 1..n : RespondWith(signed, upper, a, cheques[k]) \in State
  BY RespondWithIs
<1>. HIDE DEF State
<1>4. step \in [State \X (1..n) -> State]
  BY <1>3
<1>5. PICK walk : IsWalk(walk, n, State, base, step)
  <2>. HIDE DEF step
  <2>. QED
    BY <1>2, <1>4, WalkExists
<1>6. ASSUME NEW s \in SUBSET (1..n), s # {}
      PROVE  walk[s] = RespondWith(signed, upper, walk[s \ {Max(s)}], cheques[Max(s)])
  <2>1. Max(s) \in 1..n /\ s \ {Max(s)} \in SUBSET (1..n)
    BY <1>6, MaxIsIn
  <2>2. walk[s] = step[<<walk[s \ {Max(s)}], Max(s)>>] /\ walk[s \ {Max(s)}] \in State
    <3>. HIDE DEF step
    <3>. QED
      BY <1>5, <1>6, <2>1 DEF IsWalk
  <2>. QED
    BY <2>1, <2>2
<1>7. walk = F(walk)
  BY <1>5, <1>6 DEF IsWalk
<1>8. it = F(it)
  <2>. HIDE DEF F
  <2>. QED
    BY <1>7
<1>. HIDE DEF it
<1>9. \A s \in SUBSET (1..n) :
          it[s] = IF s = {} THEN base ELSE RespondWith(signed, upper, it[s \ {Max(s)}], cheques[Max(s)])
  BY <1>8
<1>. DEFINE h == [k \in 0..n |-> it[1..k]]
<1>10. h[0] = base
  <2>1. h[0] = it[1..0] /\ 1..0 = {}
    OBVIOUS
  <2>2. it[{}] = base
    BY <1>9
  <2>. HIDE DEF h
  <2>. QED
    BY <2>1, <2>2
<1>11. ASSUME NEW k \in 1..n PROVE h[k] = RespondWith(signed, upper, h[k - 1], cheques[k])
  <2>1. h[k] = it[1..k] /\ h[k - 1] = it[1..(k - 1)]
    OBVIOUS
  <2>2. 1..k \in SUBSET (1..n)
    OBVIOUS
  <2>3. Max(1..k) = k /\ (1..k) \ {k} = 1..(k - 1) /\ 1..k # {}
    <3>1. k \in Nat \ {0}
      OBVIOUS
    <3>. QED
      BY <3>1, MaxOfFirst
  <2>4. it[1..k] = RespondWith(signed, upper, it[1..(k - 1)], cheques[k])
    BY <1>9, <2>2, <2>3
  <2>. HIDE DEF h
  <2>. QED
    BY <2>1, <2>4
<1>12. h[n] = end
  OBVIOUS
<1>. HIDE DEF h, end
<1>13. \A k \in 0..n : h[k] \in State
  <2>. DEFINE T == {k \in 0..n : h[k] \in State}
  <2>1. 0 \in T
    BY <1>2, <1>10
  <2>2. \A k \in 1..n : k - 1 \in T => k \in T
    BY <1>3, <1>11
  <2>3. \A k \in 0..n : k \in T
    <3>. HIDE DEF T
    <3>. QED
      BY <2>1, <2>2, Climb
  <2>. QED
    BY <2>3
<1>14. IsRespondWalk(h, n, P, signed, upper, cheques)
  BY <1>11, <1>13 DEF IsRespondWalk, State
<1>15. account = [h[n] EXCEPT !.ok = @ /\ PendingsAccounted(h[n])]
  BY <1>1, <1>12
<1>16. IsRespondRun(h, n, P, signed, upper, useds, squash, cheques, total, pends)
  BY <1>10, <1>14, <1>15, Zenon DEF base, account, IsRespondRun
<1>. QED
  BY <1>16

\* The places of the locked cheques of a Respond, and what they all say.
LockedIn(cheques) == {k \in DOMAIN cheques : ~cheques[k].unlocked}
BodiesOf(cheques) == [k \in DOMAIN cheques |-> cheques[k].body]

\* The k-th cheque stands as the reference asks.
RespondAllows(k, signed, upper, useds, squash, cheques, pends) ==
    RespondCounting(cheques[k], IndexBefore(BodiesOf(cheques), k), RankIn(LockedIn(cheques), k - 1),
                 signed, upper, useds, squash, pends)

\* What each entry of the lists counts for.
WorthOf(list) == [k \in DOMAIN list |-> list[k].amount]
UnlockedWorth(cheques) ==
    [k \in DOMAIN cheques |-> IF cheques[k].unlocked THEN cheques[k].body.amount ELSE 0]

\* Where the walk stands when it has come through the first k cheques, after
\* the index last and f pendings.
RespondStands(acc, k, last, f, useds, squash, cheques, total, pends) ==
    \E d \in 0..Len(useds) :
        /\ RespondReaches(acc, last, d, f, useds, squash, pends)
        /\ acc.owed = squash.amount + SumOver(1..d, WorthOf(useds)) + SumOver(1..k, UnlockedWorth(cheques))
        /\ acc.pTotal = total - SumOver(1..f, WorthOf(pends))

LEMMA RespondStandsOn ==
    ASSUME NEW P, HaveAmounts(P), NEW acc \in RespondMidways(P), NEW signed, NEW upper,
           NEW R, ChequeRecords(R), NEW cheques \in Seq(R), NEW k \in 1..Len(cheques),
           NEW useds \in Seq(UsedRecords), Ascending(useds), NEW squash, squash.amount \in Nat,
           NEW total \in Int, NEW pends \in Seq(P), NEW last \in Int, NEW f,
           RespondStands(acc, k - 1, last, f, useds, squash, cheques, total, pends)
    PROVE  LET next == RespondWith(signed, upper, acc, cheques[k])
           IN  /\ next.ok <=> RespondCounting(cheques[k], last, f, signed, upper, useds, squash, pends)
               /\ next.ok => RespondStands(next, k, cheques[k].body.index,
                                           IF cheques[k].unlocked THEN f ELSE f + 1,
                                           useds, squash, cheques, total, pends)
<1>. DEFINE cheque == cheques[k]
            next == RespondWith(signed, upper, acc, cheque)
            takes == RespondCounting(cheque, last, f, signed, upper, useds, squash, pends)
            u == WorthOf(useds)
            c == UnlockedWorth(cheques)
            p == WorthOf(pends)
            top == Len(useds)
            g == IF cheque.unlocked THEN f ELSE f + 1
<1>1. /\ cheque \in R /\ cheque.unlocked \in BOOLEAN /\ cheque.body.amount \in Nat
      /\ k \in Nat /\ Len(cheques) \in Nat /\ DOMAIN cheques = 1..Len(cheques)
      /\ \A j \in 1..Len(cheques) : c[j] = (IF cheques[j].unlocked THEN cheques[j].body.amount ELSE 0) /\ c[j] \in Nat
  <2>1. /\ Len(cheques) \in Nat /\ DOMAIN cheques = 1..Len(cheques)
        /\ \A j \in 1..Len(cheques) : cheques[j] \in R
    BY ListEntries
  <2>. QED
    BY <2>1 DEF ChequeRecords, UnlockedWorth
<1>2. /\ top \in Nat /\ DOMAIN useds = 1..top
      /\ \A j \in 1..top : u[j] = useds[j].amount /\ u[j] \in Nat
  <2>1. top \in Nat /\ DOMAIN useds = 1..top /\ \A j \in 1..top : useds[j] \in UsedRecords
    BY ListEntries
  <2>. QED
    BY <2>1 DEF UsedRecords, WorthOf
<1>3. /\ Len(pends) \in Nat /\ DOMAIN pends = 1..Len(pends)
      /\ \A j \in 1..Len(pends) : p[j] = pends[j].amount /\ p[j] \in Nat
  <2>1. Len(pends) \in Nat /\ DOMAIN pends = 1..Len(pends) /\ \A j \in 1..Len(pends) : pends[j] \in P
    BY ListEntries
  <2>. QED
    BY <2>1 DEF HaveAmounts, WorthOf
<1>. HIDE DEF u, c, p
<1>4. PICK d \in 0..top :
         /\ RespondReaches(acc, last, d, f, useds, squash, pends)
         /\ acc.owed = squash.amount + SumOver(1..d, u) + SumOver(1..(k - 1), c)
         /\ acc.pTotal = total - SumOver(1..f, p)
  BY DEF RespondStands, u, c, p
<1>. HIDE DEF top
<1>5. \A j \in DOMAIN useds : u[j] = useds[j].amount
  BY <1>2
<1>6. /\ next.ok <=> takes
      /\ next.ok => \E e \in 0..top :
            /\ RespondReaches(next, cheque.body.index, e, g, useds, squash, pends)
            /\ RespondAdds(next, acc, cheque, d, e, u)
  <2>1. cheque \in R
    BY <1>1
  <2>. HIDE DEF cheque
  <2>2. LET moved == RespondWith(signed, upper, acc, cheque)
        IN  /\ moved.ok <=> RespondCounting(cheque, last, f, signed, upper, useds, squash, pends)
            /\ moved.ok => \E e \in 0..Len(useds) :
                  /\ RespondReaches(moved, cheque.body.index, e,
                                    IF cheque.unlocked THEN f ELSE f + 1, useds, squash, pends)
                  /\ RespondAdds(moved, acc, cheque, d, e, u)
    BY <1>4, <1>5, <2>1, RespondStepIs
  <2>. QED
    BY <2>2 DEF top
<1>. HIDE DEF cheque, next, takes
<1>7. ASSUME next.ok
      PROVE  RespondStands(next, k, cheque.body.index, g, useds, squash, cheques, total, pends)
  <2>1. PICK e \in 0..top : /\ RespondReaches(next, cheque.body.index, e, g, useds, squash, pends)
                            /\ RespondAdds(next, acc, cheque, d, e, u)
    BY <1>6, <1>7
  <2>2. PICK A \in Int, D \in Nat, E \in Nat, C \in Nat, M \in Nat, S \in Nat :
           /\ A = acc.owed /\ D = SumOver(1..d, u) /\ E = SumOver(1..e, u)
           /\ C = SumOver(1..(k - 1), c) /\ M = c[k] /\ S = squash.amount
    <3>1. SumOver(1..d, u) \in Nat /\ SumOver(1..e, u) \in Nat
      <4>1. IsFiniteSet(1..top)
        BY <1>2, FS_Interval
      <4>2. 1..d \in SUBSET (1..top) /\ 1..e \in SUBSET (1..top) /\ \A j \in 1..top : u[j] \in Nat
        BY <1>2
      <4>. QED
        BY <4>1, <4>2, SumType
    <3>2. SumOver(1..(k - 1), c) \in Nat
      BY <1>1, PrefixSums
    <3>3. acc.owed \in Int
      BY DEF RespondMidways
    <3>. QED
      BY <1>1, <3>1, <3>2, <3>3
  <2>3. SumOver(1..k, c) = M + C
    <3>1. SumOver(1..k, c) = c[k] + SumOver(1..(k - 1), c)
      BY <1>1, PrefixSums
    <3>. QED
      BY <2>2, <3>1
  <2>4. next.owed + D = A + E + M
    <3>1. next.owed + SumOver(1..d, u)
             = acc.owed + SumOver(1..e, u) + (IF cheque.unlocked THEN cheque.body.amount ELSE 0)
      BY <2>1 DEF RespondAdds
    <3>2. M = IF cheque.unlocked THEN cheque.body.amount ELSE 0
      BY <1>1, <2>2 DEF cheque
    <3>. QED
      BY <2>2, <3>1, <3>2, Zenon
  <2>5. A = S + D + C
    BY <1>4, <2>2, Zenon
  <2>6. next.owed = S + E + (M + C)
    <3>1. next.owed \in Int
      <4>1. next \in RespondMidways(P)
        BY <1>1, RespondWithIs DEF next
      <4>. QED
        BY <4>1 DEF RespondMidways
    <3>2. PICK N \in Int : N = next.owed
      BY <3>1
    <3>3. N + D = A + E + M
      BY <2>4, <3>2, Zenon
    <3>4. N = S + E + (M + C)
      BY ONLY <2>5, <3>3
    <3>. QED
      BY <3>2, <3>4, Zenon
  <2>7. next.owed = squash.amount + SumOver(1..e, u) + SumOver(1..k, c)
    BY <2>2, <2>3, <2>6, Zenon
  <2>8. next.pTotal = total - SumOver(1..g, p)
    <3>1. next.pTotal = acc.pTotal - (IF cheque.unlocked THEN 0 ELSE cheque.body.amount)
      BY <2>1 DEF RespondAdds
    <3>2. f \in 0..Len(pends)
      BY <1>4 DEF RespondReaches, IsPast
    <3>3. SumOver(1..f, p) \in Nat
      <4>1. IsFiniteSet(1..Len(pends))
        BY <1>3, FS_Interval
      <4>2. 1..f \in SUBSET (1..Len(pends)) /\ \A j \in 1..Len(pends) : p[j] \in Nat
        BY <1>3, <3>2
      <4>. QED
        BY <4>1, <4>2, SumType
    <3>4. CASE cheque.unlocked
      <4>1. acc.pTotal \in Int
        BY DEF RespondMidways
      <4>. QED
        BY <1>4, <3>1, <3>4, <4>1
    <3>5. CASE ~cheque.unlocked
      <4>1. f < Len(pends) /\ pends[f + 1] = PendOf(cheque.body)
        BY <1>6, <1>7, <3>5 DEF takes, RespondCounting
      <4>2. f + 1 \in 1..Len(pends) /\ (f + 1) - 1 = f
        BY <1>3, <3>2, <4>1
      <4>3. SumOver(1..(f + 1), p) = p[f + 1] + SumOver(1..f, p)
        BY <1>3, <4>2, PrefixSums
      <4>4. p[f + 1] = cheque.body.amount
        BY <1>3, <4>1, <4>2 DEF PendOf
      <4>5. PICK F \in Nat, B \in Nat : F = SumOver(1..f, p) /\ B = cheque.body.amount
        BY <1>1, <3>3
      <4>6. next.pTotal = total - F - B
        BY <1>4, <3>1, <3>5, <4>5, Zenon
      <4>7. SumOver(1..g, p) = B + F
        BY <3>5, <4>3, <4>4, <4>5, Zenon
      <4>8. total - F - B = total - (B + F)
        BY ONLY total \in Int
      <4>. QED
        BY <4>6, <4>7, <4>8, Zenon
    <3>. QED
      BY <1>1, <3>4, <3>5
  <2>. QED
    BY <2>1, <2>7, <2>8 DEF RespondStands, u, c, p, top
<1>. QED
  BY <1>6, <1>7 DEF next, takes, cheque

\* What the walk of a Respond says when it ends.
RespondSays(account, signed, upper, useds, squash, cheques, total, pends) ==
    /\ account.ok <=> /\ squash \in signed
                      /\ \A j \in DOMAIN cheques :
                            RespondAllows(j, signed, upper, useds, squash, cheques, pends)
                      /\ Len(pends) = Cardinality(LockedIn(cheques)) /\ total = ListTotal(pends)
    /\ account.ok => \E d \in 0..Len(useds) :
          /\ \A j \in DOMAIN useds : j > d <=> useds[j].index > FinalIndex(cheques)
          /\ account.owed = squash.amount + SumOver(1..d, WorthOf(useds))
                                          + SumOver(1..Len(cheques), UnlockedWorth(cheques))

LEMMA RespondAccountIs ==
    ASSUME NEW P, HaveAmounts(P), NEW signed, NEW upper,
           NEW R, ChequeRecords(R), NEW cheques \in Seq(R),
           NEW useds \in Seq(UsedRecords), Ascending(useds), NEW squash, IsSquash(squash),
           NEW total \in Int, NEW pends \in Seq(P)
    PROVE  RespondSays(RespondAccount(signed, upper, useds, squash, cheques, total, pends),
                       signed, upper, useds, squash, cheques, total, pends)
<1>. DEFINE n == Len(cheques)
            account == RespondAccount(signed, upper, useds, squash, cheques, total, pends)
            base == RespondBefore(signed, useds, squash, total, pends)
            locked == LockedIn(cheques)
            Allows(j) == RespondAllows(j, signed, upper, useds, squash, cheques, pends)
            last(k) == IndexBefore(BodiesOf(cheques), k + 1)
            Stands(acc, k) == RespondStands(acc, k, last(k), RankIn(locked, k), useds, squash, cheques, total, pends)
<1>1. /\ n \in Nat /\ DOMAIN cheques = 1..n
      /\ \A k \in 1..n : /\ cheques[k] \in R /\ cheques[k].body.index \in Nat
                         /\ cheques[k].unlocked \in BOOLEAN
  <2>1. n \in Nat /\ DOMAIN cheques = 1..n /\ \A k \in 1..n : cheques[k] \in R
    BY ListEntries
  <2>. QED
    BY <2>1 DEF ChequeRecords
<1>. HIDE DEF n
<1>2. squash.amount \in Nat
  BY DEF IsSquash
<1>3. /\ base \in RespondMidways(P) /\ base.ok = (squash \in signed) /\ base.owed = squash.amount
      /\ base.useds = useds /\ base.at = StartOf(squash) /\ base.pTotal = total /\ base.pends = pends
  <2>1. StartOf(squash) \in Points /\ (squash \in signed) \in BOOLEAN
    BY PointStarts DEF PointAt
  <2>2. base = [ok |-> (squash \in signed), owed |-> squash.amount, useds |-> useds,
                at |-> StartOf(squash), pTotal |-> total, pends |-> pends]
    BY DEF RespondBefore, StartOf
  <2>. HIDE DEF base
  <2>. QED
    BY <1>2, <2>1, <2>2 DEF RespondMidways
<1>4. PICK h : /\ IsRespondWalk(h, n, P, signed, upper, cheques) /\ h[0] = base
               /\ account = [h[n] EXCEPT !.ok = @ /\ PendingsAccounted(h[n])]
  <2>1. RespondBefore(signed, useds, squash, total, pends) \in RespondMidways(P)
    BY <1>3
  <2>2. \A k \in 1..n : cheques[k] \in R
    BY <1>1
  <2>3. \E h : IsRespondRun(h, n, P, signed, upper, useds, squash, cheques, total, pends)
    <3>. HIDE DEF base, account
    <3>1. n \in Nat /\ DOMAIN cheques = 1..n
      BY <1>1
    <3>. QED
      BY <2>1, <2>2, <3>1, RespondAccountSteps
  <2>. QED
    BY <2>3, Zenon DEF IsRespondRun
<1>5. /\ \A k \in 0..n : h[k] \in RespondMidways(P)
      /\ \A k \in 1..n : h[k] = RespondWith(signed, upper, h[k - 1], cheques[k])
  BY <1>4 DEF IsRespondWalk
<1>. HIDE DEF account, base
<1>6. locked \in SUBSET (1..n) /\ \A k \in 1..n : k \in locked <=> ~cheques[k].unlocked
  BY <1>1 DEF LockedIn
<1>7. /\ RankIn(locked, 0) = 0 /\ RankIn(locked, n) = Cardinality(locked)
      /\ \A k \in 0..n : RankIn(locked, k) \in Nat
      /\ \A k \in 1..n : RankIn(locked, k) = RankIn(locked, k - 1) + (IF k \in locked THEN 1 ELSE 0)
  <2>. HIDE DEF locked
  <2>. QED
    BY <1>1, <1>6, RankSteps
<1>8. last(0) = -1 /\ \A k \in 1..n : /\ last(k) = cheques[k].body.index /\ last(k - 1) \in Int
                                      /\ last(k - 1) = IndexBefore(BodiesOf(cheques), k)
  <2>1. last(0) = -1
    BY DEF IndexBefore
  <2>2. ASSUME NEW k \in 1..n
        PROVE  /\ last(k) = cheques[k].body.index /\ last(k - 1) \in Int
               /\ last(k - 1) = IndexBefore(BodiesOf(cheques), k)
    <3>1. k + 1 # 1 /\ (k + 1) - 1 = k /\ (k - 1) + 1 = k
      BY <1>1
    <3>2. k = 1 \/ k - 1 \in 1..n
      BY <1>1
    <3>3. \A j \in 1..n : BodiesOf(cheques)[j].index = cheques[j].body.index
      BY <1>1 DEF BodiesOf
    <3>. QED
      BY <1>1, <3>1, <3>2, <3>3 DEF IndexBefore
  <2>. QED
    BY <2>1, <2>2
<1>. HIDE DEF last
<1>9. \A k \in 1..n : Allows(k) <=> RespondCounting(cheques[k], last(k - 1), RankIn(locked, k - 1),
                                               signed, upper, useds, squash, pends)
  BY <1>8 DEF RespondAllows, locked
<1>. HIDE DEF locked, Allows
<1>. DEFINE Goes(k) == squash \in signed /\ \A j \in 1..k : Allows(j)
            T == {k \in 0..n : (h[k].ok <=> Goes(k)) /\ (h[k].ok => Stands(h[k], k))}
<1>10. 0 \in T
  <2>1. h[0].ok <=> Goes(0)
    <3>1. base.ok <=> squash \in signed
      BY <1>3
    <3>2. 1..0 = {}
      OBVIOUS
    <3>. QED
      BY <1>4, <3>1, <3>2
  <2>2. ASSUME h[0].ok PROVE Stands(h[0], 0)
    <3>1. RespondReaches(h[0], -1, 0, 0, useds, squash, pends)
      <4>1. Len(useds) \in Nat /\ Len(pends) \in Nat
            /\ \A j \in DOMAIN useds : j > 0 /\ useds[j].index > -1
        <5>1. Len(useds) \in Nat /\ Len(pends) \in Nat /\ \A j \in DOMAIN useds : j > 0 /\ useds[j] \in UsedRecords
          OBVIOUS
        <5>. QED
          BY <5>1 DEF UsedRecords
      <4>2. IsPast(useds, useds, 0) /\ IsPast(pends, pends, 0)
        BY <4>1 DEF IsPast
      <4>3. PointAt(StartOf(squash), squash, -1)
        BY PointStarts
      <4>4. h[0].at = StartOf(squash) /\ h[0].useds = useds /\ h[0].pends = pends
        BY <1>3, <1>4
      <4>. QED
        BY <2>2, <4>1, <4>2, <4>3, <4>4 DEF RespondReaches
    <3>2. 1..0 = {} /\ SumOver(1..0, WorthOf(useds)) = 0 /\ SumOver(1..0, UnlockedWorth(cheques)) = 0
          /\ SumOver(1..0, WorthOf(pends)) = 0
      <4>1. 1..0 = {} /\ IsFiniteSet({})
        BY FS_EmptySet
      <4>2. \A w : SumOver({}, w) = 0
        BY <4>1, SumPicks
      <4>. QED
        BY <4>1, <4>2
    <3>3. h[0].owed = squash.amount /\ h[0].pTotal = total
      BY <1>3, <1>4
    <3>4. /\ h[0].owed = squash.amount + SumOver(1..0, WorthOf(useds)) + SumOver(1..0, UnlockedWorth(cheques))
          /\ h[0].pTotal = total - SumOver(1..0, WorthOf(pends))
      BY <1>2, <3>2, <3>3
    <3>5. 0 \in 0..Len(useds)
      OBVIOUS
    <3>. QED
      BY <1>7, <1>8, <3>1, <3>4, <3>5 DEF RespondStands
  <2>. HIDE DEF Goes, Stands
  <2>. QED
    BY <1>1, <2>1, <2>2
<1>11. ASSUME NEW k \in 1..n, k - 1 \in T PROVE k \in T
  <2>. DEFINE acc == h[k - 1]
  <2>1. k - 1 \in 0..n /\ k \in 0..n /\ 1..k = (1..(k - 1)) \cup {k}
    BY <1>1
  <2>2. /\ acc \in RespondMidways(P) /\ h[k] = RespondWith(signed, upper, acc, cheques[k])
        /\ acc.ok <=> Goes(k - 1)
        /\ acc.ok => Stands(acc, k - 1)
    <3>. HIDE DEF Goes, Stands
    <3>. QED
      BY <1>5, <1>11, <2>1
  <2>3. Goes(k) <=> Goes(k - 1) /\ Allows(k)
    BY <2>1
  <2>. HIDE DEF Goes, acc
  <2>4. CASE ~acc.ok
    <3>1. cheques[k].body.index \in Nat /\ cheques[k] \in R
      BY <1>1
    <3>2. ~UsedsUpTo(acc, cheques[k].body.index).ok
      BY <2>2, <2>4, <3>1, UsedsUpToStays
    <3>3. ~h[k].ok
      BY <2>2, <3>1, <3>2, RespondWithIs
    <3>. QED
      BY <2>1, <2>2, <2>3, <2>4, <3>3
  <2>5. CASE acc.ok
    <3>. DEFINE f == RankIn(locked, k - 1)
                at == last(k - 1)
                g == IF cheques[k].unlocked THEN f ELSE f + 1
    <3>1. RespondStands(acc, k - 1, at, f, useds, squash, cheques, total, pends) /\ at \in Int
      BY <1>8, <2>2, <2>5
    <3>2. at = last(k - 1) /\ f = RankIn(locked, k - 1)
      OBVIOUS
    <3>. HIDE DEF f, at
    <3>3. /\ h[k].ok <=> RespondCounting(cheques[k], at, f, signed, upper, useds, squash, pends)
          /\ h[k].ok => RespondStands(h[k], k, cheques[k].body.index, g, useds, squash, cheques, total, pends)
      <4>1. k \in 1..Len(cheques)
        BY DEF n
      <4>2. LET next == RespondWith(signed, upper, acc, cheques[k])
            IN  /\ next.ok <=> RespondCounting(cheques[k], at, f, signed, upper, useds, squash, pends)
                /\ next.ok => RespondStands(next, k, cheques[k].body.index,
                                            IF cheques[k].unlocked THEN f ELSE f + 1,
                                            useds, squash, cheques, total, pends)
        BY <1>2, <2>2, <3>1, <4>1, RespondStandsOn
      <4>. QED
        BY <2>2, <4>2
    <3>4. g = RankIn(locked, k) /\ cheques[k].body.index = last(k)
      <4>1. f \in Nat
        BY <1>7, <2>1, <3>2
      <4>. QED
        BY <1>1, <1>6, <1>7, <1>8, <3>2, <4>1
    <3>5. h[k].ok <=> Allows(k)
      BY <1>9, <3>2, <3>3
    <3>6. h[k].ok => Stands(h[k], k)
      BY <3>3, <3>4
    <3>. HIDE DEF Stands
    <3>. QED
      BY <2>1, <2>2, <2>3, <2>5, <3>5, <3>6
  <2>. QED
    BY <2>4, <2>5
<1>12. n \in T
  <2>1. \A k \in 0..n : k \in T
    <3>. HIDE DEF T
    <3>. QED
      BY <1>1, <1>10, <1>11, Climb
  <2>2. n \in 0..n
    BY <1>1
  <2>. HIDE DEF T
  <2>. QED
    BY <2>1, <2>2
<1>. DEFINE end == h[n]
<1>13. end \in RespondMidways(P)
  BY <1>1, <1>5
<1>14. (end.ok <=> Goes(n)) /\ (end.ok => Stands(end, n))
  BY <1>12
<1>. HIDE DEF end, Goes
<1>15. (account.ok <=> end.ok /\ PendingsAccounted(end)) /\ account.owed = end.owed
  <2>1. account = [end EXCEPT !.ok = @ /\ PendingsAccounted(end)]
    BY <1>4 DEF end
  <2>. QED
    BY <1>13, <2>1 DEF RespondMidways
<1>16. last(n) = FinalIndex(cheques)
  <2>1. CASE n = 0
    <3>1. cheques = <<>>
      BY <1>1, <2>1 DEF n
    <3>. QED
      BY <1>8, <2>1, <3>1 DEF FinalIndex
  <2>2. CASE n # 0
    <3>1. cheques # <<>> /\ n \in 1..n
      BY <1>1, <2>2 DEF n
    <3>2. FinalIndex(cheques) = cheques[n].body.index
      BY <3>1 DEF FinalIndex, n
    <3>. QED
      BY <1>8, <3>1, <3>2
  <2>. QED
    BY <2>1, <2>2
<1>17. ASSUME end.ok
       PROVE  /\ PendingsAccounted(end) <=> Len(pends) = Cardinality(locked) /\ total = ListTotal(pends)
              /\ \E d \in 0..Len(useds) :
                    /\ \A j \in DOMAIN useds : j > d <=> useds[j].index > FinalIndex(cheques)
                    /\ end.owed = squash.amount + SumOver(1..d, WorthOf(useds)) + SumOver(1..n, UnlockedWorth(cheques))
  <2>. DEFINE f == RankIn(locked, n)
  <2>1. PICK d \in 0..Len(useds) :
           /\ RespondReaches(end, last(n), d, f, useds, squash, pends)
           /\ end.owed = squash.amount + SumOver(1..d, WorthOf(useds)) + SumOver(1..n, UnlockedWorth(cheques))
           /\ end.pTotal = total - SumOver(1..f, WorthOf(pends))
    BY <1>14, <1>17 DEF RespondStands
  <2>2. f = Cardinality(locked)
    BY <1>7
  <2>. HIDE DEF f
  <2>3. \A j \in DOMAIN useds : j > d <=> useds[j].index > FinalIndex(cheques)
    BY <1>16, <2>1 DEF RespondReaches
  <2>4. end.pends \in Seq(P) /\ IsPast(end.pends, pends, f)
    BY <1>13, <2>1 DEF RespondReaches, RespondMidways
  <2>5. f \in 0..Len(pends) /\ Len(pends) \in Nat
    BY <2>4 DEF IsPast
  <2>6. end.pends = <<>> <=> f = Len(pends)
    <3>1. end.pends # <<>> <=> f < Len(pends)
      BY <2>4, PastFirst
    <3>. QED
      BY <2>5, <3>1
  <2>7. SumOver(1..Len(pends), WorthOf(pends)) = ListTotal(pends) /\ ListTotal(pends) \in Nat
    <3>1. DOMAIN pends = 1..Len(pends)
      OBVIOUS
    <3>2. \A j \in DOMAIN pends : WorthOf(pends)[j] = pends[j].amount
      BY DEF WorthOf
    <3>. QED
      BY <3>1, <3>2, ListTotalIsSum, ListTotalTail
  <2>8. f = Len(pends) => (end.pTotal = 0 <=> total = ListTotal(pends))
    <3>1. f = Len(pends) => end.pTotal = total - ListTotal(pends)
      BY <2>1, <2>7, Zenon
    <3>. QED
      BY <2>7, <3>1
  <2>9. PendingsAccounted(end) <=> f = Len(pends) /\ total = ListTotal(pends)
    BY <2>6, <2>8 DEF PendingsAccounted
  <2>. QED
    BY <2>1, <2>2, <2>3, <2>9
<1>18. /\ account.ok <=> /\ squash \in signed /\ \A j \in 1..n : Allows(j)
                         /\ Len(pends) = Cardinality(locked) /\ total = ListTotal(pends)
       /\ account.ok => \E d \in 0..Len(useds) :
             /\ \A j \in DOMAIN useds : j > d <=> useds[j].index > FinalIndex(cheques)
             /\ account.owed = squash.amount + SumOver(1..d, WorthOf(useds)) + SumOver(1..n, UnlockedWorth(cheques))
  BY <1>14, <1>15, <1>17 DEF Goes
<1>. QED
  BY <1>1, <1>18 DEF RespondSays, account, Allows, locked, n

\* A sum of the amounts at some places of a list.
LEMMA AmountsAreSum ==
    ASSUME NEW list, NEW S, NEW w, \A n \in S : w[n] = list[n].amount
    PROVE  MapThenSumSet(LAMBDA n : list[n].amount, S) = SumOver(S, w)
<1>. DEFINE G(f) == [s \in SUBSET S |->
                       IF s = {} THEN 0
                       ELSE LET x == CHOOSE x \in s : TRUE IN list[x].amount + f[s \ {x}]]
<1>1. MapThenSumSet(LAMBDA n : list[n].amount, S) = (CHOOSE f : f = G(f))[S]
  BY DEF MapThenSumSet, MapThenFoldSet
<1>2. ASSUME NEW f PROVE G(f) = Weigh(f, S, w)
  BY DEF Weigh
<1>. HIDE DEF G
<1>3. (CHOOSE f : f = G(f)) = CHOOSE f : f = Weigh(f, S, w)
  BY <1>2
<1>. QED
  BY <1>1, <1>3 DEF SumOver, Sums

LEMMA BodyAmountsAreSum ==
    ASSUME NEW list, NEW S, NEW w, \A n \in S : w[n] = list[n].body.amount
    PROVE  MapThenSumSet(LAMBDA n : list[n].body.amount, S) = SumOver(S, w)
<1>. DEFINE G(f) == [s \in SUBSET S |->
                       IF s = {} THEN 0
                       ELSE LET x == CHOOSE x \in s : TRUE IN list[x].body.amount + f[s \ {x}]]
<1>1. MapThenSumSet(LAMBDA n : list[n].body.amount, S) = (CHOOSE f : f = G(f))[S]
  BY DEF MapThenSumSet, MapThenFoldSet
<1>2. ASSUME NEW f PROVE G(f) = Weigh(f, S, w)
  BY DEF Weigh
<1>. HIDE DEF G
<1>3. (CHOOSE f : f = G(f)) = CHOOSE f : f = Weigh(f, S, w)
  BY <1>2
<1>. QED
  BY <1>1, <1>3 DEF SumOver, Sums

\* What a Respond whose cheques pass the first d useds owes.
LEMMA RespondOwedIs ==
    ASSUME NEW R, ChequeRecords(R), NEW cheques \in Seq(R),
           NEW useds \in Seq(UsedRecords), NEW squash, squash.amount \in Nat, NEW d \in 0..Len(useds),
           \A j \in DOMAIN useds : j > d <=> useds[j].index > FinalIndex(cheques)
    PROVE  RespondOwed(useds, squash, cheques)
              = squash.amount + SumOver(1..d, WorthOf(useds)) + SumOver(1..Len(cheques), UnlockedWorth(cheques))
<1>. DEFINE n == Len(cheques)
            u == WorthOf(useds)
            c == UnlockedWorth(cheques)
            passed == {j \in DOMAIN useds : useds[j].index <= FinalIndex(cheques)}
            unlocked == {k \in DOMAIN cheques : cheques[k].unlocked}
<1>1. /\ n \in Nat /\ DOMAIN cheques = 1..n
      /\ \A k \in 1..n : cheques[k] \in R /\ cheques[k].body.index \in Nat /\ cheques[k].body.amount \in Nat
  <2>1. n \in Nat /\ DOMAIN cheques = 1..n /\ \A k \in 1..n : cheques[k] \in R
    BY ListEntries
  <2>. QED
    BY <2>1 DEF ChequeRecords
<1>2. /\ Len(useds) \in Nat /\ DOMAIN useds = 1..Len(useds)
      /\ \A j \in 1..Len(useds) : useds[j].index \in Nat /\ useds[j].amount \in Nat
  <2>1. /\ Len(useds) \in Nat /\ DOMAIN useds = 1..Len(useds)
        /\ \A j \in 1..Len(useds) : useds[j] \in UsedRecords
    BY ListEntries
  <2>. QED
    BY <2>1 DEF UsedRecords
<1>3. FinalIndex(cheques) \in Int
  <2>1. cheques # <<>> => n \in 1..n
    BY <1>1
  <2>. QED
    BY <1>1, <2>1 DEF FinalIndex
<1>4. passed = 1..d
  <2>1. ASSUME NEW j \in 1..Len(useds) PROVE useds[j].index <= FinalIndex(cheques) <=> j \in 1..d
    <3>1. j > d <=> useds[j].index > FinalIndex(cheques)
      BY <1>2
    <3>2. useds[j].index \in Nat /\ j \in Nat \ {0} /\ d \in Nat
      BY <1>2
    <3>. QED
      BY <1>3, <3>1, <3>2
  <2>2. \A j \in 1..d : j \in 1..Len(useds)
    BY <1>2
  <2>. QED
    BY <1>2, <2>1, <2>2
<1>5. MapThenSumSet(LAMBDA j : useds[j].amount, passed) = SumOver(1..d, u)
  <2>1. \A j \in passed : u[j] = useds[j].amount
    BY DEF WorthOf
  <2>. HIDE DEF passed, u
  <2>2. MapThenSumSet(LAMBDA j : useds[j].amount, passed) = SumOver(passed, u)
    BY <2>1, AmountsAreSum
  <2>. QED
    BY <1>4, <2>2
<1>6. \A k \in 1..n : c[k] = (IF cheques[k].unlocked THEN cheques[k].body.amount ELSE 0) /\ c[k] \in Nat
  BY <1>1 DEF UnlockedWorth
<1>7. unlocked \in SUBSET (1..n) /\ \A k \in 1..n : k \in unlocked <=> cheques[k].unlocked
  BY <1>1
<1>8. MapThenSumSet(LAMBDA k : cheques[k].body.amount, unlocked) = SumOver(1..n, c)
  <2>. HIDE DEF c, unlocked, n
  <2>1. \A k \in unlocked : c[k] = cheques[k].body.amount
    BY <1>6, <1>7
  <2>2. MapThenSumSet(LAMBDA k : cheques[k].body.amount, unlocked) = SumOver(unlocked, c)
    BY <2>1, BodyAmountsAreSum
  <2>3. IsFiniteSet(1..n)
    BY <1>1, FS_Interval
  <2>4. SumOver(1..n, c) = SumOver(unlocked, c) + SumOver((1..n) \ unlocked, c)
    BY <1>6, <1>7, <2>3, SumSplits
  <2>5. SumOver((1..n) \ unlocked, c) = 0
    <3>. DEFINE rest == (1..n) \ unlocked
    <3>1. IsFiniteSet(rest) /\ \A k \in rest : c[k] = 0
      BY <1>6, <1>7, <2>3, FS_Subset
    <3>. HIDE DEF rest
    <3>2. SumOver(rest, c) = 0
      BY <3>1, SumOfNone
    <3>. QED
      BY <3>2 DEF rest
  <2>6. SumOver(unlocked, c) \in Nat
    BY <1>6, <1>7, <2>3, SumType
  <2>. QED
    BY <2>2, <2>4, <2>5, <2>6
<1>9. RespondOwed(useds, squash, cheques)
         = squash.amount + MapThenSumSet(LAMBDA j : useds[j].amount, passed)
                         + MapThenSumSet(LAMBDA k : cheques[k].body.amount, unlocked)
  BY DEF RespondOwed
<1>. HIDE DEF passed, unlocked, u, c, n
<1>10. RespondOwed(useds, squash, cheques) = squash.amount + SumOver(1..d, u) + SumOver(1..n, c)
  BY <1>5, <1>8, <1>9, Zenon
<1>. QED
  BY <1>10 DEF u, c, n

\* Passing the useds cheque by cheque asks of them what the reference asks of
\* all that are passed.
LEMMA PassedStepwise ==
    ASSUME NEW R, ChequeRecords(R), NEW cheques \in Seq(R), Ascending(BodiesOf(cheques)),
           NEW useds \in Seq(UsedRecords), NEW squash
    PROVE  (\A k \in DOMAIN cheques : \A j \in DOMAIN useds :
               /\ IndexBefore(BodiesOf(cheques), k) < useds[j].index
               /\ useds[j].index <= cheques[k].body.index
               => useds[j].index # cheques[k].body.index /\ ~IsSquashed(squash, useds[j].index))
           <=>
           (\A j \in DOMAIN useds : useds[j].index <= FinalIndex(cheques) =>
               /\ ~IsSquashed(squash, useds[j].index)
               /\ \A k \in DOMAIN cheques : useds[j].index # cheques[k].body.index)
<1>. DEFINE n == Len(cheques)
            b(k) == cheques[k].body.index
            v(j) == useds[j].index
            last(k) == IndexBefore(BodiesOf(cheques), k)
            Stepwise == \A k \in DOMAIN cheques : \A j \in DOMAIN useds :
                           last(k) < v(j) /\ v(j) <= b(k) => v(j) # b(k) /\ ~IsSquashed(squash, v(j))
            AtOnce == \A j \in DOMAIN useds : v(j) <= FinalIndex(cheques) =>
                         ~IsSquashed(squash, v(j)) /\ \A k \in DOMAIN cheques : v(j) # b(k)
<1>1. n \in Nat /\ DOMAIN cheques = 1..n /\ \A k \in 1..n : b(k) \in Nat
  <2>1. n \in Nat /\ DOMAIN cheques = 1..n /\ \A k \in 1..n : cheques[k] \in R
    BY ListEntries
  <2>. QED
    BY <2>1 DEF ChequeRecords
<1>2. \A j \in DOMAIN useds : v(j) \in Nat
  <2>1. \A j \in DOMAIN useds : useds[j] \in UsedRecords
    BY ListEntries
  <2>. QED
    BY <2>1 DEF UsedRecords
<1>3. \A k \in 1..n : BodiesOf(cheques)[k].index = b(k)
  BY <1>1 DEF BodiesOf
<1>4. \A j, k \in 1..n : j < k => b(j) < b(k)
  <2>1. DOMAIN BodiesOf(cheques) = 1..n
    BY <1>1 DEF BodiesOf
  <2>. QED
    BY <1>3, <2>1 DEF Ascending
<1>5. /\ n = 0 => FinalIndex(cheques) = -1
      /\ n # 0 => n \in 1..n /\ FinalIndex(cheques) = b(n)
  <2>1. n = 0 <=> cheques = <<>>
    OBVIOUS
  <2>. QED
    BY <1>1, <2>1 DEF FinalIndex
<1>6. last(1) = -1 /\ \A k \in 1..n : k # 1 => k - 1 \in 1..n /\ last(k) = b(k - 1)
  BY <1>1, <1>3 DEF IndexBefore
<1>. HIDE DEF n, b, v, last
<1>7. ASSUME Stepwise, NEW j \in DOMAIN useds, v(j) <= FinalIndex(cheques)
      PROVE  ~IsSquashed(squash, v(j)) /\ \A k \in DOMAIN cheques : v(j) # b(k)
  <2>1. v(j) \in Nat
    BY <1>2
  <2>2. n # 0 /\ n \in 1..n /\ v(j) <= b(n)
    BY <1>5, <1>7, <2>1
  <2>. DEFINE S == {k \in 1..n : v(j) <= b(k)}
  <2>3. PICK k \in 1..n : v(j) <= b(k) /\ (k = 1 \/ ~(v(j) <= b(k - 1)))
    <3>1. S \subseteq Nat /\ S # {}
      BY <2>2
    <3>2. PICK m \in S : \A i \in S : m <= i
      <4>. HIDE DEF S
      <4>. QED
        BY <3>1, LeastNatural
    <3>3. m \in 1..n /\ v(j) <= b(m)
      BY <3>2
    <3>4. m = 1 \/ ~(v(j) <= b(m - 1))
      <4>1. m = 1 \/ m - 1 \in 1..n
        BY <1>1, <3>3
      <4>2. m - 1 \in S => m <= m - 1
        BY <3>2
      <4>3. m - 1 \notin S
        BY <3>3, <4>2
      <4>. QED
        BY <4>1, <4>3
    <3>. QED
      BY <3>3, <3>4
  <2>4. last(k) < v(j)
    <3>1. CASE k = 1
      BY <1>6, <2>1, <3>1
    <3>2. CASE k # 1
      <4>1. k - 1 \in 1..n /\ last(k) = b(k - 1) /\ b(k - 1) \in Nat
        BY <1>1, <1>6, <3>2
      <4>. QED
        BY <2>1, <2>3, <3>2, <4>1
    <3>. QED
      BY <3>1, <3>2
  <2>5. v(j) # b(k) /\ ~IsSquashed(squash, v(j))
    BY <1>1, <1>7, <2>3, <2>4
  <2>6. ASSUME NEW i \in 1..n PROVE v(j) # b(i)
    <3>1. b(i) \in Nat /\ b(k) \in Nat /\ (i < k \/ i = k \/ k < i)
      BY <1>1
    <3>2. CASE i < k
      <4>1. k # 1 /\ k - 1 \in 1..n /\ b(k - 1) \in Nat /\ (i = k - 1 \/ i < k - 1)
        BY <1>1, <1>6, <3>2
      <4>2. b(i) <= b(k - 1)
        BY <1>4, <3>1, <4>1
      <4>3. b(k - 1) < v(j)
        BY <2>1, <2>3, <4>1
      <4>. QED
        BY <2>1, <3>1, <4>1, <4>2, <4>3
    <3>3. CASE i = k
      BY <2>5, <3>3
    <3>4. CASE k < i
      <4>1. b(k) < b(i)
        BY <1>4, <3>4
      <4>. QED
        BY <2>1, <2>3, <3>1, <4>1
    <3>. QED
      BY <3>1, <3>2, <3>3, <3>4
  <2>. QED
    BY <1>1, <2>5, <2>6
<1>8. ASSUME AtOnce, NEW k \in DOMAIN cheques, NEW j \in DOMAIN useds, v(j) <= b(k)
      PROVE  v(j) # b(k) /\ ~IsSquashed(squash, v(j))
  <2>1. k \in 1..n /\ n # 0 /\ n \in 1..n /\ (k = n \/ k < n)
    BY <1>1
  <2>2. b(k) <= b(n) /\ b(k) \in Nat /\ b(n) \in Nat /\ v(j) \in Nat
    BY <1>1, <1>2, <1>4, <2>1
  <2>3. v(j) <= FinalIndex(cheques)
    BY <1>5, <1>8, <2>1, <2>2
  <2>. QED
    BY <1>8, <2>3
<1>9. Stepwise <=> AtOnce
  BY <1>7, <1>8
<1>. QED
  BY <1>9 DEF b, v, last

\* The pendings are the locked cheques in order when each locked cheque is the
\* pending of its rank and there are as many.
LEMMA PendingsByRank ==
    ASSUME NEW P, NEW pends \in Seq(P), NEW R, NEW cheques \in Seq(R)
    PROVE  LET locked == EntriesAt(cheques, LockedIn(cheques))
           IN  pends = [k \in DOMAIN locked |-> PendOf(locked[k].body)]
               <=> /\ Len(pends) = Cardinality(LockedIn(cheques))
                   /\ \A k \in LockedIn(cheques) :
                         /\ RankIn(LockedIn(cheques), k) <= Len(pends)
                         /\ pends[RankIn(LockedIn(cheques), k)] = PendOf(cheques[k].body)
<1>. DEFINE places == LockedIn(cheques)
            locked == EntriesAt(cheques, places)
            rank(k) == RankIn(places, k)
            size == Len(locked)
            list == [k \in DOMAIN locked |-> PendOf(locked[k].body)]
<1>1. /\ locked \in Seq(R) /\ size = Cardinality(places)
      /\ \A k \in places : rank(k) \in 1..size /\ locked[rank(k)] = cheques[k]
      /\ \A m \in 1..size : \E k \in places : rank(k) = m
  <2>1. places \in SUBSET DOMAIN cheques
    BY DEF LockedIn
  <2>. HIDE DEF places
  <2>. QED
    BY <2>1, EntriesAtRanks
<1>2. size \in Nat /\ DOMAIN locked = 1..size /\ Len(pends) \in Nat /\ DOMAIN pends = 1..Len(pends)
  BY <1>1, ListEntries
<1>3. DOMAIN list = 1..size /\ \A m \in 1..size : list[m] = PendOf(locked[m].body)
  BY <1>2
<1>4. list = [m \in 1..size |-> list[m]] /\ pends = [m \in 1..Len(pends) |-> pends[m]]
  <2>1. list = [m \in 1..size |-> list[m]]
    BY <1>2
  <2>2. pends = [m \in 1..Len(pends) |-> pends[m]]
    OBVIOUS
  <2>. QED
    BY <2>1, <2>2
<1>. HIDE DEF places, locked, rank, size, list
<1>5. ASSUME pends = list
      PROVE  /\ Len(pends) = Cardinality(places)
             /\ \A k \in places : rank(k) <= Len(pends) /\ pends[rank(k)] = PendOf(cheques[k].body)
  <2>1. 1..Len(pends) = 1..size
    BY <1>2, <1>3, <1>5
  <2>2. Len(pends) = size
    <3>1. size = 0 \/ size \in 1..size
      BY <1>2
    <3>2. Len(pends) = 0 \/ Len(pends) \in 1..Len(pends)
      BY <1>2
    <3>3. (size = 0 \/ size \in 1..Len(pends)) /\ (Len(pends) = 0 \/ Len(pends) \in 1..size)
      BY <2>1, <3>1, <3>2, Zenon
    <3>4. size <= Len(pends) /\ Len(pends) <= size
      BY <1>2, <3>3
    <3>5. \A a, b \in Nat : a <= b /\ b <= a => a = b
      OBVIOUS
    <3>. QED
      BY <1>2, <3>4, <3>5, Zenon
  <2>3. ASSUME NEW k \in places PROVE rank(k) <= Len(pends) /\ pends[rank(k)] = PendOf(cheques[k].body)
    <3>1. rank(k) \in 1..size /\ locked[rank(k)] = cheques[k]
      BY <1>1
    <3>2. list[rank(k)] = PendOf(locked[rank(k)].body)
      BY <1>3, <3>1
    <3>. QED
      BY <1>2, <1>5, <2>2, <3>1, <3>2
  <2>. QED
    BY <1>1, <2>2, <2>3
<1>6. ASSUME Len(pends) = Cardinality(places),
             \A k \in places : rank(k) <= Len(pends) /\ pends[rank(k)] = PendOf(cheques[k].body)
      PROVE  pends = list
  <2>1. Len(pends) = size
    BY <1>1, <1>6
  <2>2. ASSUME NEW m \in 1..size PROVE pends[m] = list[m]
    <3>1. PICK k \in places : rank(k) = m
      BY <1>1
    <3>2. pends[m] = PendOf(cheques[k].body) /\ locked[m] = cheques[k]
      BY <1>1, <1>6, <3>1
    <3>. QED
      BY <1>3, <3>2
  <2>3. [m \in 1..size |-> pends[m]] = [m \in 1..size |-> list[m]]
    BY <2>2
  <2>. QED
    BY <1>4, <2>1, <2>3
<1>. QED
  BY <1>5, <1>6 DEF places, locked, rank, list

(* A Respond accepts exactly what the reference describes: a signed squash and
   cheques of ascending indexes that neither the squash nor a used accounts
   for, the locked ones of which are the pendings; and what it is owed is the
   squash, the useds passed and the unlocked cheques (respond.ak's walk). *)
THEOREM RespondIsExact ==
    ASSUME NEW P, HaveAmounts(P), NEW signed, NEW upper,
           NEW R, ChequeRecords(R), NEW cheques \in Seq(R),
           NEW useds \in Seq(UsedRecords), Ascending(useds), NEW squash, IsSquash(squash),
           NEW total \in Int, NEW pends \in Seq(P)
    PROVE  LET account == RespondAccount(signed, upper, useds, squash, cheques, total, pends)
           IN  /\ account.ok <=> RespondEvidence(signed, upper, useds, squash, cheques, total, pends)
               /\ account.ok => account.owed = RespondOwed(useds, squash, cheques)
<1>. DEFINE account == RespondAccount(signed, upper, useds, squash, cheques, total, pends)
            n == Len(cheques)
            bodies == BodiesOf(cheques)
            places == LockedIn(cheques)
            rank(k) == RankIn(places, k)
            Follows(k) == IndexBefore(bodies, k) < cheques[k].body.index
            Left(k) == ~IsSquashed(squash, cheques[k].body.index)
            Shown(k) == IsShown(signed, upper, cheques[k])
            Clear(k) == \A j \in DOMAIN useds :
                           IndexBefore(bodies, k) < useds[j].index /\ useds[j].index <= cheques[k].body.index
                           => useds[j].index # cheques[k].body.index /\ ~IsSquashed(squash, useds[j].index)
            ClearAll == \A j \in DOMAIN useds : useds[j].index <= FinalIndex(cheques) =>
                           /\ ~IsSquashed(squash, useds[j].index)
                           /\ \A k \in DOMAIN cheques : useds[j].index # cheques[k].body.index
            Pending(k) == rank(k) <= Len(pends) /\ pends[rank(k)] = PendOf(cheques[k].body)
            locked == EntriesAt(cheques, places)
            inOrder == pends = [k \in DOMAIN locked |-> PendOf(locked[k].body)]
<1>1. /\ n \in Nat /\ DOMAIN cheques = 1..n
      /\ \A k \in 1..n : cheques[k] \in R /\ cheques[k].body.index \in Nat /\ cheques[k].unlocked \in BOOLEAN
  <2>1. n \in Nat /\ DOMAIN cheques = 1..n /\ \A k \in 1..n : cheques[k] \in R
    BY ListEntries
  <2>. QED
    BY <2>1 DEF ChequeRecords
<1>2. RespondSays(account, signed, upper, useds, squash, cheques, total, pends)
  BY RespondAccountIs
<1>. HIDE DEF account, n
<1>3. DOMAIN bodies = 1..n /\ \A k \in 1..n : bodies[k] = cheques[k].body
  BY <1>1 DEF BodiesOf
<1>4. \A k \in 1..n : k \in places <=> ~cheques[k].unlocked
  BY <1>1 DEF LockedIn
<1>5. places \in SUBSET (1..n)
  BY <1>1 DEF LockedIn
<1>6. \A k \in places : RankIn(places, k - 1) \in Nat /\ rank(k) = RankIn(places, k - 1) + 1
  <2>. HIDE DEF places
  <2>1. /\ \A k \in 0..n : RankIn(places, k) \in Nat
        /\ \A k \in 1..n : RankIn(places, k) = RankIn(places, k - 1) + (IF k \in places THEN 1 ELSE 0)
    BY <1>1, <1>5, RankSteps
  <2>2. \A k \in 1..n : k - 1 \in 0..n
    BY <1>1
  <2>. QED
    BY <1>5, <2>1, <2>2
<1>7. ASSUME NEW k \in 1..n
      PROVE  RespondAllows(k, signed, upper, useds, squash, cheques, pends)
             <=> Follows(k) /\ Left(k) /\ Clear(k) /\ Shown(k) /\ (k \in places => Pending(k))
  <2>. DEFINE f == RankIn(places, k - 1)
  <2>1. RespondAllows(k, signed, upper, useds, squash, cheques, pends)
        <=> /\ Follows(k) /\ Left(k) /\ Clear(k) /\ Shown(k)
            /\ cheques[k].unlocked \/ (f < Len(pends) /\ pends[f + 1] = PendOf(cheques[k].body))
    BY DEF RespondAllows, RespondCounting
  <2>2. k \in places => (f < Len(pends) /\ pends[f + 1] = PendOf(cheques[k].body) <=> Pending(k))
    <3>1. k \in places => f \in Nat /\ rank(k) = f + 1
      BY <1>6
    <3>2. Len(pends) \in Nat
      OBVIOUS
    <3>. HIDE DEF f, rank
    <3>3. k \in places => (f < Len(pends) <=> rank(k) <= Len(pends))
      BY <3>1, <3>2
    <3>. QED
      BY <3>1, <3>3
  <2>. HIDE DEF f, Follows, Left, Clear, Shown, Pending, places
  <2>. QED
    BY <1>1, <1>4, <2>1, <2>2
<1>8. Ascending(bodies) <=> \A k \in 1..n : Follows(k)
  <2>1. \A k \in 1..n : bodies[k].index \in Nat /\ bodies[k].index = cheques[k].body.index
    BY <1>1, <1>3
  <2>. HIDE DEF bodies
  <2>2. Ascending(bodies) <=> \A k \in DOMAIN bodies : IndexBefore(bodies, k) < bodies[k].index
    BY <1>1, <1>3, <2>1, AscendsStepwise
  <2>. QED
    BY <1>3, <2>1, <2>2
<1>9. Ascending(bodies) => ((\A k \in 1..n : Clear(k)) <=> ClearAll)
  BY <1>1, PassedStepwise
<1>10. inOrder <=> Len(pends) = Cardinality(places) /\ \A k \in places : Pending(k)
  BY PendingsByRank
<1>11. RespondEvidence(signed, upper, useds, squash, cheques, total, pends)
       <=> /\ squash \in signed /\ Ascending(bodies)
           /\ \A k \in 1..n : Left(k) /\ Shown(k)
           /\ ClearAll /\ inOrder /\ total = ListTotal(pends)
  <2>. DEFINE passed == {j \in DOMAIN useds : useds[j].index <= FinalIndex(cheques)}
              Free(k) == \A j \in passed : useds[j].index # bodies[k].index
              shown(k) == IF cheques[k].unlocked
                          THEN LockedForm(bodies[k]) \in signed /\ upper <= bodies[k].timeout
                          ELSE bodies[k] \in signed
  <2>1. RespondEvidence(signed, upper, useds, squash, cheques, total, pends)
        <=> /\ squash \in signed /\ Ascending(bodies)
            /\ \A k \in DOMAIN bodies : ~IsSquashed(squash, bodies[k].index) /\ Free(k) /\ shown(k)
            /\ \A j \in passed : ~IsSquashed(squash, useds[j].index)
            /\ inOrder /\ total = ListTotal(pends)
    BY DEF RespondEvidence, BodiesOf, LockedIn
  <2>2. \A k \in 1..n : (~IsSquashed(squash, bodies[k].index) <=> Left(k)) /\ (shown(k) <=> Shown(k))
    BY <1>3 DEF IsShown
  <2>3. ClearAll <=> (\A k \in 1..n : Free(k)) /\ \A j \in passed : ~IsSquashed(squash, useds[j].index)
    <3>1. \A k \in 1..n : Free(k) <=> \A j \in passed : useds[j].index # cheques[k].body.index
      BY <1>3
    <3>. HIDE DEF bodies
    <3>. QED
      BY <1>1, <3>1
  <2>. HIDE DEF Free, shown, Left, Shown, ClearAll, inOrder, passed, bodies
  <2>. QED
    BY <1>3, <2>1, <2>2, <2>3, Zenon
<1>12. account.ok <=> /\ squash \in signed
                      /\ \A k \in 1..n : RespondAllows(k, signed, upper, useds, squash, cheques, pends)
                      /\ Len(pends) = Cardinality(places) /\ total = ListTotal(pends)
  BY <1>1, <1>2 DEF RespondSays
<1>13. account.ok => account.owed = RespondOwed(useds, squash, cheques)
  <2>. SUFFICES ASSUME account.ok PROVE account.owed = RespondOwed(useds, squash, cheques)
    OBVIOUS
  <2>1. PICK d \in 0..Len(useds) :
           /\ \A j \in DOMAIN useds : j > d <=> useds[j].index > FinalIndex(cheques)
           /\ account.owed = squash.amount + SumOver(1..d, WorthOf(useds))
                                           + SumOver(1..Len(cheques), UnlockedWorth(cheques))
    BY <1>2 DEF RespondSays
  <2>2. squash.amount \in Nat
    BY DEF IsSquash
  <2>3. RespondOwed(useds, squash, cheques)
           = squash.amount + SumOver(1..d, WorthOf(useds)) + SumOver(1..Len(cheques), UnlockedWorth(cheques))
    BY <2>1, <2>2, RespondOwedIs
  <2>. QED
    BY <2>1, <2>3, Zenon
<1>. HIDE DEF bodies, places, rank, Follows, Left, Shown, Clear, ClearAll, Pending, locked, inOrder
<1>14. (\A k \in 1..n : RespondAllows(k, signed, upper, useds, squash, cheques, pends))
       <=> /\ \A k \in 1..n : Follows(k)
           /\ \A k \in 1..n : Left(k) /\ Shown(k)
           /\ \A k \in 1..n : Clear(k)
           /\ \A k \in places : Pending(k)
  BY <1>5, <1>7, Zenon
<1>15. account.ok <=> RespondEvidence(signed, upper, useds, squash, cheques, total, pends)
  BY <1>8, <1>9, <1>10, <1>11, <1>12, <1>14, Zenon
<1>. QED
  BY <1>13, <1>15 DEF account
=============================================================================
