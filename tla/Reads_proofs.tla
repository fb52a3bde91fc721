---------------------------- MODULE Reads_proofs ----------------------------
(***************************************************************************)
(* The reads of a round, taken apart, for every number of providers, of    *)
(* which any may be late, and for every page size.                         *)
(*                                                                         *)
(* A step of Reads is a step of Relayer, or the end of a round without a   *)
(* provider, or a read of L1 at a provider.  A chunk of pages is a chunk   *)
(* of one answer, and a read at a provider is a read of L1 that is late by *)
(* some blocks; the invariants of Relayer hold for such a read as well,    *)
(* but for the loss of those hashes whose counter was asked too early.     *)
(***************************************************************************)
EXTENDS Reads, Promise_proofs

USE CountAssumption, HistoryAssumption, ConfigAssumption, ReadsAssumption DEF W, P

(***************************************************************************)
(* Relayer at a provider asks the same questions.                          *)
(***************************************************************************)
LEMMA AtSize == ASSUME NEW p, NEW S PROVE At(p)!Cardinality(S) = Cardinality(S)
  BY Zenon DEF Cardinality, At!Cardinality

LEMMA AtSlice == ASSUME NEW p, NEW S, NEW k PROVE At(p)!FirstOf(S, k) = FirstOf(S, k)
  BY AtSize DEF FirstOf, At!FirstOf, Rank, At!Rank

LEMMA AtRanges ==
    ASSUME NEW p, NEW f, NEW t
    PROVE  At(p)!List(f, t) = List(f, t) /\ At(p)!Requests(f, t) = Requests(f, t)
  BY DEF List, At!List, Requests, At!Requests, Eligible, At!Eligible, At!W

LEMMA AtUnanswered == ASSUME NEW p PROVE At(p)!Unanswered = Unanswered
  BY AtRanges DEF Unanswered, At!Unanswered, NoAnswer, At!NoAnswer

LEMMA AtAnswers == ASSUME NEW p PROVE At(p)!Answers = AnswersOf(L1Of(p).msgs)
  BY AtUnanswered, AtSlice DEF At!Answers, AnswersOf, At!W

LEMMA AtSelected ==
    ASSUME NEW p, NEW L, NEW R, NEW a
    PROVE  At(p)!Selected(L, R, a) = Selected(L, R, a)
<1>1. \A S, w : At(p)!Rank(S, w) = Rank(S, w)
  BY AtSize DEF Rank, At!Rank
<1>2. At(p)!Accepted(R, a) = Accepted(R, a)
  BY <1>1 DEF Accepted, At!Accepted, Takers, At!Takers, Cached, At!Cached
<1> QED
  BY <1>1, <1>2 DEF Selected, At!Selected

\* The calls of a chunk when the counters are read as m.
ChoiceOf(m) == Selected(List(lo, cur), Requests(lo, cur), AnswersOf(m))

LEMMA AtChoice == ASSUME NEW p PROVE At(p)!Choice = ChoiceOf(L1Of(p).msgs)
  BY AtSelected, AtRanges, AtAnswers DEF At!Choice, ChoiceOf

-----------------------------------------------------------------------------
(***************************************************************************)
(* The reads, with the state block b and the counters m that they see.     *)
(***************************************************************************)
StateRead(b) ==
    /\ pc = "state" /\ seen' = b
    /\ to' = Lesser(to, b) /\ from' = Lesser(from, to') /\ lo' = from' /\ cur' = from'
    /\ pc' = IF from' < to' THEN "chunk" ELSE "wakeup"
    /\ UNCHANGED <<ans, counted, reqs, todo, rest>>

SomeViewed(m) ==
    /\ pc = "view" /\ Unanswered # FirstOf(Unanswered, ViewLimit)
    /\ ans' = AnswersOf(m)
    /\ UNCHANGED <<pc, bounds, lo, cur, counted, reqs, todo, rest>>

LastViewed(m) ==
    /\ pc = "view" /\ Unanswered = FirstOf(Unanswered, ViewLimit)
    /\ \A w \in ChoiceOf(m) : Known[w]
    /\ ans' = AnswersOf(m) /\ reqs' = reqs \cup ChoiceOf(m) /\ pc' = "chunk"
    /\ UNCHANGED <<bounds, lo, cur, counted, todo, rest>>

ViewThrown(m) ==
    /\ pc = "view" /\ Unanswered = FirstOf(Unanswered, ViewLimit)
    /\ \E w \in ChoiceOf(m) : ~Known[w]
    /\ NewRound /\ UNCHANGED isHighFee

MoveSeen(b) ==
    /\ pc = "wakeup" /\ b > seen /\ seen' = b /\ marked' = TRUE
    /\ UNCHANGED <<pc, from, to, walk, todo, isHighFee>>

WakenAt(b) ==
    /\ pc = "wakeup" /\ b <= seen /\ marked
    /\ NewRound /\ UNCHANGED isHighFee

View(m) == SomeViewed(m) \/ LastViewed(m) \/ ViewThrown(m)

ReadOf(b, m) == StateRead(b) \/ View(m) \/ MoveSeen(b) \/ WakenAt(b)

\* What a read leaves alone, besides the memory of the round.
Outer == <<world, stored, history>>

LEMMA AtViewSome ==
    ASSUME NEW p, UNCHANGED <<stateBlock, msgs>>, At(p)!ViewSome
    PROVE  UNCHANGED Outer /\ SomeViewed(L1Of(p).msgs)
<1>1. /\ UNCHANGED <<indexed, price, inflight, txOk, stored, relayed, faults>>
      /\ UNCHANGED <<pc, from, to, seen, lo, cur, counted, reqs, todo, marked, isHighFee>>
  BY DEF At!ViewSome, At!world, At!bounds, At!rest, At!history
<1>2. pc = "view" /\ Unanswered # FirstOf(Unanswered, ViewLimit)
  BY AtUnanswered, AtSlice DEF At!ViewSome
<1>3. ans' = AnswersOf(L1Of(p).msgs)
  BY AtAnswers DEF At!ViewSome
<1> QED
  BY <1>1, <1>2, <1>3 DEF Outer, world, history, bounds, rest, SomeViewed

LEMMA AtViewLast ==
    ASSUME NEW p, UNCHANGED <<stateBlock, msgs>>, At(p)!ViewLast
    PROVE  UNCHANGED Outer /\ LastViewed(L1Of(p).msgs)
<1>1. /\ UNCHANGED <<indexed, price, inflight, txOk, stored, relayed, faults>>
      /\ UNCHANGED <<from, to, seen, lo, cur, counted, todo, marked, isHighFee>>
  BY DEF At!ViewLast, At!world, At!bounds, At!rest, At!history
<1>2. pc = "view" /\ pc' = "chunk" /\ Unanswered = FirstOf(Unanswered, ViewLimit)
  BY AtUnanswered, AtSlice DEF At!ViewLast
<1>3. ans' = AnswersOf(L1Of(p).msgs)
  BY AtAnswers DEF At!ViewLast
<1>4. /\ \A w \in ChoiceOf(L1Of(p).msgs) : Known[w]
      /\ reqs' = reqs \cup ChoiceOf(L1Of(p).msgs)
  BY AtChoice DEF At!ViewLast
<1> QED
  BY <1>1, <1>2, <1>3, <1>4 DEF Outer, world, history, bounds, rest, LastViewed

LEMMA AtNewRound == ASSUME NEW p, At(p)!NewRound PROVE NewRound
  BY DEF At!NewRound, At!NoAnswers, At!NoAnswer, At!W, NewRound, NoAnswers, NoAnswer

LEMMA AtViewThrows ==
    ASSUME NEW p, UNCHANGED <<stateBlock, msgs>>, At(p)!ViewThrows
    PROVE  UNCHANGED Outer /\ ViewThrown(L1Of(p).msgs)
<1>1. UNCHANGED <<indexed, price, inflight, txOk, stored, relayed, faults, isHighFee>>
  BY DEF At!ViewThrows, At!world, At!history
<1>2. pc = "view" /\ Unanswered = FirstOf(Unanswered, ViewLimit)
  BY AtUnanswered, AtSlice DEF At!ViewThrows
<1>3. \E w \in ChoiceOf(L1Of(p).msgs) : ~Known[w]
  BY AtChoice DEF At!ViewThrows
<1>4. NewRound
  BY AtNewRound DEF At!ViewThrows
<1> QED
  BY <1>1, <1>2, <1>3, <1>4 DEF Outer, world, history, ViewThrown

LEMMA AtReadState ==
    ASSUME NEW p, UNCHANGED <<stateBlock, msgs>>, At(p)!ReadState
    PROVE  UNCHANGED Outer /\ StateRead(L1Of(p).stateBlock)
<1>1. /\ UNCHANGED <<indexed, price, inflight, txOk, stored, relayed, faults>>
      /\ UNCHANGED <<ans, counted, reqs, todo, marked, isHighFee>>
  BY DEF At!ReadState, At!world, At!rest, At!history
<1>2. \A x, y : At(p)!Lesser(x, y) = Lesser(x, y)
  BY DEF At!Lesser, Lesser
<1>3. /\ pc = "state" /\ seen' = L1Of(p).stateBlock
      /\ to' = Lesser(to, L1Of(p).stateBlock) /\ from' = Lesser(from, to')
      /\ lo' = from' /\ cur' = from'
      /\ pc' = IF from' < to' THEN "chunk" ELSE "wakeup"
  BY <1>2 DEF At!ReadState
<1> QED
  BY <1>1, <1>3 DEF Outer, world, history, rest, StateRead

LEMMA AtWakeup ==
    ASSUME NEW p, UNCHANGED <<stateBlock, msgs>>, At(p)!StateMoved \/ At(p)!WakeUp
    PROVE  UNCHANGED Outer /\ (MoveSeen(L1Of(p).stateBlock) \/ WakenAt(L1Of(p).stateBlock))
<1>1. CASE At(p)!StateMoved
  <2>1. /\ UNCHANGED <<indexed, price, inflight, txOk, stored, relayed, faults>>
        /\ UNCHANGED <<pc, from, to, lo, cur, ans, counted, reqs, todo, isHighFee>>
    BY <1>1 DEF At!StateMoved, At!world, At!walk, At!history
  <2>2. /\ pc = "wakeup" /\ L1Of(p).stateBlock > seen
        /\ seen' = L1Of(p).stateBlock /\ marked' = TRUE
    BY <1>1 DEF At!StateMoved
  <2> QED
    BY <2>1, <2>2 DEF Outer, world, history, walk, MoveSeen
<1>2. CASE At(p)!WakeUp
  <2>1. UNCHANGED <<indexed, price, inflight, txOk, stored, relayed, faults, isHighFee>>
    BY <1>2 DEF At!WakeUp, At!world, At!history
  <2>2. pc = "wakeup" /\ L1Of(p).stateBlock <= seen /\ marked
    BY <1>2 DEF At!WakeUp
  <2>3. NewRound
    BY <1>2, AtNewRound DEF At!WakeUp
  <2> QED
    BY <2>1, <2>2, <2>3 DEF Outer, world, history, WakenAt
<1> QED
  BY <1>1, <1>2

\* A read at a provider is a read with what the provider has.
LEMMA ReadCases ==
    ASSUME NEW p, ReadAt(p)
    PROVE  /\ UNCHANGED Outer /\ UNCHANGED copy /\ NoPages
           /\ ReadOf(L1Of(p).stateBlock, L1Of(p).msgs)
           /\ \/ View(L1Of(p).msgs)
                 /\ unseen' = unseen \cup {w \in Asked : Block[w] > L1Of(p).stateBlock}
              \/ pc # "view" /\ unseen' = unseen
<1> DEFINE b == L1Of(p).stateBlock
           m == L1Of(p).msgs
<1>1. UNCHANGED <<stateBlock, msgs>> /\ UNCHANGED copy /\ NoPages
  BY DEF ReadAt
<1>2. CASE /\ At(p)!ViewSome \/ At(p)!ViewLast \/ At(p)!ViewThrows
           /\ unseen' = unseen \cup {w \in Asked : Block[w] > L1Of(p).stateBlock}
  <2>1. UNCHANGED Outer /\ View(m)
    BY <1>1, <1>2, AtViewSome, AtViewLast, AtViewThrows DEF View
  <2> QED
    BY <1>1, <1>2, <2>1 DEF ReadOf
<1>3. CASE /\ At(p)!ReadState \/ At(p)!StateMoved \/ At(p)!WakeUp
           /\ UNCHANGED unseen
  <2>1. UNCHANGED Outer /\ (StateRead(b) \/ MoveSeen(b) \/ WakenAt(b))
    BY <1>1, <1>3, AtReadState, AtWakeup
  <2>2. pc # "view"
    BY <2>1 DEF StateRead, MoveSeen, WakenAt
  <2> QED
    BY <1>1, <1>3, <2>1, <2>2 DEF ReadOf
<1> QED
  BY <1>2, <1>3 DEF ReadAt

-----------------------------------------------------------------------------
(***************************************************************************)
(* Pages.                                                                  *)
(***************************************************************************)
\* At most c elements have a rank of at most c.
LEMMA RankUpper ==
    ASSUME NEW S \in SUBSET W, NEW c \in Nat, NEW A, A = {w \in S : Rank(S, w) <= c}
    PROVE  Cardinality(A) <= c
<1>1. A \in SUBSET W
  OBVIOUS
<1>2. CASE A = {}
  <2>1. Cardinality({}) = 0
    BY FS_EmptySet
  <2>2. Cardinality(A) = 0
    BY <1>2, <2>1, Zenon
  <2> QED
    BY <2>2
<1>3. CASE A # {}
  <2>1. PICK x \in A : \A y \in A : y <= x
    BY <1>1, <1>3, LastExists
  <2> DEFINE B == {y \in S : y <= x}
  <2>2. B \in SUBSET W /\ A \in SUBSET B
    BY <2>1
  <2>3. Cardinality(A) <= Cardinality(B)
    BY <2>2, SmallerSet
  <2>4. Cardinality(B) <= c /\ Cardinality(B) \in Nat /\ Cardinality(A) \in Nat
    BY <1>1, <2>1, <2>2, WFinite DEF Rank
  <2> QED
    BY <2>3, <2>4
<1> QED
  BY <1>2, <1>3

LEMMA RankType ==
    ASSUME NEW S \in SUBSET W, NEW w \in S
    PROVE  Rank(S, w) \in Nat /\ Rank(S, w) # 0
<1> DEFINE B == {y \in S : y <= w}
<1>0. w \in Int /\ w <= w
  OBVIOUS
<1>1. B \in SUBSET W /\ w \in B
  BY <1>0, Zenon
<1>2. IsFiniteSet(B) /\ Cardinality(B) \in Nat
  BY <1>1, WFinite
<1>3. Cardinality(B) # 0
  BY <1>1, <1>2, FS_EmptySet
<1> QED
  BY <1>2, <1>3 DEF Rank

\* The rows of S that k pages hold, and those of the page after them.
PagesOf(S, k) == {w \in S : Rank(S, w) <= k * PageLimit}
PageOf(S, k) == {w \in S : k * PageLimit < Rank(S, w) /\ Rank(S, w) <= (k + 1) * PageLimit}

LEMMA PageOffset ==
    ASSUME NEW k \in Nat
    PROVE  /\ k * PageLimit \in Nat /\ (k + 1) * PageLimit \in Nat
           /\ (k + 1) * PageLimit = k * PageLimit + PageLimit
           /\ 0 * PageLimit = 0
<1>1. \A i, j \in Nat : i * j \in Nat
  OBVIOUS
<1>2. \A i, j \in Nat : (i + 1) * j = i * j + j /\ 0 * j = 0
  OBVIOUS
<1> QED
  BY <1>1, <1>2

\* One page more.
LEMMA PagesNext ==
    ASSUME NEW S \in SUBSET W, NEW k \in Nat
    PROVE  /\ PagesOf(S, k + 1) = PagesOf(S, k) \cup PageOf(S, k)
           /\ PagesOf(S, k) \cap PageOf(S, k) = {}
           /\ PagesOf(S, 0) = {}
<1>1. \A w \in S : Rank(S, w) \in Nat /\ Rank(S, w) # 0
  BY RankType
<1> DEFINE a == k * PageLimit
           c == (k + 1) * PageLimit
<1>2. a \in Nat /\ c \in Nat /\ a <= c
  BY PageOffset
<1>3. PagesOf(S, 0) = {}
  <2>1. PagesOf(S, 0) = {w \in S : Rank(S, w) <= 0}
    BY PageOffset, Zenon DEF PagesOf
  <2>2. \A w \in S : ~(Rank(S, w) <= 0)
    BY <1>1
  <2> QED
    BY <2>1, <2>2, Zenon
<1>4. /\ PagesOf(S, k) = {w \in S : Rank(S, w) <= a}
      /\ PagesOf(S, k + 1) = {w \in S : Rank(S, w) <= c}
      /\ PageOf(S, k) = {w \in S : a < Rank(S, w) /\ Rank(S, w) <= c}
  BY DEF PagesOf, PageOf
<1> HIDE DEF a, c
<1>5. ASSUME NEW w \in S
      PROVE  /\ w \in PagesOf(S, k + 1) <=> w \in PagesOf(S, k) \/ w \in PageOf(S, k)
             /\ ~(w \in PagesOf(S, k) /\ w \in PageOf(S, k))
  <2>1. /\ w \in PagesOf(S, k) <=> Rank(S, w) <= a
        /\ w \in PagesOf(S, k + 1) <=> Rank(S, w) <= c
        /\ w \in PageOf(S, k) <=> a < Rank(S, w) /\ Rank(S, w) <= c
    BY <1>4
  <2> QED
    BY <1>1, <1>2, <2>1
<1>6. /\ PagesOf(S, k + 1) \in SUBSET S /\ PagesOf(S, k) \in SUBSET S
      /\ PageOf(S, k) \in SUBSET S
  BY DEF PagesOf, PageOf
<1> QED
  BY <1>3, <1>5, <1>6

\* After a short page there is no row left.
LEMMA ShortPage ==
    ASSUME NEW S \in SUBSET W, NEW k \in Nat, Cardinality(PageOf(S, k)) < PageLimit
    PROVE  PagesOf(S, k + 1) = S
<1> SUFFICES ASSUME PagesOf(S, k + 1) # S PROVE FALSE
  OBVIOUS
<1>1. PagesOf(S, k) \in SUBSET W /\ PageOf(S, k) \in SUBSET W
  BY DEF PagesOf, PageOf
<1>2. Cardinality(PagesOf(S, k + 1)) >= (k + 1) * PageLimit
  BY PageOffset, RankCount DEF PagesOf
<1>3. Cardinality(PagesOf(S, k)) <= k * PageLimit
  BY PageOffset, RankUpper DEF PagesOf
<1>4. Cardinality(PagesOf(S, k + 1)) = Cardinality(PagesOf(S, k)) + Cardinality(PageOf(S, k))
  BY <1>1, PagesNext, DisjointCount
<1>5. Cardinality(PagesOf(S, k)) \in Nat /\ Cardinality(PageOf(S, k)) \in Nat
  BY <1>1, WFinite
<1> QED
  BY <1>2, <1>3, <1>4, <1>5, PageOffset

\* What was fetched for the chunk so far is once every row of the first pages.
RowsInv ==
    \/ listed = NoRows /\ index = 0
    \/ /\ pc = "chunk" /\ cur # to /\ index \in Nat
       /\ listed = [w \in W |->
                      IF w \in PagesOf(List(cur, ChunkEnd(cur, to)), index) THEN 1 ELSE 0]

\* The indexer has all rows of the range of a round, whatever it adds meanwhile.
LEMMA RowsOfChunk ==
    ASSUME TypeOK, RangeInv, RowsInv, pc = "chunk", cur # to
    PROVE  LET L == List(cur, ChunkEnd(cur, to))
           IN  /\ L \in SUBSET W /\ index \in Nat
               /\ NextPage = PageOf(L, index)
               /\ Pushed = [w \in W |-> IF w \in PagesOf(L, index + 1) THEN 1 ELSE 0]
<1> USE DEF TypeOK, WorldOK, MemoryOK
<1> DEFINE L == List(cur, ChunkEnd(cur, to))
<1>1. cur \in Nat /\ to \in Nat /\ cur < to /\ to <= indexed
  BY DEF RangeInv, Walking
<1>2. ChunkEnd(cur, to) \in Nat /\ ChunkEnd(cur, to) <= to
  BY <1>1, ChunkEndType
<1>3. \A w \in L : w \in W /\ Block[w] \in Nat /\ Block[w] <= ChunkEnd(cur, to)
  BY DEF List
<1>4. Rows(cur, ChunkEnd(cur, to)) = L
  BY <1>1, <1>2, <1>3 DEF Rows
<1>5. L \in SUBSET W /\ index \in Nat
  BY DEF List, RowsInv
<1>6. NextPage = PageOf(L, index)
  BY <1>4 DEF NextPage, Page, PageOf
<1> HIDE DEF L
<1>7. listed = [w \in W |-> IF w \in PagesOf(L, index) THEN 1 ELSE 0]
  <2>1. CASE listed = NoRows /\ index = 0
    <3>1. PagesOf(L, index) = {}
      BY <1>5, <2>1, PagesNext
    <3> QED
      BY <2>1, <3>1 DEF NoRows
  <2> QED
    BY <2>1 DEF RowsInv, L
<1>8. Pushed = [w \in W |-> IF w \in PagesOf(L, index + 1) THEN 1 ELSE 0]
  <2> DEFINE A == PagesOf(L, index)
             B == PageOf(L, index)
             C == PagesOf(L, index + 1)
  <2>1. C = A \cup B /\ A \cap B = {}
    BY <1>5, PagesNext
  <2>2. Pushed = [w \in W |-> listed[w] + IF w \in B THEN 1 ELSE 0]
    BY <1>6 DEF Pushed
  <2>3. listed = [w \in W |-> IF w \in A THEN 1 ELSE 0]
    BY <1>7
  <2> HIDE DEF A, B, C
  <2>4. Pushed = [w \in W |-> IF w \in C THEN 1 ELSE 0]
    <3>1. \A w \in W : listed[w] + (IF w \in B THEN 1 ELSE 0) = IF w \in C THEN 1 ELSE 0
      BY <2>1, <2>3
    <3> QED
      BY <2>2, <3>1
  <2> QED
    BY <2>4 DEF C
<1> QED
  BY <1>5, <1>6, <1>8 DEF L

LEMMA FullPageRows ==
    ASSUME TypeOK, RangeInv, RowsInv, FullPage
    PROVE  RowsInv' /\ UNCHANGED vars
<1>1. pc = "chunk" /\ cur # to /\ UNCHANGED vars /\ UNCHANGED <<pc, cur, to>>
  BY DEF FullPage, vars, memory, bounds, walk
<1>2. index' \in Nat /\ listed' = [w \in W |->
          IF w \in PagesOf(List(cur, ChunkEnd(cur, to)), index') THEN 1 ELSE 0]
  BY <1>1, RowsOfChunk DEF FullPage
<1> QED
  BY <1>1, <1>2 DEF RowsInv

\* The last page ends a chunk that holds every row of it once: the pages of a
\* chunk are one answer.
LEMMA LastPageIsChunk ==
    ASSUME TypeOK, RangeInv, RowsInv, LastPage
    PROVE  NextChunk
<1> DEFINE L == List(cur, ChunkEnd(cur, to))
           R == Requests(cur, ChunkEnd(cur, to))
<1>1. /\ pc = "chunk" /\ cur # to /\ lo' = cur /\ cur' = ChunkEnd(cur, to)
      /\ Cardinality(NextPage) < PageLimit
  BY DEF LastPage
<1>2. /\ L \in SUBSET W /\ index \in Nat /\ NextPage = PageOf(L, index)
      /\ Pushed = [w \in W |-> IF w \in PagesOf(L, index + 1) THEN 1 ELSE 0]
  BY <1>1, RowsOfChunk
<1> HIDE DEF L
<1>3. PagesOf(L, index + 1) = L
  BY <1>1, <1>2, ShortPage
<1>4. \A w \in W : Pushed[w] = IF w \in L THEN 1 ELSE 0
  BY <1>2, <1>3
<1>5. \A w \in W : w \in R <=> w \in L /\ Eligible(w)
  BY DEF Requests, L
<1>6. R \in SUBSET W
  BY DEF Requests, List
<1> HIDE DEF R
<1>7. counted' = [w \in W |-> counted[w] + IF w \in R THEN 1 ELSE 0]
  <2>1. \A w \in W : (IF Eligible(w) THEN Pushed[w] ELSE 0) = IF w \in R THEN 1 ELSE 0
    BY <1>4, <1>5
  <2>2. counted' = [w \in W |-> counted[w] + IF Eligible(w) THEN Pushed[w] ELSE 0]
    BY DEF LastPage
  <2> QED
    BY <2>1, <2>2
<1>8. pc' = IF R = {} THEN "chunk" ELSE "view"
  <2>0. \A w \in W : Pushed[w] > 0 <=> w \in L
    BY <1>4
  <2>1. (\E w \in W : Eligible(w) /\ Pushed[w] > 0) <=> R # {}
    BY <1>5, <1>6, <2>0
  <2> QED
    BY <2>1 DEF LastPage
<1> QED
  BY <1>1, <1>7, <1>8 DEF LastPage, NextChunk, R

-----------------------------------------------------------------------------
(***************************************************************************)
(* Providers.                                                              *)
(***************************************************************************)
\* The first provider that answers is one of the list.
LEMMA ProviderType ==
    ASSUME NEW up \in (SUBSET P) \ {{}}
    PROVE  GetProvider(up) \in P
<1>1. up \in SUBSET Nat /\ up # {} /\ up \in SUBSET P
  OBVIOUS
<1>2. PICK p \in up : \A q \in up : ~(<<q, p>> \in OpToRel(<, Nat))
  BY <1>1, NatLessThanWellFounded, WFMin
<1>3. \A q \in up : ~(q < p)
  BY <1>1, <1>2 DEF OpToRel
<1>4. \E x \in up : \A q \in up : x <= q
  BY <1>1, <1>3
<1>5. GetProvider(up) \in up
  BY <1>4 DEF GetProvider
<1> QED
  BY <1>1, <1>5

\* L1 some blocks ago: what b and m miss was proved since.
Behind(b, m) ==
    /\ b \in 0..MaxBlock /\ b <= stateBlock
    /\ m \in [Hashes -> Nat]
    /\ \A h \in Hashes : msgs[h] <= m[h] + Later(h, b, stateBlock)

\* What the late providers have is L1 some blocks ago.
CopyInv ==
    /\ copy = [p \in Late |-> copy[p]]
    /\ \A p \in Late : Behind(copy[p].stateBlock, copy[p].msgs)

LEMMA CurrentBehind == ASSUME TypeOK PROVE Behind(stateBlock, msgs)
<1>1. /\ stateBlock \in 0..MaxBlock /\ stateBlock <= stateBlock /\ msgs \in [Hashes -> Nat]
  BY DEF TypeOK, WorldOK
<1>2. ASSUME NEW h \in Hashes PROVE msgs[h] <= msgs[h] + Later(h, stateBlock, stateBlock)
  <2>1. msgs[h] \in Nat /\ Later(h, stateBlock, stateBlock) \in Nat
    BY <1>1, LaterType
  <2> QED
    BY <2>1
<1> QED
  BY <1>1, <1>2 DEF Behind

LEMMA L1Behind ==
    ASSUME TypeOK, CopyInv, NEW p
    PROVE  Behind(L1Of(p).stateBlock, L1Of(p).msgs)
<1>1. CASE p \in Late
  BY <1>1 DEF L1Of, CopyInv
<1>2. CASE p \notin Late
  <2>1. L1Of(p).stateBlock = stateBlock /\ L1Of(p).msgs = msgs
    BY <1>2 DEF L1Of, Current
  <2> QED
    BY <2>1, CurrentBehind
<1> QED
  BY <1>1, <1>2

\* L1 goes on: a claim takes messages from it, a new block adds those of the block.
LEMMA BehindStays ==
    ASSUME TypeOK, [Next]_vars, NEW b, NEW m, Behind(b, m)
    PROVE  Behind(b, m)'
<1> USE DEF TypeOK, WorldOK
<1>1. CASE UNCHANGED <<stateBlock, msgs>>
  BY <1>1 DEF Behind
<1>2. CASE UpdateState
  <2>1. stateBlock' = stateBlock + 1 /\ stateBlock \in Nat /\ b \in Nat /\ b <= stateBlock
    BY <1>2 DEF UpdateState, Behind
  <2>2. ASSUME NEW h \in Hashes PROVE msgs'[h] <= m[h] + Later(h, b, stateBlock')
    <3> DEFINE new == Cardinality({w \in W : Hash[w] = h /\ Block[w] = stateBlock + 1})
    <3>1. new \in Nat
      BY WFinite
    <3>2. msgs'[h] = msgs[h] + new
      BY <1>2 DEF UpdateState
    <3>3. Later(h, b, stateBlock + 1) = Later(h, b, stateBlock) + new
      BY <2>1, LaterProve
    <3>4. msgs[h] <= m[h] + Later(h, b, stateBlock) /\ msgs[h] \in Nat /\ m[h] \in Nat
      BY DEF Behind
    <3>5. Later(h, b, stateBlock) \in Nat
      BY LaterType
    <3> HIDE DEF new
    <3> QED
      BY <2>1, <3>1, <3>2, <3>3, <3>4, <3>5
  <2> QED
    BY <2>1, <2>2 DEF Behind
<1>3. CASE SelfWithdraw \/ Mine
  <2>1. UNCHANGED stateBlock
    BY <1>3 DEF SelfWithdraw, Mine
  <2>2. ASSUME NEW h \in Hashes PROVE msgs'[h] \in Nat /\ msgs'[h] <= msgs[h] /\ msgs[h] \in Nat
    <3>1. CASE SelfWithdraw
      BY <3>1 DEF SelfWithdraw
    <3>2. CASE Mine
      <4>1. Head(inflight) \in SUBSET W /\ msgs' = Consume(msgs, Head(inflight))
        BY <3>2 DEF Mine
      <4>2. Consume(msgs, Head(inflight)) \in [Hashes -> Nat]
        BY <4>1, ConsumeType
      <4>3. Consume(msgs, Head(inflight))[h] <= msgs[h]
        BY <4>1, ConsumeLess
      <4> QED
        BY <4>1, <4>2, <4>3
    <3> QED
      BY <1>3, <3>1, <3>2
  <2>3. ASSUME NEW h \in Hashes PROVE msgs'[h] <= m[h] + Later(h, b, stateBlock)
    <3>1. msgs[h] <= m[h] + Later(h, b, stateBlock) /\ m[h] \in Nat
      BY DEF Behind
    <3>2. Later(h, b, stateBlock) \in Nat
      BY LaterType
    <3> QED
      BY <2>2, <3>1, <3>2
  <2> QED
    BY <2>1, <2>3 DEF Behind
<1>4. CASE \/ UNCHANGED vars \/ IndexBlock \/ PriceMoves \/ Round \/ Faults
  <2>1. UNCHANGED <<stateBlock, msgs>>
    BY <1>4 DEF vars, world, IndexBlock, PriceMoves, Round, Faults, ReadCheckpoint, ReadIndexer,
         ReadState, NextChunk, ViewSome, ViewLast, ViewThrows, NothingToConsume, CostCovered,
         CostNotCovered, Send, Confirmed, Reverted, SaveCheckpoint, StateMoved, WakeUp,
         Fail, SendAnswerLost, SaveAnswerLost, Crash
  <2> QED
    BY <1>1, <2>1
<1> QED
  BY <1>2, <1>3, <1>4 DEF Next, Environment

-----------------------------------------------------------------------------
(***************************************************************************)
(* The steps.                                                              *)
(***************************************************************************)
\* A late provider caught up.
Synced == UNCHANGED vars /\ \E p \in Late : copy' = [copy EXCEPT ![p] = Current]

\* Every step is one of Relayer, the end of a round, or a read at a provider.
LEMMA StepCases ==
    ASSUME TypeOK, RangeInv, RowsInv, [RNext]_rvars
    PROVE  /\ RowsInv'
           /\ \/ [Next]_vars /\ unseen' = unseen /\ (copy' = copy \/ Synced)
              \/ InvalidProviders
              \/ \E p \in P : ReadAt(p)
<1>0. NoPages => RowsInv'
  BY DEF NoPages, NoRows, RowsInv
<1>1. UNCHANGED <<pc, cur, to, listed, index>> => RowsInv'
  BY DEF RowsInv, NoRows
<1>2. CASE UNCHANGED rvars
  BY <1>1, <1>2 DEF rvars, vars, memory, bounds, walk, pages
<1>3. CASE ReadL1
  <2>1. PICK up \in (SUBSET P) \ {{}} : ReadAt(GetProvider(up))
    BY <1>3 DEF ReadL1
  <2>2. GetProvider(up) \in P
    BY ProviderType
  <2>3. NoPages
    BY <2>1 DEF ReadAt
  <2> QED
    BY <1>0, <2>1, <2>2, <2>3
<1>4. CASE InvalidProviders
  BY <1>0, <1>4 DEF InvalidProviders
<1>5. CASE FullPage
  BY <1>5, FullPageRows DEF FullPage
<1>6. CASE LastPage
  BY <1>0, <1>6, LastPageIsChunk DEF LastPage, Next, Round
<1>7. CASE Other
  BY <1>0, <1>7 DEF Other, Next, Round
<1>8. CASE Outside
  <2>1. CASE Environment /\ UNCHANGED <<copy, pages, unseen>>
    <3>1. UNCHANGED memory
      BY <2>1 DEF Environment, IndexBlock, UpdateState, SelfWithdraw, PriceMoves, Mine
    <3> QED
      BY <1>1, <2>1, <3>1 DEF Next, memory, bounds, walk, pages
  <2>2. ASSUME NEW p \in Late, Sync(p)
        PROVE  RowsInv' /\ Synced /\ unseen' = unseen
    BY <1>1, <2>2 DEF Sync, Synced, vars, memory, bounds, walk, pages
  <2> QED
    BY <1>8, <2>1, <2>2 DEF Outside, Synced
<1> QED
  BY <1>2, <1>3, <1>4, <1>5, <1>6, <1>7, <1>8 DEF RNext

LEMMA CopyStep ==
    ASSUME TypeOK, RangeInv, RowsInv, CopyInv, [RNext]_rvars, TypeOK'
    PROVE  CopyInv'
<1>1. CASE [Next]_vars /\ copy' = copy
  BY <1>1, BehindStays DEF CopyInv
<1>2. CASE Synced
  <2>1. PICK p \in Late : copy' = [copy EXCEPT ![p] = Current]
    BY <1>2 DEF Synced
  <2>2. UNCHANGED <<stateBlock, msgs>>
    BY <1>2 DEF Synced, vars, world
  <2>3. Behind(stateBlock, msgs)
    BY CurrentBehind
  <2>4. copy' = [q \in Late |-> IF q = p THEN Current ELSE copy[q]]
    BY <2>1 DEF CopyInv
  <2>5. ASSUME NEW q \in Late PROVE Behind(copy'[q].stateBlock, copy'[q].msgs)
    <3>1. CASE q = p
      BY <2>3, <2>4, <3>1 DEF Current
    <3>2. CASE q # p
      BY <2>4, <3>2 DEF CopyInv
    <3> QED
      BY <3>1, <3>2
  <2>6. \A q \in Late : Behind(copy[q].stateBlock, copy[q].msgs)'
    BY <2>2, <2>5 DEF Behind
  <2>7. copy' = [q \in Late |-> copy'[q]]
    BY <2>4
  <2> QED
    BY <2>6, <2>7 DEF CopyInv
<1>3. CASE UNCHANGED <<stateBlock, msgs, copy>>
  BY <1>3 DEF CopyInv, Behind
<1>4. CASE InvalidProviders \/ \E p \in P : ReadAt(p)
  BY <1>3, <1>4 DEF InvalidProviders, ReadAt, world
<1> QED
  BY <1>1, <1>2, <1>4, StepCases

-----------------------------------------------------------------------------
(***************************************************************************)
(* What holds of Relayer holds of its reads at a provider, and of the end  *)
(* of a round without one.                                                 *)
(***************************************************************************)
\* The invariants that say nothing of messages.
BaseInv == TypeOK /\ RangeInv /\ CheckpointBound /\ CountInv /\ GoingInv /\ WalkInv

LEMMA BaseStep == BaseInv /\ [Next]_vars => BaseInv' /\ stored' >= stored
<1>1. TypeOK /\ [Next]_vars => TypeOK'
  <2>1. TypeOK /\ UNCHANGED vars => TypeOK'
    BY SameWorld, SameMemory DEF TypeOK, vars, history
  <2> QED
    BY <2>1, EnvironmentType, RoundType, FaultsType DEF Next
<1> QED
  BY <1>1, RangeStep, CountStep, GoingStep, WalkStep DEF BaseInv

\* Outside the memory nothing moves, so only the memory has to be looked at.
LEMMA OuterBase ==
    ASSUME BaseInv, UNCHANGED Outer, MemoryOK', RangeInv', CountInv', GoingInv', WalkInv'
    PROVE  BaseInv' /\ stored' >= stored
<1>1. TypeOK'
  BY SameWorld DEF BaseInv, Outer, history, TypeOK
<1>2. CheckpointBound' /\ stored' >= stored
  BY DEF BaseInv, Outer, world, CheckpointBound, TypeOK, WorldOK
<1> QED
  BY <1>1, <1>2 DEF BaseInv

LEMMA EndBase ==
    ASSUME BaseInv, UNCHANGED Outer, NewRound, UNCHANGED isHighFee
    PROVE  BaseInv' /\ stored' >= stored
<1>1. MemoryOK'
  BY NewRoundType DEF BaseInv, TypeOK, MemoryOK
<1>2. GoingInv'
  BY DEF NewRound, GoingInv, Walking
<1> QED
  BY <1>1, <1>2, NewRoundInv, NewRoundWalk, OuterBase

LEMMA StateReadBase ==
    ASSUME BaseInv, UNCHANGED Outer, NEW b, b \in 0..MaxBlock, b <= stateBlock, StateRead(b)
    PROVE  BaseInv' /\ stored' >= stored
<1> USE DEF BaseInv, TypeOK, WorldOK, MemoryOK
<1>1. /\ to' = Lesser(to, b) /\ from' = Lesser(from, to') /\ lo' = from' /\ cur' = from'
      /\ pc = "state" /\ seen' = b /\ pc' = IF from' < to' THEN "chunk" ELSE "wakeup"
      /\ UNCHANGED <<ans, counted, reqs, todo, rest>>
      /\ UNCHANGED <<indexed, stateBlock, stored>>
  BY DEF StateRead, Outer, world
<1>2. /\ to' \in Nat /\ from' \in Nat /\ to' <= b /\ to' <= to
      /\ from' < to' => from' = from
  BY <1>1 DEF Lesser
<1>3. MemoryOK'
  BY <1>1, <1>2 DEF Locations, rest
<1>4. RangeInv'
  BY <1>1, <1>2 DEF RangeInv, Walking
<1>5. CountInv'
  <2>1. \A w \in W : w \notin Requests(from', cur')
    BY <1>1, <1>2, Tiling
  <2>2. counted' = [w \in W |-> 0]
    BY <1>1 DEF CountInv
  <2> QED
    BY <1>1, <2>1, <2>2 DEF CountInv
<1>6. GoingInv'
  BY <1>1, <1>2 DEF GoingInv, Checkpoint, Walking
<1>7. WalkInv'
  BY <1>1 DEF WalkInv, ChunkInv, CallsInv, BatchInv
<1> HIDE DEF BaseInv, TypeOK, WorldOK, MemoryOK
<1> QED
  BY <1>3, <1>4, <1>5, <1>6, <1>7, OuterBase

\* The answers of a view are counters.
LEMMA AnswersOfType ==
    ASSUME TypeOK, NEW m \in [Hashes -> Nat]
    PROVE  AnswersOf(m) \in [W -> Nat \cup {NoAnswer}]
  BY DEF TypeOK, MemoryOK, AnswersOf

LEMMA ViewBase ==
    ASSUME BaseInv, UNCHANGED Outer, NEW m \in [Hashes -> Nat], View(m)
    PROVE  BaseInv' /\ stored' >= stored
<1>0. UNCHANGED <<indexed, stateBlock, stored, inflight>>
  BY DEF Outer, world
<1>1. CASE SomeViewed(m)
  <2>1. pc = "view" /\ UNCHANGED <<pc, from, to, seen, lo, cur, counted, reqs, todo, marked, isHighFee>>
    BY <1>1 DEF SomeViewed, bounds, rest
  <2>2. MemoryOK'
    BY <1>1, <2>1, AnswersOfType DEF BaseInv, TypeOK, MemoryOK, SomeViewed
  <2>3. RangeInv' /\ CountInv' /\ GoingInv' /\ WalkInv'
    BY <1>0, <2>1 DEF BaseInv, RangeInv, CountInv, GoingInv, Checkpoint, WalkInv, ChunkInv,
                      CallsInv, BatchInv, Walked, Walking
  <2> QED
    BY <2>2, <2>3, OuterBase
<1>2. CASE LastViewed(m)
  <2>1. /\ pc = "view" /\ pc' = "chunk" /\ reqs' = reqs \cup ChoiceOf(m)
        /\ UNCHANGED <<from, to, seen, lo, cur, counted, todo, marked, isHighFee>>
    BY <1>2 DEF LastViewed, bounds, rest
  <2>2. ChoiceOf(m) \in SUBSET List(lo, cur) /\ List(lo, cur) \in SUBSET W
    BY DEF ChoiceOf, Selected, List
  <2>3. MemoryOK'
    BY <1>2, <2>1, <2>2, AnswersOfType DEF BaseInv, TypeOK, MemoryOK, LastViewed, Locations
  <2>4. RangeInv' /\ CountInv' /\ GoingInv'
    BY <1>0, <2>1 DEF BaseInv, RangeInv, CountInv, GoingInv, Checkpoint, Walking
  <2>5. WalkInv'
    BY <2>1, <2>2, ViewedCalls DEF BaseInv
  <2> QED
    BY <2>3, <2>4, <2>5, OuterBase
<1>3. CASE ViewThrown(m)
  BY <1>3, EndBase DEF ViewThrown
<1> QED
  BY <1>1, <1>2, <1>3 DEF View

LEMMA WakeupBase ==
    ASSUME BaseInv, UNCHANGED Outer, NEW b, b \in 0..MaxBlock, MoveSeen(b) \/ WakenAt(b)
    PROVE  BaseInv' /\ stored' >= stored
<1>1. CASE MoveSeen(b)
  <2>1. /\ pc = "wakeup" /\ seen' = b /\ marked' = TRUE
        /\ UNCHANGED <<pc, from, to, lo, cur, ans, counted, reqs, todo, isHighFee>>
    BY <1>1 DEF MoveSeen, walk
  <2>2. MemoryOK'
    BY <2>1 DEF BaseInv, TypeOK, MemoryOK
  <2>3. RangeInv' /\ CountInv' /\ GoingInv' /\ WalkInv'
    BY <2>1 DEF RangeInv, CountInv, GoingInv, WalkInv, ChunkInv, CallsInv, BatchInv, Walking
  <2> QED
    BY <2>2, <2>3, OuterBase
<1>2. CASE WakenAt(b)
  BY <1>2, EndBase DEF WakenAt
<1> QED
  BY <1>1, <1>2

RBaseInv == BaseInv /\ RowsInv /\ CopyInv

LEMMA InitRBase == RInit => RBaseInv
<1> SUFFICES ASSUME RInit PROVE RBaseInv
  OBVIOUS
<1>1. BaseInv
  BY InitType, InitRange, InitGoing, InitWalk DEF RInit, BaseInv
<1>2. RowsInv
  BY DEF RInit, RowsInv
<1>3. CopyInv
  BY <1>1, CurrentBehind DEF RInit, CopyInv, Current, BaseInv
<1> QED
  BY <1>1, <1>2, <1>3 DEF RBaseInv

LEMMA RBaseStep == RBaseInv /\ [RNext]_rvars => RBaseInv' /\ stored' >= stored
<1> SUFFICES ASSUME RBaseInv, [RNext]_rvars PROVE RBaseInv' /\ stored' >= stored
  OBVIOUS
<1>1. BaseInv' /\ stored' >= stored
  <2>1. CASE [Next]_vars
    BY <2>1, BaseStep DEF RBaseInv
  <2>2. CASE InvalidProviders
    BY <2>2, EndBase DEF InvalidProviders, Outer, RBaseInv
  <2>3. ASSUME NEW p \in P, ReadAt(p)
        PROVE  BaseInv' /\ stored' >= stored
    <3> DEFINE b == L1Of(p).stateBlock
               m == L1Of(p).msgs
    <3>1. Behind(b, m)
      BY L1Behind DEF RBaseInv, BaseInv
    <3>2. UNCHANGED Outer /\ ReadOf(b, m)
      BY <2>3, ReadCases
    <3> HIDE DEF b, m
    <3> QED
      BY <3>1, <3>2, StateReadBase, ViewBase, WakeupBase DEF RBaseInv, ReadOf, Behind
  <2> QED
    BY <2>1, <2>2, <2>3, StepCases DEF RBaseInv, BaseInv
<1>2. RowsInv'
  BY StepCases DEF RBaseInv, BaseInv
<1>3. CopyInv'
  BY <1>1, CopyStep DEF RBaseInv, BaseInv
<1> QED
  BY <1>1, <1>2, <1>3 DEF RBaseInv

\* Whichever providers answer, and are late, the checkpoint stays behind the
\* indexer and L1 (CheckpointBound).
THEOREM BoundedAtProviders == RSpec => []CheckpointBound
<1>1. RSpec => []RBaseInv
  BY InitRBase, RBaseStep, PTL DEF RSpec
<1>2. RBaseInv => CheckpointBound
  BY DEF RBaseInv, BaseInv
<1> QED
  BY <1>1, <1>2, PTL

\* Every paid withdrawal of a range is fetched and counted exactly once, however
\* its chunks are cut into pages and whatever the indexer adds between two pages
\* (FetchedOnce).
THEOREM PagesAreTiled == RSpec => []FetchedOnce
<1>1. RSpec => []RBaseInv
  BY InitRBase, RBaseStep, PTL DEF RSpec
<1>2. RBaseInv => FetchedOnce
  BY DEF RBaseInv, BaseInv, RangeInv, CountInv, FetchedOnce, Walking
<1> QED
  BY <1>1, <1>2, PTL

\* Nor does it move back (CheckpointMonotone): a late provider shortens a range,
\* which is then empty, and stores nothing.
THEOREM NeverBackAtProviders == RSpec => CheckpointMonotone
<1>1. RSpec => []RBaseInv
  BY InitRBase, RBaseStep, PTL DEF RSpec
<1>2. RBaseInv /\ [RNext]_rvars => [stored' >= stored]_vars
  BY RBaseStep
<1> QED
  BY <1>1, <1>2, PTL DEF RSpec, CheckpointMonotone

-----------------------------------------------------------------------------
(***************************************************************************)
(* Providers in step.                                                      *)
(***************************************************************************)
\* A read of what L1 has now is a read of Relayer.
LEMMA ReadIsRelayer ==
    ASSUME UNCHANGED Outer, ReadOf(stateBlock, msgs)
    PROVE  Next
<1>0. UNCHANGED <<world, stored, history>>
  BY DEF Outer
<1>1. AnswersOf(msgs) = Answers /\ ChoiceOf(msgs) = Choice
  BY DEF AnswersOf, Answers, ChoiceOf, Choice
<1>2. CASE StateRead(stateBlock)
  <2>1. ReadState
    BY <1>0, <1>2 DEF StateRead, ReadState
  <2> QED
    BY <2>1 DEF Next, Round
<1>3. CASE View(msgs)
  <2>1. ViewSome \/ ViewLast \/ ViewThrows
    BY <1>0, <1>1, <1>3 DEF View, SomeViewed, LastViewed, ViewThrown, ViewSome, ViewLast, ViewThrows
  <2> QED
    BY <2>1 DEF Next, Round
<1>4. CASE MoveSeen(stateBlock) \/ WakenAt(stateBlock)
  <2>1. StateMoved \/ WakeUp
    BY <1>0, <1>4 DEF MoveSeen, WakenAt, StateMoved, WakeUp
  <2> QED
    BY <2>1 DEF Next, Round
<1> QED
  BY <1>2, <1>3, <1>4 DEF ReadOf

\* While no provider is behind L1, every step is one of Relayer, or the end of a
\* round that no provider answered (InStepIsRelayer): all that is proved of
\* Relayer's steps holds of the rounds that page, too.
THEOREM InStepRefinesRelayer == RSpec => InStepIsRelayer
<1>1. RSpec => []RBaseInv
  BY InitRBase, RBaseStep, PTL DEF RSpec
<1>2. RBaseInv /\ [RNext]_rvars
        => [(\A p \in Late : copy[p] = Current) => [Next \/ InvalidProviders]_vars]_rvars
  <2> SUFFICES ASSUME RBaseInv, [RNext]_rvars, \A p \in Late : copy[p] = Current
               PROVE  [Next \/ InvalidProviders]_vars
    OBVIOUS
  <2>1. ASSUME NEW p \in P, ReadAt(p)
        PROVE  Next
    <3>1. L1Of(p) = Current
      BY DEF L1Of
    <3>2. L1Of(p).stateBlock = stateBlock /\ L1Of(p).msgs = msgs
      BY <3>1 DEF Current
    <3>3. UNCHANGED Outer /\ ReadOf(L1Of(p).stateBlock, L1Of(p).msgs)
      BY <2>1, ReadCases
    <3>4. ReadOf(stateBlock, msgs)
      BY <3>2, <3>3
    <3> QED
      BY <3>3, <3>4, ReadIsRelayer
  <2> QED
    BY <2>1, StepCases DEF RBaseInv, BaseInv
<1> QED
  BY <1>1, <1>2, PTL DEF RSpec, InStepIsRelayer

-----------------------------------------------------------------------------
(***************************************************************************)
(* Loss.                                                                   *)
(***************************************************************************)
\* What is lost of a hash, unless its counter was asked too early.
Trusted(h) == \A w \in unseen : Hash[w] # h
TrustedLoss == \A h \in Hashes : Trusted(h) => LossOf(h)

\* A provider that had the blocks of the requests it was asked for knows them.
LEMMA BehindKnows ==
    ASSUME TypeOK, NEW h \in Hashes, NEW b, NEW m, Behind(b, m),
           \A w \in Asked : Hash[w] = h => Block[w] <= b
    PROVE  Knows(m, h)
<1> SUFFICES ASSUME NEW e \in Asked, Hash[e] = h
             PROVE  msgs[h] <= m[h] + Later(h, Block[e], stateBlock)
  BY DEF Knows, Asked
<1>1. e \in W /\ Block[e] <= b /\ Block[e] \in Nat
  BY DEF Asked, FirstOf, Unanswered, Requests, List
<1>2. b \in Nat /\ msgs[h] \in Nat /\ m[h] \in Nat /\ msgs[h] <= m[h] + Later(h, b, stateBlock)
  BY DEF Behind, TypeOK, WorldOK
<1>3. LaterOf(h, b, stateBlock) \in SUBSET LaterOf(h, Block[e], stateBlock)
  <2> SUFFICES ASSUME NEW w \in W, b < Block[w] PROVE Block[e] < Block[w]
    BY DEF LaterOf
  <2>1. Block[w] \in Nat
    OBVIOUS
  <2> QED
    BY <1>1, <1>2, <2>1
<1>4. Later(h, b, stateBlock) <= Later(h, Block[e], stateBlock)
  BY <1>3, LaterType, SmallerSet DEF Later
<1>5. Later(h, b, stateBlock) \in Nat /\ Later(h, Block[e], stateBlock) \in Nat
  BY LaterType
<1> QED
  BY <1>2, <1>4, <1>5

\* A view loses nothing of a hash when the provider knows it.
LEMMA ViewLoss ==
    ASSUME AlignedChunks, BaseInv, UNCHANGED Outer, NEW h \in Hashes, LossOf(h),
           NEW m \in [Hashes -> Nat], Knows(m, h), View(m)
    PROVE  LossOf(h)'
<1>0. UNCHANGED <<stateBlock, msgs, stored, inflight>> /\ TypeOK /\ RangeInv /\ WalkInv
  BY DEF Outer, world, BaseInv
<1>1. CASE SomeViewed(m)
  BY <1>0, <1>1, ViewSomeLoss DEF SomeViewed
<1>2. CASE LastViewed(m)
  BY <1>0, <1>2, ViewLastLoss DEF LastViewed, ChoiceOf
<1>3. CASE ViewThrown(m)
  BY <1>0, <1>3, IdleLoss DEF ViewThrown, NewRound, LossOf, Walking
<1> QED
  BY <1>1, <1>2, <1>3 DEF View

\* The other reads lose nothing at all, however late they are.
LEMMA OtherReadLoss ==
    ASSUME BaseInv, UNCHANGED Outer, NEW h \in Hashes, LossOf(h), NEW b, b \in 0..MaxBlock,
           StateRead(b) \/ MoveSeen(b) \/ WakenAt(b)
    PROVE  LossOf(h)'
<1>0. UNCHANGED <<stateBlock, msgs, stored>>
  BY DEF Outer, world
<1>1. CASE StateRead(b)
  <2>1. /\ reqs' = {} /\ from = stored /\ from \in Nat /\ to' \in Nat
        /\ from' = Lesser(from, to') /\ cur' = from'
        /\ pc' = IF from' < to' THEN "chunk" ELSE "wakeup"
    BY <1>1 DEF StateRead, BaseInv, TypeOK, MemoryOK, WalkInv, CallsInv, RangeInv, Lesser
  <2>2. pc' = "chunk" => cur' = stored
    BY <2>1 DEF Lesser
  <2> QED
    BY <1>0, <2>1, <2>2, BeginLoss DEF BaseInv
<1>2. CASE MoveSeen(b) \/ WakenAt(b)
  BY <1>0, <1>2, IdleLoss DEF MoveSeen, WakenAt, NewRound, LossOf, Walking
<1> QED
  BY <1>1, <1>2

LEMMA TrustedStep ==
    AlignedChunks /\ RBaseInv /\ TrustedLoss /\ [RNext]_rvars => TrustedLoss'
<1> SUFFICES ASSUME AlignedChunks, RBaseInv, TrustedLoss, [RNext]_rvars,
                    NEW h \in Hashes, Trusted(h)'
             PROVE  LossOf(h)'
  BY DEF TrustedLoss
<1>0. BaseInv /\ TypeOK /\ RangeInv /\ CheckpointBound /\ WalkInv
  BY DEF RBaseInv, BaseInv
<1>1. CASE [Next]_vars /\ unseen' = unseen
  <2>1. LossOf(h)
    BY <1>1 DEF TrustedLoss, Trusted
  <2> QED
    BY <1>0, <1>1, <2>1, LossOfStep
<1>2. CASE InvalidProviders
  <2>1. LossOf(h)
    BY <1>2 DEF InvalidProviders, TrustedLoss, Trusted
  <2> QED
    BY <1>2, <2>1, IdleLoss DEF InvalidProviders, NewRound, LossOf, Walking, world
<1>3. ASSUME NEW p \in P, ReadAt(p)
      PROVE  LossOf(h)'
  <2> DEFINE b == L1Of(p).stateBlock
             m == L1Of(p).msgs
  <2>1. Behind(b, m)
    BY <1>0, L1Behind DEF RBaseInv
  <2>2. UNCHANGED Outer /\ ReadOf(b, m)
    BY <1>3, ReadCases
  <2>3. \/ View(m) /\ unseen' = unseen \cup {w \in Asked : Block[w] > b}
        \/ pc # "view" /\ unseen' = unseen
    BY <1>3, ReadCases
  <2> HIDE DEF b, m
  <2>4. LossOf(h)
    BY <2>3 DEF TrustedLoss, Trusted
  <2>5. CASE View(m) /\ unseen' = unseen \cup {w \in Asked : Block[w] > b}
    <3>1. \A w \in Asked : Hash[w] = h => Block[w] <= b
      <4> SUFFICES ASSUME NEW w \in Asked, Hash[w] = h PROVE Block[w] <= b
        OBVIOUS
      <4>1. ~(Block[w] > b)
        BY <2>5 DEF Trusted
      <4>2. Block[w] \in Nat /\ b \in Nat
        BY <2>1 DEF Behind, Asked, FirstOf, Unanswered, Requests, List
      <4> QED
        BY <4>1, <4>2
    <3>2. Knows(m, h) /\ m \in [Hashes -> Nat]
      BY <1>0, <2>1, <3>1, BehindKnows DEF Behind
    <3> QED
      BY <1>0, <2>2, <2>4, <2>5, <3>2, ViewLoss
  <2>6. CASE pc # "view"
    <3>1. StateRead(b) \/ MoveSeen(b) \/ WakenAt(b)
      BY <2>2, <2>6 DEF ReadOf, View, SomeViewed, LastViewed, ViewThrown
    <3>2. b \in 0..MaxBlock
      BY <2>1 DEF Behind
    <3> QED
      BY <1>0, <2>2, <2>4, <3>1, <3>2, OtherReadLoss
  <2> QED
    BY <2>3, <2>5, <2>6
<1> QED
  BY <1>0, <1>1, <1>2, <1>3, StepCases DEF RBaseInv

LEMMA InitTrusted == RInit => TrustedLoss
  BY InitLoss DEF RInit, TrustedLoss, LossInv

\* A paid withdrawal is left behind only if the counter of its hash was asked of
\* a provider that did not have the block yet (LossNeedsLag): neither pages, nor
\* a provider that is late for any other call, loses anything.
THEOREM LagIsNeededToLose == AlignedChunks /\ RSpec => []LossNeedsLag
<1>1. RSpec => []RBaseInv
  BY InitRBase, RBaseStep, PTL DEF RSpec
<1>2. AlignedChunks => AlignedChunks'
  BY DEF AlignedChunks, Eligible
<1>3. AlignedChunks /\ RSpec => []TrustedLoss
  BY <1>1, <1>2, InitTrusted, TrustedStep, PTL DEF RSpec
<1>4. TrustedLoss => LossNeedsLag
  BY DEF TrustedLoss, Trusted, LossNeedsLag, LossOf, LossAt, Owed
<1> QED
  BY <1>3, <1>4, PTL

-----------------------------------------------------------------------------
(***************************************************************************)
(* The promise.                                                            *)
(***************************************************************************)
LEMMA RPaidStep ==
    AlignedChunks /\ RBaseInv /\ PaidInv /\ [RNext]_rvars => PaidInv'
<1> SUFFICES ASSUME AlignedChunks, RBaseInv, PaidInv, [RNext]_rvars PROVE PaidInv'
  OBVIOUS
<1>0. TypeOK /\ RangeInv /\ WalkInv /\ RowsInv
  BY DEF RBaseInv, BaseInv
<1>1. CASE [Next]_vars
  BY <1>0, <1>1, PaidStep
<1>2. ASSUME NewRound, UNCHANGED Outer PROVE PaidInv'
  BY <1>2 DEF NewRound, Outer, world, history, PaidInv, Paid, OnlyPaidRelayed
<1>3. ASSUME NEW p \in P, ReadAt(p) PROVE PaidInv'
  <2>1. PICK b, m : UNCHANGED Outer /\ ReadOf(b, m)
    BY <1>3, ReadCases
  <2>2. UNCHANGED <<inflight, relayed>>
    BY <2>1 DEF Outer, world, history
  <2>3. CASE LastViewed(m)
    BY <1>0, <2>2, <2>3, ViewedPaid DEF LastViewed, ChoiceOf
  <2>4. CASE StateRead(b) \/ SomeViewed(m) \/ MoveSeen(b)
    <3>1. UNCHANGED <<reqs, todo>>
      BY <2>4 DEF StateRead, SomeViewed, MoveSeen, walk
    <3> QED
      BY <2>2, <3>1 DEF PaidInv, Paid, OnlyPaidRelayed
  <2>5. CASE ViewThrown(m) \/ WakenAt(b)
    BY <1>2, <2>1, <2>5 DEF ViewThrown, WakenAt
  <2> QED
    BY <2>1, <2>3, <2>4, <2>5 DEF ReadOf, View
<1>4. CASE InvalidProviders
  BY <1>2, <1>4 DEF InvalidProviders, Outer
<1> QED
  BY <1>0, <1>1, <1>3, <1>4, StepCases

\* Until a counter was asked too early, every step is one of the promise
\* (PromiseInStep), whichever providers answer and however late they are.
THEOREM PromiseAtProviders == AlignedChunks /\ RSpec => PromiseInStep
<1>1. RSpec => []RBaseInv
  BY InitRBase, RBaseStep, PTL DEF RSpec
<1>2. AlignedChunks => AlignedChunks'
  BY DEF AlignedChunks, Eligible
<1>3. AlignedChunks /\ RSpec => [](TrustedLoss /\ PaidInv)
  <2>1. RInit => PaidInv
    BY InitPaid DEF RInit
  <2> QED
    BY <1>1, <1>2, <2>1, InitTrusted, TrustedStep, RPaidStep, PTL DEF RSpec
<1>4. RBaseInv /\ TrustedLoss /\ PaidInv /\ [RNext]_rvars
        => [unseen' = {} => [Promise!ANext]_(Promise!avars)]_rvars
  <2> SUFFICES ASSUME RBaseInv, TrustedLoss, PaidInv, [RNext]_rvars, unseen' = {}
               PROVE  [Promise!ANext]_(Promise!avars)
    OBVIOUS
  <2>0. TypeOK /\ RangeInv /\ GoingInv /\ WalkInv /\ RowsInv
    BY DEF RBaseInv, BaseInv
  <2>1. CASE [Next]_vars /\ unseen' = unseen
    <3>1. LossInv
      BY <2>0, <2>1 DEF TrustedLoss, Trusted, LossInv
    <3> QED
      BY <2>0, <2>1, <3>1, PromiseStep
  <2>2. ASSUME UNCHANGED Outer PROVE UNCHANGED Promise!avars
    BY <2>2 DEF Outer, world, Promise!avars
  <2>3. ASSUME NEW p \in P, ReadAt(p) PROVE UNCHANGED Outer
    BY <2>3, ReadCases
  <2>4. InvalidProviders => UNCHANGED Outer
    BY DEF InvalidProviders, Outer
  <2> QED
    BY <2>0, <2>1, <2>2, <2>3, <2>4, StepCases
<1> QED
  BY <1>1, <1>3, <1>4, PTL DEF RSpec, PromiseInStep

\* And the relayer pays for nothing that was not paid, late providers or not
\* (OnlyPaidRelayed).
THEOREM OnlyPaidAtProviders == AlignedChunks /\ RSpec => []OnlyPaidRelayed
<1>1. RSpec => []RBaseInv
  BY InitRBase, RBaseStep, PTL DEF RSpec
<1>2. AlignedChunks => AlignedChunks'
  BY DEF AlignedChunks, Eligible
<1>3. RInit => PaidInv
  BY InitPaid DEF RInit
<1>4. AlignedChunks /\ RSpec => []PaidInv
  BY <1>1, <1>2, <1>3, RPaidStep, PTL DEF RSpec
<1>5. PaidInv => OnlyPaidRelayed
  BY DEF PaidInv
<1> QED
  BY <1>4, <1>5, PTL

-----------------------------------------------------------------------------
(***************************************************************************)
(* Ahead of the checkpoint.                                                *)
(***************************************************************************)
LEMMA RAheadStep == RBaseInv /\ AheadInv /\ [RNext]_rvars => AheadInv'
<1> SUFFICES ASSUME RBaseInv, AheadInv, [RNext]_rvars PROVE AheadInv'
  OBVIOUS
<1>0. TypeOK /\ RangeInv /\ RowsInv
  BY DEF RBaseInv, BaseInv
<1>1. CASE [Next]_vars
  BY <1>0, <1>1, AheadStep
<1>2. ASSUME NewRound, UNCHANGED Outer, pc # "wait" PROVE AheadInv'
  <2>1. UNCHANGED <<inflight, faults>>
    BY <1>2 DEF Outer, world, history
  <2> QED
    BY <1>2, <2>1, NewRoundAhead DEF AheadInv, BatchOfRound
<1>3. ASSUME NEW p \in P, ReadAt(p) PROVE AheadInv'
  <2>1. PICK b, m : UNCHANGED Outer /\ ReadOf(b, m)
    BY <1>3, ReadCases
  <2>2. UNCHANGED <<inflight, faults, stored>>
    BY <2>1 DEF Outer, world, history
  <2>3. CASE LastViewed(m)
    <3>1. /\ pc = "view" /\ pc' = "chunk" /\ reqs' = reqs \cup ChoiceOf(m)
          /\ UNCHANGED <<lo, cur, todo>>
      BY <2>3 DEF LastViewed
    <3>2. ChoiceOf(m) \in SUBSET List(lo, cur)
      BY DEF ChoiceOf, Selected
    <3> QED
      BY <1>0, <2>2, <3>1, <3>2, ViewedAhead
  <2>4. CASE StateRead(b)
    <3>1. pc = "state" /\ pc' \in {"chunk", "wakeup"} /\ UNCHANGED <<reqs, todo>>
      BY <2>4 DEF StateRead
    <3> QED
      BY <2>2, <3>1 DEF AheadInv, BatchOfRound, Walking
  <2>5. CASE SomeViewed(m)
    <3>1. pc = "view" /\ UNCHANGED <<pc, lo, cur, reqs, todo>>
      BY <2>5 DEF SomeViewed
    <3> QED
      BY <2>2, <3>1 DEF AheadInv, BatchOfRound, Walked, Walking
  <2>6. CASE MoveSeen(b)
    <3>1. pc = "wakeup" /\ UNCHANGED <<pc, reqs, todo>>
      BY <2>6 DEF MoveSeen, walk
    <3> QED
      BY <2>2, <3>1 DEF AheadInv, BatchOfRound, Walking
  <2>7. CASE ViewThrown(m) \/ WakenAt(b)
    BY <1>2, <2>1, <2>7 DEF ViewThrown, WakenAt
  <2> QED
    BY <2>1, <2>3, <2>4, <2>5, <2>6, <2>7 DEF ReadOf, View
<1>4. CASE InvalidProviders
  BY <1>2, <1>4 DEF InvalidProviders, Outer
<1> QED
  BY <1>0, <1>1, <1>3, <1>4, StepCases

\* Before the first fault nothing at or below the checkpoint is relayed
\* (RelayedAhead), also by a relayer whose rounds end, between two batches, for
\* want of a provider, and begin again at another that is late.
THEOREM AheadAtProviders == RSpec => RelayedAhead
<1>1. RSpec => []RBaseInv
  BY InitRBase, RBaseStep, PTL DEF RSpec
<1>2. RInit => AheadInv
  BY InitAhead DEF RInit
<1>3. RSpec => []AheadInv
  BY <1>1, <1>2, RAheadStep, PTL DEF RSpec
<1>4. RBaseInv /\ AheadInv /\ [RNext]_rvars
        => [faults = 0 => \A w \in W : relayed'[w] > relayed[w] => stored < Block[w]]_vars
  <2> SUFFICES ASSUME RBaseInv, AheadInv, [RNext]_rvars, faults = 0, NEW w \in W,
                      relayed'[w] > relayed[w]
               PROVE  stored < Block[w]
    OBVIOUS
  <2>0. TypeOK /\ RangeInv /\ RowsInv /\ relayed[w] \in Nat
    BY DEF RBaseInv, BaseInv, TypeOK
  <2>1. ASSUME UNCHANGED Outer PROVE FALSE
    BY <2>0, <2>1 DEF Outer, history
  <2>2. ASSUME NEW p \in P, ReadAt(p) PROVE FALSE
    BY <2>1, <2>2, ReadCases
  <2>3. ~InvalidProviders
    BY <2>1 DEF InvalidProviders, Outer
  <2>4. [Next]_vars
    BY <2>0, <2>2, <2>3, StepCases
  <2>5. Mine
    BY <2>0, <2>4, OnlyMineRelays
  <2>6. w \in todo /\ pc = "wait"
    BY <2>0, <2>5, MineRelays
  <2> QED
    BY <2>6 DEF AheadInv, Walking
<1> QED
  BY <1>1, <1>3, <1>4, PTL DEF RSpec, RelayedAhead
=============================================================================
