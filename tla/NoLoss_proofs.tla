--------------------------- MODULE NoLoss_proofs ---------------------------
(***************************************************************************)
(* No paid withdrawal is left behind, for every history in which no        *)
(* ineligible withdrawal stands before an eligible one within a chunk.     *)
(*                                                                         *)
(* The argument follows what is still on L1 for one hash through a round:  *)
(* it is never more than the withdrawals that are not owed at the walked   *)
(* block, plus the calls that the round is still going to make.            *)
(***************************************************************************)
EXTENDS Relayer_proofs, SequenceTheorems, WellFoundedInduction

USE CountAssumption, HistoryAssumption, ConfigAssumption DEF W

(***************************************************************************)
(* Counting.                                                               *)
(***************************************************************************)
Of(S, h) == {w \in S : Hash[w] = h}
SizeOf(S, h) == Cardinality(Of(S, h))
Owed(h, b, p) == Cardinality(NotOwed(h, b, p))

LEMMA SizeType ==
    ASSUME NEW S \in SUBSET W, NEW h
    PROVE  Of(S, h) \in SUBSET W /\ SizeOf(S, h) \in Nat
<1>1. Of(S, h) \in SUBSET W
  BY DEF Of
<1> QED
  BY <1>1, WFinite DEF SizeOf

LEMMA OwedType ==
    ASSUME NEW h, NEW b, NEW p
    PROVE  NotOwed(h, b, p) \in SUBSET W /\ Owed(h, b, p) \in Nat
<1>1. NotOwed(h, b, p) \in SUBSET W
  BY DEF NotOwed, Sent
<1> QED
  BY <1>1, WFinite DEF Owed

LEMMA SmallerSet ==
    ASSUME NEW S \in SUBSET W, NEW T \in SUBSET S
    PROVE  Cardinality(T) <= Cardinality(S)
  BY WFinite, FS_Subset

\* Two parts count at most together.
LEMMA CoverCount ==
    ASSUME NEW S \in SUBSET W, NEW T \in SUBSET W, NEW U \in SUBSET (S \cup T)
    PROVE  Cardinality(U) <= Cardinality(S) + Cardinality(T)
<1>1. IsFiniteSet(S) /\ IsFiniteSet(T) /\ IsFiniteSet(S \cap T) /\ IsFiniteSet(S \cup T)
  BY WFinite
<1>2. Cardinality(S \cup T) = Cardinality(S) + Cardinality(T) - Cardinality(S \cap T)
  BY <1>1, FS_Union
<1>3. /\ Cardinality(S) \in Nat /\ Cardinality(T) \in Nat /\ Cardinality(S \cap T) \in Nat
      /\ Cardinality(S \cup T) \in Nat /\ Cardinality(U) \in Nat
  BY WFinite
<1>4. Cardinality(U) <= Cardinality(S \cup T)
  BY SmallerSet
<1> QED
  BY <1>2, <1>3, <1>4

\* Disjoint parts count together.
LEMMA DisjointCount ==
    ASSUME NEW S \in SUBSET W, NEW T \in SUBSET W, S \cap T = {}
    PROVE  Cardinality(S \cup T) = Cardinality(S) + Cardinality(T)
<1>1. IsFiniteSet(S) /\ IsFiniteSet(T) /\ Cardinality(S) \in Nat /\ Cardinality(T) \in Nat
  BY WFinite
<1>2. Cardinality(S \cap T) = 0
  BY FS_EmptySet
<1>3. Cardinality(S \cup T) = Cardinality(S) + Cardinality(T) - Cardinality(S \cap T)
  BY <1>1, FS_Union
<1> QED
  BY <1>1, <1>2, <1>3

\* Withdrawals have a first one.
LEMMA FirstExists ==
    ASSUME NEW S \in SUBSET W, S # {}
    PROVE  \E x \in S : \A y \in S : x <= y
<1>1. S \in SUBSET Nat
  OBVIOUS
<1>2. PICK x \in S : \A y \in S : ~(<<y, x>> \in OpToRel(<, Nat))
  BY <1>1, NatLessThanWellFounded, WFMin
<1>3. \A y \in S : ~(y < x)
  BY <1>1, <1>2 DEF OpToRel
<1> QED
  BY <1>1, <1>3

\* And a last one.
LEMMA LastExists ==
    ASSUME NEW S \in SUBSET W, S # {}
    PROVE  \E x \in S : \A y \in S : y <= x
<1> DEFINE M == {N + 1 - x : x \in S}
<1>1. M \in SUBSET W /\ M # {}
  OBVIOUS
<1>2. PICK m \in M : \A y \in M : m <= y
  BY <1>1, FirstExists
<1>3. PICK x \in S : m = N + 1 - x
  BY <1>2
<1>4. \A y \in S : N + 1 - x <= N + 1 - y
  BY <1>2, <1>3
<1> QED
  BY <1>3, <1>4

\* The elements of rank at most c are all, or at least c.
LEMMA RankCount ==
    ASSUME NEW T \in SUBSET W, NEW c \in Nat,
           NEW A, A = {e \in T : Rank(T, e) <= c}, A # T
    PROVE  Cardinality(A) >= c
<1>1. A \in SUBSET W /\ T \ A \in SUBSET W /\ T \ A # {}
  OBVIOUS
<1>2. PICK m \in T \ A : \A y \in T \ A : m <= y
  BY <1>1, FirstExists
<1> DEFINE B == {x \in T : x <= m}
<1>3. B \in SUBSET (A \cup {m})
  BY <1>1, <1>2
<1>4. IsFiniteSet(A) /\ Cardinality(A) \in Nat /\ m \notin A
  BY <1>1, <1>2, WFinite
<1>5. A \cup {m} \in SUBSET W /\ Cardinality(A \cup {m}) = Cardinality(A) + 1
  <2>1. A \cup {m} \in SUBSET W
    BY <1>1, <1>2
  <2>2. Cardinality(A \cup {m}) = IF m \in A THEN Cardinality(A) ELSE Cardinality(A) + 1
    BY <1>4, FS_AddElement
  <2> QED
    BY <1>4, <2>1, <2>2
<1>6. Cardinality(B) <= Cardinality(A) + 1
  BY <1>3, <1>5, SmallerSet
<1>7. Cardinality(B) \in Nat /\ ~(Cardinality(B) <= c)
  <2>1. B \in SUBSET W
    OBVIOUS
  <2> QED
    BY <1>2, <2>1, WFinite DEF Rank
<1> QED
  BY <1>4, <1>6, <1>7

-----------------------------------------------------------------------------
(***************************************************************************)
(* What is owed.                                                           *)
(***************************************************************************)
LEMMA SizeMonotone ==
    ASSUME NEW S \in SUBSET W, NEW T \in SUBSET S, NEW h
    PROVE  SizeOf(T, h) <= SizeOf(S, h)
<1>1. Of(T, h) \in SUBSET Of(S, h) /\ Of(S, h) \in SUBSET W
  BY DEF Of
<1> QED
  BY <1>1, SmallerSet DEF SizeOf

\* A walk from p to q takes over what it has listed as a request.
LEMMA OwedWalk ==
    ASSUME NEW h, NEW b \in Nat, NEW p \in Nat, NEW q \in Nat
    PROVE  Owed(h, b, p) <= Owed(h, b, q) + SizeOf(Requests(p, q), h)
<1>1. Requests(p, q) \in SUBSET W
  BY DEF Requests, List
<1>2. NotOwed(h, b, p) \in SUBSET (NotOwed(h, b, q) \cup Of(Requests(p, q), h))
  <2> SUFFICES ASSUME NEW w \in NotOwed(h, b, p), w \notin NotOwed(h, b, q)
               PROVE  w \in Of(Requests(p, q), h)
    OBVIOUS
  <2>1. w \in W /\ Hash[w] = h /\ Eligible(w) /\ FirstBlock < Block[w] /\ Block[w] <= q
        /\ ~(Block[w] <= p)
    BY DEF NotOwed, Sent
  <2>2. Block[w] \in Nat
    BY <2>1
  <2> QED
    BY <2>1, <2>2 DEF Of, Requests, List
<1> QED
  BY <1>1, <1>2, OwedType, SizeType, CoverCount DEF Owed, SizeOf

\* Messages of a newly proved block are not owed at a block before it.
LEMMA OwedProve ==
    ASSUME NEW h, NEW b \in Nat, NEW p \in Nat, p <= FirstBlock \/ p <= b
    PROVE  Owed(h, b + 1, p) = Owed(h, b, p)
              + Cardinality({w \in W : Hash[w] = h /\ Block[w] = b + 1})
<1> DEFINE Fresh == {w \in W : Hash[w] = h /\ Block[w] = b + 1}
<1>1. \A w \in W : Block[w] \in Nat
  OBVIOUS
<1>2. NotOwed(h, b + 1, p) = NotOwed(h, b, p) \cup Fresh
  BY <1>1 DEF NotOwed, Sent
<1>3. NotOwed(h, b, p) \cap Fresh = {}
  BY <1>1 DEF NotOwed, Sent
<1>4. Fresh \in SUBSET W
  OBVIOUS
<1> QED
  BY <1>2, <1>3, <1>4, OwedType, DisjointCount DEF Owed

\* At FIRST_BLOCK nothing is owed yet that was not at block 0.
LEMMA OwedStart ==
    ASSUME NEW h, NEW b
    PROVE  NotOwed(h, b, 0) = NotOwed(h, b, FirstBlock)
<1>1. \A w \in W : Block[w] \in Nat
  OBVIOUS
<1> QED
  BY <1>1 DEF NotOwed, Sent

\* Consuming calls that a debt was covered by leaves it covered by the others.
LEMMA ConsumeCovers ==
    ASSUME NEW m \in [Hashes -> Nat], NEW h \in Hashes, NEW x \in Nat,
           NEW S \in SUBSET W, NEW batch \in SUBSET S, m[h] <= x + SizeOf(S, h)
    PROVE  Consume(m, batch)[h] <= x + SizeOf(S \ batch, h)
<1>1. Consume(m, batch)[h] = m[h] - Lesser(m[h], SizeOf(batch, h))
  BY DEF Consume, SizeOf, Of
<1>2. SizeOf(S, h) = SizeOf(S \ batch, h) + SizeOf(batch, h)
  <2> DEFINE Rest == Of(S \ batch, h)
             Gone == Of(batch, h)
  <2>1. Rest \in SUBSET W /\ Gone \in SUBSET W /\ Rest \cap Gone = {} /\ Of(S, h) = Rest \cup Gone
    BY DEF Of
  <2> HIDE DEF Rest, Gone
  <2>2. Cardinality(Rest \cup Gone) = Cardinality(Rest) + Cardinality(Gone)
    BY <2>1, DisjointCount
  <2> QED
    BY <2>1, <2>2 DEF SizeOf, Rest, Gone
<1>3. SizeOf(S \ batch, h) \in Nat /\ SizeOf(batch, h) \in Nat
  BY SizeType
<1> QED
  BY <1>1, <1>2, <1>3 DEF Lesser

LEMMA ConsumeLess ==
    ASSUME NEW m \in [Hashes -> Nat], NEW h \in Hashes, NEW batch \in SUBSET W
    PROVE  Consume(m, batch)[h] <= m[h]
<1>1. Consume(m, batch)[h] = m[h] - Lesser(m[h], SizeOf(batch, h))
  BY DEF Consume, SizeOf, Of
<1>2. SizeOf(batch, h) \in Nat
  BY SizeType
<1> QED
  BY <1>1, <1>2 DEF Lesser

-----------------------------------------------------------------------------
(***************************************************************************)
(* The selection.                                                          *)
(***************************************************************************)
\* Ranks are those of different elements.
LEMMA RankInjective ==
    ASSUME NEW S \in SUBSET W, NEW v \in S, NEW w \in S, Rank(S, v) = Rank(S, w)
    PROVE  v = w
<1>1. SUFFICES ASSUME NEW x \in S, NEW y \in S, Rank(S, x) = Rank(S, y), x < y
               PROVE  FALSE
  <2>1. v \in Int /\ w \in Int
    OBVIOUS
  <2>2. v < w \/ w < v \/ v = w
    BY <2>1
  <2> QED
    BY <1>1, <2>2
<1> DEFINE B(e) == {z \in S : z <= e}
<1>2. x \in Int /\ y \in Int /\ \A z \in S : z \in Int
  OBVIOUS
<1>3. B(x) \in SUBSET B(y) /\ B(y) \in SUBSET W /\ y \in B(y) /\ y \notin B(x)
  <2>1. \A z \in S : z <= x => z <= y
    BY <1>1, <1>2
  <2>2. y <= y /\ ~(y <= x)
    BY <1>1, <1>2
  <2> QED
    BY <2>1, <2>2
<1>4. Cardinality(B(x)) = Cardinality(B(y))
  BY <1>1 DEF Rank
<1>5. IsFiniteSet(B(y))
  BY <1>3, WFinite
<1> HIDE DEF B
<1>6. B(x) = B(y)
  BY <1>3, <1>4, <1>5, FS_Subset
<1> QED
  BY <1>3, <1>6

\* Where the eligible withdrawals of a chunk come first, a request stands at the
\* same place in both arrays.
LEMMA AlignedRank ==
    ASSUME AlignedChunks, NEW f \in Nat, NEW t \in Nat, t - f <= Chunk,
           NEW e \in Requests(f, t)
    PROVE  e \in List(f, t) /\ Rank(List(f, t), e) = Rank(Requests(f, t), e)
<1>1. e \in W /\ e \in List(f, t) /\ Eligible(e)
  BY DEF Requests, List
<1>2. ASSUME NEW x \in List(f, t), x <= e
      PROVE  Eligible(x)
  <2>1. x \in W /\ Block[x] \in Nat /\ Block[e] \in Nat
        /\ f + 1 <= Block[x] /\ Block[e] <= t
    BY <1>1 DEF List
  <2>2. Block[e] - Block[x] < Chunk
    BY <2>1
  <2>3. x = e \/ x < e
    BY <1>1, <1>2, <2>1
  <2> QED
    BY <1>1, <2>1, <2>2, <2>3 DEF AlignedChunks
<1>3. {x \in List(f, t) : x <= e} = {x \in Requests(f, t) : x <= e}
  BY <1>2 DEF Requests
<1> QED
  BY <1>1, <1>3 DEF Rank

\* The calls are then built from the withdrawals that were accepted.
LEMMA AlignedSelection ==
    ASSUME AlignedChunks, NEW f \in Nat, NEW t \in Nat, t - f <= Chunk, NEW a
    PROVE  Selected(List(f, t), Requests(f, t), a) = Accepted(Requests(f, t), a)
<1> DEFINE L == List(f, t)
           R == Requests(f, t)
<1>1. \A e \in R : e \in L /\ Rank(L, e) = Rank(R, e)
  BY AlignedRank
<1>2. L \in SUBSET W /\ Accepted(R, a) \in SUBSET R
  BY DEF List, Accepted
<1>3. Accepted(R, a) \in SUBSET Selected(L, R, a)
  BY <1>1, <1>2 DEF Selected
<1>4. ASSUME NEW w \in Selected(L, R, a)
      PROVE  w \in Accepted(R, a)
  <2>1. PICK e \in Accepted(R, a) : w \in L /\ Rank(L, w) = Rank(R, e)
    BY DEF Selected
  <2>2. e \in L /\ Rank(L, w) = Rank(L, e)
    BY <1>1, <1>2, <2>1
  <2>3. w = e
    BY <1>2, <2>1, <2>2, RankInjective
  <2> QED
    BY <2>1, <2>3
<1> QED
  BY <1>3, <1>4

\* What was proved after block b, up to block c.
LaterOf(h, b, c) == {w \in W : Hash[w] = h /\ b < Block[w] /\ Block[w] <= c}
Later(h, b, c) == Cardinality(LaterOf(h, b, c))

LEMMA LaterType ==
    ASSUME NEW h, NEW b, NEW c
    PROVE  LaterOf(h, b, c) \in SUBSET W /\ Later(h, b, c) \in Nat
<1>1. LaterOf(h, b, c) \in SUBSET W
  BY DEF LaterOf
<1> QED
  BY <1>1, WFinite DEF Later

\* The selection covers the counters.  Every answer is a counter up to what was
\* proved after the block of its request: then what is left is not owed behind
\* the chunk, or among the accepted.  Either all requests of the hash are
\* accepted, or as many as the last of them was answered, or, when all that were
\* answered with a message are, the last of the others was answered with none.
LEMMA SelectionCovers ==
    ASSUME NEW p \in Nat, NEW q \in Nat, NEW b \in Nat, NEW a, NEW h, NEW m \in Nat, NEW x \in Nat,
           \A e \in Of(Requests(p, q), h) : a[e] \in Nat /\ m <= a[e] + Later(h, Block[e], b),
           m <= Owed(h, b, p) + x
    PROVE  m <= Owed(h, b, q) + x + SizeOf(Accepted(Requests(p, q), a), h)
<1> DEFINE R == Requests(p, q)
           T == Of(R, h)
           A == Of(Accepted(R, a), h)
           K == Takers(R, a, h)
           Beyond(e) == {w \in T : Block[e] < Block[w]}
<1>1. /\ R \in SUBSET W /\ T \in SUBSET W /\ A \in SUBSET T /\ K \in SUBSET T
      /\ Cardinality(A) \in Nat /\ Cardinality(T) \in Nat
  <2>1. R \in SUBSET W /\ T \in SUBSET W /\ A \in SUBSET T /\ K \in SUBSET T
    BY DEF Requests, List, Of, Accepted, Takers
  <2>2. A \in SUBSET W
    BY <2>1
  <2> QED
    BY <2>1, <2>2, WFinite
<1>2. /\ Owed(h, b, p) \in Nat /\ Owed(h, b, q) \in Nat
      /\ SizeOf(A, h) \in Nat /\ SizeOf(Accepted(R, a), h) = Cardinality(A)
  <2>1. A \in SUBSET W
    BY <1>1
  <2> QED
    BY <2>1, OwedType, SizeType DEF SizeOf
<1>3. ASSUME NEW e \in T
      PROVE  LaterOf(h, Block[e], b) \in SUBSET (NotOwed(h, b, q) \cup Beyond(e))
  <2> SUFFICES ASSUME NEW w \in W, Hash[w] = h, Block[e] < Block[w], Block[w] <= b,
                      w \notin NotOwed(h, b, q)
               PROVE  w \in T
    BY DEF LaterOf
  <2>1. Eligible(w) /\ Block[w] <= q /\ Block[w] \in Nat
    BY DEF NotOwed, Sent
  <2>2. e \in W /\ p + 1 <= Block[e] /\ Block[e] \in Nat
    BY DEF Of, Requests, List
  <2>3. p + 1 <= Block[w]
    BY <2>1, <2>2
  <2> QED
    BY <2>1, <2>3 DEF Of, Requests, List
<1>4. ASSUME NEW e \in T, NEW S \in SUBSET W, Beyond(e) \in SUBSET S
      PROVE  m <= a[e] + Owed(h, b, q) + Cardinality(S)
  <2>1. LaterOf(h, Block[e], b) \in SUBSET (NotOwed(h, b, q) \cup S)
    BY <1>3, <1>4
  <2>2. Later(h, Block[e], b) <= Owed(h, b, q) + Cardinality(S)
    BY <2>1, OwedType, CoverCount DEF Later, Owed
  <2>3. Cardinality(S) \in Nat /\ Later(h, Block[e], b) \in Nat
    BY WFinite, LaterType
  <2> QED
    BY <1>2, <2>2, <2>3
<1>5. CASE A = T
  <2>1. Owed(h, b, p) <= Owed(h, b, q) + Cardinality(A)
    BY <1>5, OwedWalk DEF SizeOf
  <2> QED
    BY <1>1, <1>2, <2>1
<1>6. CASE A # T
  <2> DEFINE last == CHOOSE e \in R : Hash[e] = h /\ \A y \in R : Hash[y] = h => y <= e
  <2>1. last \in T /\ \A y \in T : y <= last
    <3>1. T # {}
      BY <1>1, <1>6
    <3>2. \E e \in T : \A y \in T : y <= e
      BY <1>1, <3>1, LastExists
    <3>3. \E e \in R : Hash[e] = h /\ \A y \in R : Hash[y] = h => y <= e
      BY <3>2 DEF Of
    <3> QED
      BY <3>3 DEF Of
  <2>2. A = {e \in K : Rank(K, e) <= a[last]}
    BY DEF Accepted, Of, Takers, Cached
  <2>3. a[last] \in Nat
    BY <2>1
  <2>4. CASE A # K
    <3>1. Cardinality(A) >= a[last]
      <4>1. K \in SUBSET W
        BY <1>1
      <4> HIDE DEF T, A, K, last
      <4> QED
        BY <2>2, <2>3, <2>4, <4>1, RankCount
    <3>2. Beyond(last) \in SUBSET {}
      <4> SUFFICES ASSUME NEW w \in T, Block[last] < Block[w] PROVE FALSE
        OBVIOUS
      <4>1. w \in W /\ last \in W /\ w <= last
        BY <1>1, <2>1
      <4>2. Block[w] <= Block[last] /\ Block[w] \in Nat /\ Block[last] \in Nat
        BY <4>1, OrderAssumption
      <4> QED
        BY <4>2
    <3>3. m <= a[last] + Owed(h, b, q) + Cardinality({})
      BY <1>4, <2>1, <3>2
    <3>4. Cardinality({}) = 0
      BY FS_EmptySet
    <3> HIDE DEF A, last
    <3> QED
      BY <1>1, <1>2, <2>3, <3>1, <3>3, <3>4
  <2>5. CASE A = K
    <3>1. T \ K \in SUBSET W /\ T \ K # {}
      BY <1>1, <1>6, <2>5
    <3>2. PICK z \in T \ K : \A y \in T \ K : y <= z
      BY <3>1, LastExists
    <3>3. a[z] = 0
      <4>1. a[z] \in Nat
        BY <3>2
      <4> QED
        BY <3>2, <4>1 DEF Takers, Of
    <3>4. Beyond(z) \in SUBSET K
      <4> SUFFICES ASSUME NEW w \in T, Block[z] < Block[w], w \notin K PROVE FALSE
        OBVIOUS
      <4>1. w \in W /\ z \in W /\ w <= z
        BY <1>1, <3>2
      <4>2. Block[w] <= Block[z] /\ Block[w] \in Nat /\ Block[z] \in Nat
        BY <4>1, OrderAssumption
      <4> QED
        BY <4>2
    <3>5. K \in SUBSET W
      BY <1>1
    <3>6. m <= a[z] + Owed(h, b, q) + Cardinality(K)
      BY <1>4, <3>2, <3>4, <3>5
    <3> HIDE DEF A, K
    <3> QED
      BY <1>1, <1>2, <2>5, <3>3, <3>6
  <2> QED
    BY <2>4, <2>5
<1> QED
  BY <1>5, <1>6

-----------------------------------------------------------------------------
(***************************************************************************)
(* The invariant.                                                          *)
(***************************************************************************)
\* The block up to which the round has taken over what is owed.
Walked == IF pc = "view" THEN lo ELSE cur

\* The calls the round will still make.
Pending ==
    CASE pc \in {"chunk", "view"} -> reqs
      [] pc = "send" -> todo
      [] pc = "wait" -> IF inflight = <<>> THEN todo \ FirstOf(todo, BatchLimit) ELSE todo
      [] OTHER -> {}

\* What is on L1 of hash h is not owed at the stored block, ...
LossAt(h) == msgs[h] <= Owed(h, stateBlock, stored)

\* ... and is not owed at the walked block, or about to be called.
DebtOf(h) ==
    pc \in Walking => msgs[h] <= Owed(h, stateBlock, Walked) + SizeOf(Pending, h)

\* What is on L1 was there when a request was answered, or was proved after the
\* block of the request.
ViewOf(h) ==
    pc = "view" =>
        \A e \in Of(Requests(lo, cur), h) :
            ans[e] # NoAnswer => msgs[h] <= ans[e] + Later(h, Block[e], stateBlock)

LossOf(h) == LossAt(h) /\ DebtOf(h) /\ ViewOf(h)

\* The chunk that is viewed follows the ones that were.
ChunkInv == pc = "view" => from <= lo /\ lo <= cur /\ cur - lo <= Chunk

\* The calls collected so far are from walked chunks.
CallsInv ==
    /\ pc \in {"start", "indexer", "state"} => reqs = {}
    /\ pc \in {"chunk", "view"} => \A w \in reqs : Block[w] <= Walked

\* The process waits for the batch it sent last.
BatchInv ==
    pc = "wait" /\ inflight # <<>> => inflight[Len(inflight)] = FirstOf(todo, BatchLimit)

WalkInv == ChunkInv /\ CallsInv /\ BatchInv

LossInv == WalkInv /\ \A h \in Hashes : LossOf(h)

LEMMA InitWalk == Init => WalkInv
  BY DEF Init, WalkInv, ChunkInv, CallsInv, BatchInv

LEMMA InitLoss == Init => LossInv
<1> SUFFICES ASSUME Init PROVE LossInv
  OBVIOUS
<1>1. ASSUME NEW h \in Hashes PROVE LossOf(h)
  <2>1. msgs[h] = 0 /\ pc = "start"
    BY DEF Init
  <2>2. LossAt(h)
    BY <2>1, OwedType DEF LossAt
  <2> QED
    BY <2>1, <2>2 DEF LossOf, DebtOf, ViewOf, Walking
<1> QED
  BY <1>1, InitWalk DEF LossInv

\* What of a state the loss of a hash depends on.
LEMMA SameLoss ==
    ASSUME NEW h, LossOf(h),
           UNCHANGED <<stateBlock, msgs, inflight, stored, pc, lo, cur, ans, reqs, todo>>
    PROVE  LossOf(h)'
  BY DEF LossOf, LossAt, DebtOf, ViewOf, Walked, Pending

\* A round that ends owes what the stored checkpoint owes, and so does one that
\* did not begin to walk or has saved.
LEMMA IdleLoss ==
    ASSUME NEW h, LossAt(h), UNCHANGED <<stateBlock, msgs, stored>>, pc' \notin Walking
    PROVE  LossOf(h)'
  BY DEF LossOf, LossAt, DebtOf, ViewOf, Walking

-----------------------------------------------------------------------------
(***************************************************************************)
(* The walk.                                                               *)
(***************************************************************************)
LEMMA NewRoundWalk == ASSUME NewRound PROVE WalkInv'
  BY DEF NewRound, WalkInv, ChunkInv, CallsInv, BatchInv

\* A chunk is no longer than the configuration allows.
LEMMA ChunkLength ==
    ASSUME NEW c \in Nat, NEW t \in Nat, c < t
    PROVE  ChunkEnd(c, t) - c <= Chunk
  BY DEF ChunkEnd

\* The calls of a chunk are for withdrawals of its blocks.
LEMMA ViewedCalls ==
    ASSUME TypeOK, WalkInv, pc = "view", pc' = "chunk", UNCHANGED <<lo, cur>>,
           NEW C \in SUBSET List(lo, cur), reqs' = reqs \cup C
    PROVE  WalkInv'
<1> USE DEF TypeOK, MemoryOK
<1>1. \A w \in reqs : Block[w] <= lo
  BY DEF WalkInv, CallsInv, Walked
<1>2. lo <= cur /\ lo \in Nat /\ cur \in Nat
  BY DEF WalkInv, ChunkInv
<1>3. ASSUME NEW w \in reqs \cup C PROVE Block[w] <= cur
  <2>1. CASE w \in C
    BY <2>1 DEF List
  <2>2. CASE w \in reqs
    <3>1. Block[w] \in Nat /\ Block[w] <= lo
      BY <1>1, <2>2
    <3> QED
      BY <1>2, <3>1
  <2> QED
    BY <1>3, <2>1, <2>2
<1> QED
  BY <1>3 DEF WalkInv, ChunkInv, CallsInv, BatchInv, Walked

LEMMA NextChunkWalk ==
    ASSUME TypeOK, RangeInv, WalkInv, NextChunk
    PROVE  WalkInv'
<1> USE DEF TypeOK, MemoryOK
<1>1. /\ UNCHANGED <<from, reqs>> /\ pc = "chunk" /\ lo' = cur /\ cur' = ChunkEnd(cur, to)
      /\ pc' \in {"chunk", "view"}
  BY DEF NextChunk, bounds
<1>2. from \in Nat /\ cur \in Nat /\ to \in Nat /\ from <= cur /\ cur < to
  BY DEF NextChunk, RangeInv, Walking
<1>3. cur' \in Nat /\ cur < cur' /\ cur' - cur <= Chunk
  BY <1>1, <1>2, ChunkEndType, ChunkLength
<1>4. \A w \in reqs : Block[w] <= cur /\ Block[w] \in Nat
  BY <1>1 DEF WalkInv, CallsInv, Walked
<1>5. \A w \in reqs : Block[w] <= cur'
  BY <1>2, <1>3, <1>4
<1>6. CallsInv'
  BY <1>1, <1>4, <1>5 DEF CallsInv, Walked
<1> QED
  BY <1>1, <1>2, <1>3, <1>6 DEF WalkInv, ChunkInv, BatchInv

\* The batch that was sent is the last of the mempool.
LEMMA SendWalk ==
    ASSUME TypeOK, inflight' = Append(inflight, FirstOf(todo, BatchLimit)), todo' = todo
    PROVE  BatchInv' /\ inflight' # <<>>
<1>1. FirstOf(todo, BatchLimit) \in SUBSET W /\ inflight \in Seq(SUBSET W)
  BY SliceType DEF TypeOK, WorldOK, MemoryOK
<1>2. inflight'[Len(inflight')] = FirstOf(todo, BatchLimit)
  BY <1>1
<1>3. inflight' # <<>>
  <2>1. Len(Append(inflight, FirstOf(todo, BatchLimit))) = Len(inflight) + 1
    BY <1>1
  <2>2. Len(inflight) \in Nat /\ Len(<<>>) = 0
    BY <1>1
  <2>3. Len(Append(inflight, FirstOf(todo, BatchLimit))) # Len(<<>>)
    BY <2>1, <2>2
  <2>4. Append(inflight, FirstOf(todo, BatchLimit)) # <<>>
    BY <2>3, Zenon
  <2> QED
    BY <2>4, Zenon
<1> QED
  BY <1>2, <1>3 DEF BatchInv

LEMMA MineWalk == ASSUME TypeOK, WalkInv, Mine PROVE WalkInv'
<1>1. /\ UNCHANGED <<pc, from, lo, cur, reqs, todo>>
      /\ inflight \in Seq(SUBSET W) /\ inflight # <<>> /\ inflight' = Tail(inflight)
  BY DEF TypeOK, WorldOK, Mine, memory, bounds, walk
<1>2. BatchInv'
  <2> SUFFICES ASSUME pc = "wait", Tail(inflight) # <<>>
               PROVE  Tail(inflight)[Len(Tail(inflight))] = FirstOf(todo, BatchLimit)
    BY <1>1 DEF BatchInv
  <2>1. Tail(inflight)[Len(Tail(inflight))] = inflight[Len(inflight)]
    BY <1>1
  <2> QED
    BY <1>1, <2>1 DEF WalkInv, BatchInv
<1> QED
  BY <1>1, <1>2 DEF WalkInv, ChunkInv, CallsInv, Walked

LEMMA WalkStep ==
    TypeOK /\ RangeInv /\ WalkInv /\ [Next]_vars => WalkInv'
<1> SUFFICES ASSUME TypeOK, RangeInv, WalkInv, [Next]_vars
             PROVE  WalkInv'
  OBVIOUS
<1>1. CASE UNCHANGED vars \/ IndexBlock \/ UpdateState \/ SelfWithdraw \/ PriceMoves
           \/ UNCHANGED <<inflight, pc, from, lo, cur, reqs, todo>>
  <2>1. UNCHANGED <<inflight, pc, from, lo, cur, reqs, todo>>
    BY <1>1 DEF vars, world, memory, bounds, walk, IndexBlock, UpdateState, SelfWithdraw, PriceMoves
  <2> QED
    BY <2>1 DEF WalkInv, ChunkInv, CallsInv, BatchInv, Walked
<1>2. CASE Mine
  BY <1>2, MineWalk
<1>3. CASE NewRound
  BY <1>3, NewRoundWalk
<1>4. CASE ReadCheckpoint \/ ReadIndexer \/ ReadState
  <2>1. reqs = {} /\ reqs' = reqs /\ pc' \notin {"view", "wait"}
    BY <1>4 DEF ReadCheckpoint, ReadIndexer, ReadState, WalkInv, CallsInv, walk
  <2> QED
    BY <2>1 DEF WalkInv, ChunkInv, CallsInv, BatchInv
<1>5. CASE NextChunk
  BY <1>5, NextChunkWalk
<1>6. CASE ViewSome
  BY <1>6 DEF ViewSome, WalkInv, ChunkInv, CallsInv, BatchInv, Walked, world, bounds
<1>7. CASE ViewLast
  <2>1. Choice \in SUBSET List(lo, cur)
    BY DEF Choice, Selected
  <2> QED
    BY <1>7, <2>1, ViewedCalls DEF ViewLast
<1>8. CASE NothingToConsume \/ CostCovered \/ Confirmed \/ SaveCheckpoint \/ StateMoved
  <2>1. pc' \notin {"start", "indexer", "state", "chunk", "view", "wait"}
    BY <1>8 DEF NothingToConsume, CostCovered, Confirmed, SaveCheckpoint, StateMoved
  <2> QED
    BY <2>1 DEF WalkInv, ChunkInv, CallsInv, BatchInv
<1>9. CASE Send
  BY <1>9, SendWalk DEF Send, WalkInv, ChunkInv, CallsInv
<1>10. CASE SendAnswerLost
  <2>1. CASE UNCHANGED <<pc, bounds, walk, todo, marked>>
    BY <1>10, <2>1, SendWalk DEF SendAnswerLost, WalkInv, ChunkInv, CallsInv, bounds, walk
  <2> QED
    BY <1>3, <1>10, <2>1 DEF SendAnswerLost
<1> QED
  BY <1>1, <1>2, <1>3, <1>4, <1>5, <1>6, <1>7, <1>8, <1>9, <1>10
     DEF Next, Round, Environment, Faults, ViewThrows, CostNotCovered, Reverted, WakeUp,
         Fail, SaveAnswerLost, Crash

-----------------------------------------------------------------------------
(***************************************************************************)
(* The environment.                                                        *)
(***************************************************************************)
\* The pending calls are for withdrawals.
LEMMA PendingType == ASSUME TypeOK PROVE Pending \in SUBSET W
  BY SliceType DEF TypeOK, MemoryOK, Pending

LEMMA LaterProve ==
    ASSUME NEW h, NEW b \in Nat, NEW c \in Nat, b <= c
    PROVE  Later(h, b, c + 1) = Later(h, b, c)
              + Cardinality({w \in W : Hash[w] = h /\ Block[w] = c + 1})
<1> DEFINE Fresh == {w \in W : Hash[w] = h /\ Block[w] = c + 1}
<1>1. \A w \in W : Block[w] \in Nat
  OBVIOUS
<1>2. LaterOf(h, b, c + 1) = LaterOf(h, b, c) \cup Fresh
  <2>1. \A w \in W : b < Block[w] /\ Block[w] <= c + 1
                        <=> (b < Block[w] /\ Block[w] <= c) \/ Block[w] = c + 1
    BY <1>1
  <2> QED
    BY <2>1 DEF LaterOf
<1>3. LaterOf(h, b, c) \cap Fresh = {}
  BY <1>1 DEF LaterOf
<1>4. Fresh \in SUBSET W
  OBVIOUS
<1> QED
  BY <1>2, <1>3, <1>4, LaterType, DisjointCount DEF Later

\* A newly proved block adds its messages on both sides.
LEMMA ProveLoss ==
    ASSUME TypeOK, RangeInv, CheckpointBound, WalkInv, NEW h \in Hashes, LossOf(h), UpdateState
    PROVE  LossOf(h)'
<1> USE DEF TypeOK, WorldOK, MemoryOK
<1> DEFINE Fresh == {w \in W : Hash[w] = h /\ Block[w] = stateBlock + 1}
           new == Cardinality(Fresh)
<1>1. /\ UNCHANGED <<stored, pc, from, to, lo, cur, ans, reqs, todo, inflight>>
      /\ stateBlock' = stateBlock + 1 /\ stateBlock \in Nat
      /\ msgs'[h] = msgs[h] + new /\ msgs[h] \in Nat
  BY DEF UpdateState, memory, bounds, walk
<1>2. Fresh \in SUBSET W /\ new \in Nat
  BY WFinite
<1>3. ASSUME NEW p \in Nat, p <= FirstBlock \/ p <= stateBlock
      PROVE  Owed(h, stateBlock', p) = Owed(h, stateBlock, p) + new
  BY <1>1, <1>3, OwedProve
<1>4. ASSUME NEW e \in W, Block[e] <= stateBlock
      PROVE  Later(h, Block[e], stateBlock') = Later(h, Block[e], stateBlock) + new
  <2>1. Block[e] \in Nat
    OBVIOUS
  <2> QED
    BY <1>1, <1>4, <2>1, LaterProve
<1> HIDE DEF new, Fresh
<1>5. LossAt(h)'
  <2>1. stored \in Nat /\ (stored <= FirstBlock \/ stored <= stateBlock)
    BY DEF CheckpointBound
  <2>2. msgs[h] <= Owed(h, stateBlock, stored)
    BY DEF LossOf, LossAt
  <2> QED
    BY <1>1, <1>2, <1>3, <2>1, <2>2, OwedType DEF LossAt
<1>6. DebtOf(h)'
  <2> SUFFICES ASSUME pc \in Walking
               PROVE  msgs'[h] <= Owed(h, stateBlock', Walked) + SizeOf(Pending, h)
    BY <1>1 DEF DebtOf, Walked, Pending
  <2>1. Walked \in Nat /\ Walked <= stateBlock
    BY DEF Walked, RangeInv, WalkInv, ChunkInv
  <2>2. msgs[h] <= Owed(h, stateBlock, Walked) + SizeOf(Pending, h)
    BY DEF LossOf, DebtOf
  <2>3. Owed(h, stateBlock', Walked) = Owed(h, stateBlock, Walked) + new
    BY <1>3, <2>1
  <2>4. SizeOf(Pending, h) \in Nat
    BY PendingType, SizeType
  <2> QED
    BY <1>1, <1>2, <2>2, <2>3, <2>4, OwedType
<1>7. ViewOf(h)'
  <2> SUFFICES ASSUME pc = "view", NEW e \in Of(Requests(lo, cur), h), ans[e] # NoAnswer
               PROVE  msgs'[h] <= ans[e] + Later(h, Block[e], stateBlock')
    BY <1>1 DEF ViewOf
  <2>1. e \in W /\ Block[e] <= cur /\ Block[e] \in Nat
    BY DEF Of, Requests, List
  <2>2. cur \in Nat /\ cur <= stateBlock
    BY DEF RangeInv, Walking
  <2>3. Later(h, Block[e], stateBlock') = Later(h, Block[e], stateBlock) + new
    BY <1>1, <1>4, <2>1, <2>2
  <2>4. msgs[h] <= ans[e] + Later(h, Block[e], stateBlock) /\ ans[e] \in Nat
    BY <2>1 DEF LossOf, ViewOf
  <2> QED
    BY <1>1, <1>2, <2>3, <2>4, LaterType
<1> QED
  BY <1>5, <1>6, <1>7 DEF LossOf

\* Fewer messages, the rest as it was.
LEMMA FewerMessages ==
    ASSUME TypeOK, NEW h \in Hashes, LossOf(h),
           UNCHANGED <<stateBlock, stored, memory>>,
           msgs'[h] \in Nat, msgs'[h] <= msgs[h]
    PROVE  LossAt(h)' /\ ViewOf(h)'
<1> USE DEF TypeOK, WorldOK, MemoryOK
<1>1. UNCHANGED <<pc, lo, cur, ans>> /\ msgs[h] \in Nat
  BY DEF memory, walk
<1>2. LossAt(h)'
  BY OwedType DEF LossOf, LossAt
<1>3. ViewOf(h)'
  <2> SUFFICES ASSUME pc = "view", NEW e \in Of(Requests(lo, cur), h), ans[e] # NoAnswer
               PROVE  msgs'[h] <= ans[e] + Later(h, Block[e], stateBlock)
    BY <1>1 DEF ViewOf
  <2>1. e \in W /\ ans[e] \in Nat
    BY DEF Of, Requests, List
  <2>2. msgs[h] <= ans[e] + Later(h, Block[e], stateBlock)
    BY DEF LossOf, ViewOf
  <2>3. Later(h, Block[e], stateBlock) \in Nat
    BY LaterType
  <2>4. \A i, j, x, y \in Nat : i <= j /\ j <= x + y => i <= x + y
    OBVIOUS
  <2> HIDE DEF TypeOK, WorldOK, MemoryOK
  <2> QED
    BY <1>1, <2>1, <2>2, <2>3, <2>4, Zenon
<1> QED
  BY <1>2, <1>3

\* A queue with nothing behind its head is its head.
LEMMA OnlyBatch ==
    ASSUME NEW S, NEW q \in Seq(S)
    PROVE  q # <<>> /\ Tail(q) = <<>> => Head(q) = q[Len(q)]
<1>1. Len(q) = 1 => Head(q) = q[Len(q)]
  OBVIOUS
<1>2. q # <<>> => Len(Tail(q)) = Len(q) - 1
  BY HeadTailProperties
<1>3. Tail(q) = <<>> => Len(Tail(q)) = 0
  BY EmptySeq, Zenon
<1>4. Len(q) \in Nat
  BY LenProperties
<1> QED
  BY <1>1, <1>2, <1>3, <1>4

\* A mined batch takes its messages off L1 when its calls stop being pending.
LEMMA MineLoss ==
    ASSUME TypeOK, WalkInv, NEW h \in Hashes, LossOf(h), Mine
    PROVE  LossOf(h)'
<1> USE DEF TypeOK, WorldOK, MemoryOK
<1>1. /\ UNCHANGED <<stateBlock, stored, memory>>
      /\ UNCHANGED <<pc, lo, cur, reqs, todo>>
  BY DEF Mine, memory, walk
<1>2. /\ inflight \in Seq(SUBSET W) /\ inflight # <<>>
      /\ Head(inflight) \in SUBSET W
      /\ inflight' = Tail(inflight)
      /\ msgs' = Consume(msgs, Head(inflight))
  BY DEF Mine
<1>3. msgs'[h] \in Nat /\ msgs[h] \in Nat /\ msgs'[h] <= msgs[h]
  <2>1. msgs \in [Hashes -> Nat]
    OBVIOUS
  <2>2. Consume(msgs, Head(inflight)) \in [Hashes -> Nat]
    BY <1>2, <2>1, ConsumeType
  <2>3. Consume(msgs, Head(inflight))[h] <= msgs[h]
    BY <1>2, <2>1, ConsumeLess
  <2> QED
    BY <1>2, <2>1, <2>2, <2>3
<1>4. LossAt(h)' /\ ViewOf(h)'
  BY <1>1, <1>3, FewerMessages
<1>5. DebtOf(h)'
  <2> SUFFICES ASSUME pc \in Walking
               PROVE  msgs'[h] <= Owed(h, stateBlock, Walked) + SizeOf(Pending', h)
    BY <1>1 DEF DebtOf, Walked
  <2>1. msgs[h] <= Owed(h, stateBlock, Walked) + SizeOf(Pending, h)
    BY DEF LossOf, DebtOf
  <2>2. CASE pc = "wait" /\ Tail(inflight) = <<>>
    <3>1. Head(inflight) = FirstOf(todo, BatchLimit)
      <4>1. Head(inflight) = inflight[Len(inflight)]
        BY <1>2, <2>2, OnlyBatch
      <4> QED
        BY <1>2, <2>2, <4>1 DEF WalkInv, BatchInv
    <3>2. Pending = todo /\ Pending' = todo \ FirstOf(todo, BatchLimit)
      BY <1>1, <1>2, <2>2 DEF Pending
    <3>3. FirstOf(todo, BatchLimit) \in SUBSET todo /\ todo \in SUBSET W
      BY SliceType
    <3> QED
      BY <1>2, <2>1, <3>1, <3>2, <3>3, OwedType, ConsumeCovers
  <2>3. CASE ~(pc = "wait" /\ Tail(inflight) = <<>>)
    <3>1. Pending' = Pending
      BY <1>1, <1>2, <2>3 DEF Pending
    <3>2. SizeOf(Pending, h) \in Nat /\ Owed(h, stateBlock, Walked) \in Nat
      BY PendingType, SizeType, OwedType
    <3> QED
      BY <1>3, <2>1, <3>1, <3>2
  <2> QED
    BY <2>2, <2>3
<1> QED
  BY <1>4, <1>5 DEF LossOf

LEMMA EnvironmentLoss ==
    ASSUME TypeOK, RangeInv, CheckpointBound, WalkInv, NEW h \in Hashes, LossOf(h), Environment
    PROVE  LossOf(h)'
<1>1. CASE IndexBlock \/ PriceMoves
  <2>1. UNCHANGED <<stateBlock, msgs, inflight, stored, pc, lo, cur, ans, reqs, todo>>
    BY <1>1 DEF IndexBlock, PriceMoves, memory, walk
  <2> QED
    BY <2>1, SameLoss
<1>2. CASE UpdateState
  BY <1>2, ProveLoss
<1>3. CASE SelfWithdraw
  <2> USE DEF TypeOK, WorldOK
  <2>1. /\ UNCHANGED <<stateBlock, stored, memory>>
        /\ UNCHANGED <<inflight, pc, lo, cur, reqs, todo>>
    BY <1>3 DEF SelfWithdraw, memory, walk
  <2>2. msgs[h] \in Nat /\ msgs'[h] \in Nat /\ msgs'[h] <= msgs[h]
    BY <1>3 DEF SelfWithdraw
  <2>3. LossAt(h)' /\ ViewOf(h)'
    BY <2>1, <2>2, FewerMessages
  <2>4. DebtOf(h)'
    <3> SUFFICES ASSUME pc \in Walking
                 PROVE  msgs'[h] <= Owed(h, stateBlock, Walked) + SizeOf(Pending, h)
      BY <2>1 DEF DebtOf, Walked, Pending
    <3>1. msgs[h] <= Owed(h, stateBlock, Walked) + SizeOf(Pending, h)
      BY DEF LossOf, DebtOf
    <3>2. SizeOf(Pending, h) \in Nat /\ Owed(h, stateBlock, Walked) \in Nat
      BY PendingType, SizeType, OwedType
    <3> QED
      BY <2>2, <3>1, <3>2
  <2> QED
    BY <2>3, <2>4 DEF LossOf
<1>4. CASE Mine
  BY <1>4, MineLoss
<1> QED
  BY <1>1, <1>2, <1>3, <1>4 DEF Environment

-----------------------------------------------------------------------------
(***************************************************************************)
(* The round: reading the range and walking it.                            *)
(***************************************************************************)
\* The checkpoint is read: at FIRST_BLOCK nothing more is owed than at 0.
LEMMA CheckpointLoss ==
    ASSUME TypeOK, NEW h \in Hashes, LossOf(h), ReadCheckpoint
    PROVE  LossOf(h)'
<1>1. /\ UNCHANGED <<stateBlock, msgs>> /\ pc' = "indexer"
      /\ stored' = IF stored = 0 THEN FirstBlock ELSE stored
  BY DEF ReadCheckpoint, world
<1>2. msgs[h] <= Owed(h, stateBlock, stored)
  BY DEF LossOf, LossAt
<1>3. Owed(h, stateBlock, 0) = Owed(h, stateBlock, FirstBlock)
  BY OwedStart DEF Owed
<1>4. LossAt(h)'
  BY <1>1, <1>2, <1>3 DEF LossAt
<1> QED
  BY <1>1, <1>4 DEF LossOf, DebtOf, ViewOf, Walking

\* The walk begins at the stored checkpoint, with no call collected.
LEMMA BeginLoss ==
    ASSUME TypeOK, NEW h \in Hashes, LossOf(h), UNCHANGED <<stateBlock, msgs, stored>>,
           reqs' = {}, pc' \in {"chunk", "wakeup"}, pc' = "chunk" => cur' = stored
    PROVE  LossOf(h)'
<1>1. CASE pc' = "chunk"
  <2>1. SizeOf({}, h) = 0
    BY FS_EmptySet DEF SizeOf, Of
  <2>2. msgs[h] <= Owed(h, stateBlock, stored) /\ msgs[h] \in Nat
    BY DEF LossOf, LossAt, TypeOK, WorldOK
  <2>3. msgs'[h] <= Owed(h, stateBlock', cur') + SizeOf(reqs', h)
    BY <1>1, <2>1, <2>2, OwedType
  <2>4. DebtOf(h)'
    BY <1>1, <2>3 DEF DebtOf, Walked, Pending
  <2> QED
    BY <1>1, <2>2, <2>4 DEF LossOf, LossAt, ViewOf
<1>2. CASE pc' = "wakeup"
  BY <1>2, IdleLoss DEF LossOf, Walking
<1> QED
  BY <1>1, <1>2

\* A chunk without a request is walked at once, another one waits for its views.
LEMMA ChunkLoss ==
    ASSUME TypeOK, RangeInv, NEW h \in Hashes, LossOf(h), NextChunk
    PROVE  LossOf(h)'
<1> USE DEF TypeOK, WorldOK, MemoryOK
<1>1. /\ UNCHANGED <<stateBlock, msgs, stored, reqs>>
      /\ pc = "chunk" /\ lo' = cur /\ cur' = ChunkEnd(cur, to)
      /\ pc' = IF Requests(cur, cur') = {} THEN "chunk" ELSE "view"
      /\ ans' = NoAnswers
  BY DEF NextChunk, world
<1>2. cur \in Nat /\ to \in Nat /\ cur < to
  BY DEF NextChunk, RangeInv, Walking
<1>3. cur' \in Nat /\ cur < cur'
  BY <1>1, <1>2, ChunkEndType
<1>4. LossAt(h)'
  BY <1>1 DEF LossOf, LossAt
<1>5. msgs[h] <= Owed(h, stateBlock, cur) + SizeOf(reqs, h)
  BY <1>1 DEF LossOf, DebtOf, Walking, Walked, Pending
<1>6. CASE pc' = "view"
  <2>1. DebtOf(h)'
    BY <1>1, <1>5, <1>6 DEF DebtOf, Walked, Pending
  <2>2. \A e \in Of(Requests(cur, cur'), h) : ans'[e] = NoAnswer
    BY <1>1 DEF NoAnswers, Requests, List, Of
  <2>3. ViewOf(h)'
    BY <1>1, <2>2 DEF ViewOf
  <2> QED
    BY <1>4, <2>1, <2>3 DEF LossOf
<1>7. CASE pc' = "chunk" /\ Requests(cur, cur') = {}
  <2>1. Owed(h, stateBlock, cur) <= Owed(h, stateBlock, cur') + SizeOf(Requests(cur, cur'), h)
    BY <1>2, <1>3, OwedWalk
  <2>2. SizeOf({}, h) = 0
    BY FS_EmptySet DEF SizeOf, Of
  <2>3. /\ Owed(h, stateBlock, cur) \in Nat /\ Owed(h, stateBlock, cur') \in Nat
        /\ SizeOf(reqs, h) \in Nat /\ msgs[h] \in Nat
    BY OwedType, SizeType
  <2>4. msgs[h] <= Owed(h, stateBlock, cur') + SizeOf(reqs, h)
    BY <1>5, <1>7, <2>1, <2>2, <2>3
  <2>5. DebtOf(h)'
    BY <1>1, <1>7, <2>4 DEF DebtOf, Walked, Pending
  <2> QED
    BY <1>4, <1>7, <2>5 DEF LossOf, ViewOf
<1> QED
  BY <1>1, <1>6, <1>7

\* The answers when the counters are read as m.
AnswersOf(m) ==
    [w \in W |-> IF w \in FirstOf(Unanswered, ViewLimit) THEN m[Hash[w]] ELSE ans[w]]

\* m knows the requests of hash h that it is asked for: what it misses of their
\* messages was proved after their blocks.
Knows(m, h) ==
    \A e \in FirstOf(Unanswered, ViewLimit) :
        Hash[e] = h => msgs[h] <= m[h] + Later(h, Block[e], stateBlock)

LEMMA L1Knows == ASSUME TypeOK, NEW h \in Hashes PROVE Knows(msgs, h)
<1>1. msgs[h] \in Nat
  BY DEF TypeOK, WorldOK
<1> QED
  BY <1>1, LaterType DEF Knows

LEMMA AnswersBound ==
    ASSUME TypeOK, NEW h \in Hashes, LossOf(h), pc = "view",
           NEW m \in [Hashes -> Nat], Knows(m, h), NEW e \in Of(Requests(lo, cur), h)
    PROVE  /\ e \in W
           /\ AnswersOf(m)[e] \in Nat \cup {NoAnswer}
           /\ AnswersOf(m)[e] # NoAnswer =>
                 msgs[h] <= AnswersOf(m)[e] + Later(h, Block[e], stateBlock)
           /\ AnswersOf(m)[e] = NoAnswer => e \in Unanswered \ FirstOf(Unanswered, ViewLimit)
<1> USE DEF TypeOK, WorldOK, MemoryOK
<1>1. e \in W /\ Hash[e] = h /\ e \in Requests(lo, cur)
  BY DEF Of, Requests, List
<1>2. CASE e \in FirstOf(Unanswered, ViewLimit)
  <2>1. AnswersOf(m)[e] = m[h] /\ m[h] \in Nat /\ NoAnswer \notin Nat
    BY <1>1, <1>2 DEF AnswersOf, NoAnswer
  <2>2. msgs[h] <= m[h] + Later(h, Block[e], stateBlock)
    BY <1>1, <1>2 DEF Knows
  <2> QED
    BY <1>1, <2>1, <2>2
<1>3. CASE e \notin FirstOf(Unanswered, ViewLimit)
  <2>1. AnswersOf(m)[e] = ans[e] /\ ans[e] \in Nat \cup {NoAnswer}
    BY <1>1, <1>3 DEF AnswersOf
  <2>2. ans[e] # NoAnswer => msgs[h] <= ans[e] + Later(h, Block[e], stateBlock)
    BY DEF LossOf, ViewOf
  <2>3. ans[e] = NoAnswer => e \in Unanswered
    BY <1>1 DEF Unanswered
  <2> QED
    BY <1>1, <1>3, <2>1, <2>2, <2>3
<1> QED
  BY <1>2, <1>3

\* A view that leaves requests without an answer.
LEMMA ViewSomeLoss ==
    ASSUME TypeOK, NEW h \in Hashes, LossOf(h), NEW m \in [Hashes -> Nat], Knows(m, h),
           pc = "view", ans' = AnswersOf(m),
           UNCHANGED <<stateBlock, msgs, stored, pc, lo, cur, reqs, todo, inflight>>
    PROVE  LossOf(h)'
<1>1. ViewOf(h)'
  BY AnswersBound DEF ViewOf
<1>2. LossAt(h)' /\ DebtOf(h)'
  BY DEF LossOf, LossAt, DebtOf, Walked, Pending
<1> QED
  BY <1>1, <1>2 DEF LossOf

\* The last view: what the chunk took over is among the selected calls, or was
\* not on L1 when it was answered.
LEMMA ViewLastLoss ==
    ASSUME AlignedChunks, TypeOK, WalkInv, RangeInv,
           NEW h \in Hashes, LossOf(h), NEW m \in [Hashes -> Nat], Knows(m, h),
           pc = "view", pc' = "chunk", Unanswered = FirstOf(Unanswered, ViewLimit),
           reqs' = reqs \cup Selected(List(lo, cur), Requests(lo, cur), AnswersOf(m)),
           UNCHANGED <<stateBlock, msgs, stored, lo, cur, inflight>>
    PROVE  LossOf(h)'
<1> USE DEF TypeOK, WorldOK, MemoryOK
<1> DEFINE R == Requests(lo, cur)
           C == Selected(List(lo, cur), R, AnswersOf(m))
<1>1. lo \in Nat /\ cur \in Nat /\ lo <= cur /\ cur - lo <= Chunk
  BY DEF WalkInv, ChunkInv
<1>2. C = Accepted(R, AnswersOf(m)) /\ C \in SUBSET R /\ R \in SUBSET W
  <2>1. C = Accepted(R, AnswersOf(m))
    BY <1>1, AlignedSelection
  <2> QED
    BY <2>1 DEF Accepted, Requests, List
<1>3. \A w \in reqs : w \notin C
  <2> SUFFICES ASSUME NEW w \in reqs, w \in R PROVE FALSE
    BY <1>2
  <2>1. Block[w] <= lo
    BY DEF WalkInv, CallsInv, Walked
  <2>2. w \in W /\ lo + 1 <= Block[w] /\ Block[w] \in Nat
    BY DEF Requests, List
  <2> QED
    BY <1>1, <2>1, <2>2
<1>4. SizeOf(reqs \cup C, h) = SizeOf(reqs, h) + SizeOf(C, h)
  <2>1. reqs \in SUBSET W /\ C \in SUBSET W
    BY <1>2
  <2> DEFINE Old == Of(reqs, h)
             New == Of(C, h)
  <2>2. /\ Old \in SUBSET W /\ New \in SUBSET W /\ Old \cap New = {}
        /\ Of(reqs \cup C, h) = Old \cup New
    BY <1>3, <2>1 DEF Of
  <2> HIDE DEF Old, New
  <2>3. Cardinality(Old \cup New) = Cardinality(Old) + Cardinality(New)
    BY <2>2, DisjointCount
  <2> QED
    BY <2>2, <2>3 DEF SizeOf, Old, New
<1>5. ASSUME NEW e \in Of(R, h)
      PROVE  AnswersOf(m)[e] \in Nat /\ msgs[h] <= AnswersOf(m)[e] + Later(h, Block[e], stateBlock)
  BY AnswersBound
<1>6. /\ msgs[h] <= Owed(h, stateBlock, lo) + SizeOf(reqs, h)
      /\ msgs[h] \in Nat /\ SizeOf(reqs, h) \in Nat /\ stateBlock \in Nat
  <2>1. reqs \in SUBSET W
    OBVIOUS
  <2>2. SizeOf(reqs, h) \in Nat
    BY <2>1, SizeType
  <2> QED
    BY <2>2 DEF LossOf, DebtOf, Walking, Walked, Pending
<1>7. msgs[h] <= Owed(h, stateBlock, cur) + SizeOf(reqs, h) + SizeOf(Accepted(R, AnswersOf(m)), h)
  <2> DEFINE a == AnswersOf(m)
  <2>1. \A e \in Of(R, h) : a[e] \in Nat /\ msgs[h] <= a[e] + Later(h, Block[e], stateBlock)
    BY <1>5
  <2> HIDE DEF a
  <2>2. msgs[h] <= Owed(h, stateBlock, cur) + SizeOf(reqs, h) + SizeOf(Accepted(R, a), h)
    BY <1>1, <1>6, <2>1, SelectionCovers
  <2> QED
    BY <2>2 DEF a
<1>8. Owed(h, stateBlock, cur) \in Nat /\ SizeOf(C, h) \in Nat
  <2>1. C \in SUBSET W
    BY <1>2
  <2> HIDE DEF C
  <2> QED
    BY <2>1, OwedType, SizeType
<1>9. msgs[h] <= Owed(h, stateBlock, cur) + SizeOf(reqs \cup C, h)
  BY <1>2, <1>4, <1>6, <1>7, <1>8
<1>10. DebtOf(h)'
  BY <1>9 DEF DebtOf, Walked, Pending
<1> QED
  BY <1>10 DEF LossOf, LossAt, ViewOf

-----------------------------------------------------------------------------
(***************************************************************************)
(* The round: consuming and saving.                                        *)
(***************************************************************************)
\* The debt is the same when neither side of it moved.
LEMMA SameDebt ==
    ASSUME NEW h \in Hashes, LossOf(h), UNCHANGED <<stateBlock, msgs, stored, cur>>,
           pc \in {"chunk", "send", "wait"}, pc' \in {"send", "wait", "save"},
           Pending' = Pending
    PROVE  LossOf(h)'
<1>1. msgs[h] <= Owed(h, stateBlock, cur) + SizeOf(Pending, h)
  BY DEF LossOf, DebtOf, Walked, Walking
<1> QED
  BY <1>1 DEF LossOf, LossAt, DebtOf, ViewOf, Walked

LEMMA ConsumeLoss ==
    ASSUME TypeOK, NEW h \in Hashes, LossOf(h),
           NothingToConsume \/ CostCovered \/ Send \/ Confirmed
    PROVE  LossOf(h)'
<1>1. /\ UNCHANGED <<stateBlock, msgs, stored, cur, reqs>>
      /\ pc \in {"chunk", "send", "wait"} /\ pc' \in {"send", "wait", "save"}
  BY DEF NothingToConsume, CostCovered, Send, Confirmed, world, bounds, walk
<1>2. Pending' = Pending
  <2>1. CASE NothingToConsume
    BY <2>1 DEF NothingToConsume, Pending
  <2>2. CASE CostCovered
    BY <2>2 DEF CostCovered, Pending
  <2>3. CASE Send
    <3>1. inflight' # <<>>
      BY <2>3, SendWalk DEF Send
    <3> QED
      BY <2>3, <3>1 DEF Send, Pending
  <2>4. CASE Confirmed
    <3>1. pc = "wait" /\ inflight = <<>> /\ todo' = todo \ FirstOf(todo, BatchLimit)
      BY <2>4 DEF Confirmed
    <3>2. \/ todo' = {} /\ pc' = "save"
          \/ pc' = "send"
      BY <2>4 DEF Confirmed
    <3> QED
      BY <3>1, <3>2 DEF Pending
  <2> QED
    BY <2>1, <2>2, <2>3, <2>4
<1> QED
  BY <1>1, <1>2, SameDebt

\* What may be stored owes nothing that is still on L1.
LEMMA SavedLoss ==
    ASSUME TypeOK, NEW h \in Hashes, LossOf(h), pc = "save"
    PROVE  msgs[h] <= Owed(h, stateBlock, cur)
<1>1. msgs[h] <= Owed(h, stateBlock, cur) + SizeOf({}, h)
  BY DEF LossOf, DebtOf, Walking, Walked, Pending
<1>2. SizeOf({}, h) = 0
  BY FS_EmptySet DEF SizeOf, Of
<1> QED
  BY <1>1, <1>2, OwedType DEF TypeOK, WorldOK

LEMMA SaveLoss ==
    ASSUME TypeOK, NEW h \in Hashes, LossOf(h),
           pc = "save", stored' = cur, UNCHANGED <<stateBlock, msgs>>, pc' \notin Walking
    PROVE  LossOf(h)'
<1>1. LossAt(h)'
  BY SavedLoss DEF LossAt
<1> QED
  BY <1>1 DEF LossOf, DebtOf, ViewOf, Walking

LEMMA RoundLoss ==
    ASSUME AlignedChunks, TypeOK, RangeInv, WalkInv, NEW h \in Hashes, LossOf(h), Round
    PROVE  LossOf(h)'
<1>1. CASE ReadCheckpoint
  BY <1>1, CheckpointLoss
<1>2. CASE ReadIndexer \/ StateMoved
  BY <1>2, IdleLoss DEF ReadIndexer, StateMoved, LossOf, Walking, world
<1>3. CASE ReadState
  <2>1. /\ UNCHANGED <<stateBlock, msgs, stored>> /\ reqs' = {} /\ from = stored
        /\ to' \in Nat /\ from \in Nat /\ from' = Lesser(from, to') /\ cur' = from'
        /\ pc' = IF from' < to' THEN "chunk" ELSE "wakeup"
    BY <1>3 DEF ReadState, TypeOK, WorldOK, MemoryOK, WalkInv, CallsInv, RangeInv, world, Lesser
  <2>2. pc' = "chunk" => cur' = stored
    BY <2>1 DEF Lesser
  <2> QED
    BY <2>1, <2>2, BeginLoss
<1>4. CASE NextChunk
  BY <1>4, ChunkLoss
<1>5. CASE ViewSome
  <2>1. ans' = AnswersOf(msgs) /\ Knows(msgs, h) /\ msgs \in [Hashes -> Nat]
    BY <1>5, L1Knows DEF ViewSome, Answers, AnswersOf, TypeOK, WorldOK
  <2>2. pc = "view" /\ UNCHANGED <<stateBlock, msgs, stored, pc, lo, cur, reqs, todo, inflight>>
    BY <1>5 DEF ViewSome, world
  <2> QED
    BY <2>1, <2>2, ViewSomeLoss
<1>6. CASE ViewLast
  <2>1. Answers = AnswersOf(msgs) /\ Knows(msgs, h) /\ msgs \in [Hashes -> Nat]
    BY L1Knows DEF Answers, AnswersOf, TypeOK, WorldOK
  <2>2. /\ pc = "view" /\ pc' = "chunk" /\ Unanswered = FirstOf(Unanswered, ViewLimit)
        /\ reqs' = reqs \cup Selected(List(lo, cur), Requests(lo, cur), AnswersOf(msgs))
        /\ UNCHANGED <<stateBlock, msgs, stored, lo, cur, inflight>>
    BY <1>6, <2>1 DEF ViewLast, Choice, world
  <2> QED
    BY <2>1, <2>2, ViewLastLoss
<1>7. CASE ViewThrows \/ CostNotCovered \/ Reverted \/ WakeUp
  BY <1>7, IdleLoss DEF ViewThrows, CostNotCovered, Reverted, WakeUp, NewRound, LossOf, Walking,
                        world
<1>8. CASE NothingToConsume \/ CostCovered \/ Send \/ Confirmed
  BY <1>8, ConsumeLoss
<1>9. CASE SaveCheckpoint
  BY <1>9, SaveLoss DEF SaveCheckpoint, Walking, world
<1> QED
  BY <1>1, <1>2, <1>3, <1>4, <1>5, <1>6, <1>7, <1>8, <1>9 DEF Round

LEMMA FaultsLoss ==
    ASSUME TypeOK, NEW h \in Hashes, LossOf(h), Faults
    PROVE  LossOf(h)'
<1>1. CASE Fail \/ Crash
  BY <1>1, IdleLoss DEF Fail, Crash, NewRound, LossOf, Walking, world
<1>2. CASE SendAnswerLost
  <2>1. UNCHANGED <<stateBlock, msgs, stored>> /\ pc = "send"
    BY <1>2 DEF SendAnswerLost
  <2>2. CASE NewRound
    BY <2>1, <2>2, IdleLoss DEF NewRound, LossOf, Walking
  <2>3. CASE UNCHANGED <<pc, bounds, walk, todo, marked>>
    BY <2>1, <2>3 DEF LossOf, LossAt, DebtOf, ViewOf, Walked, Pending, walk
  <2> QED
    BY <1>2, <2>2, <2>3 DEF SendAnswerLost
<1>3. CASE SaveAnswerLost
  BY <1>3, SaveLoss DEF SaveAnswerLost, NewRound, Walking, world
<1> QED
  BY <1>1, <1>2, <1>3 DEF Faults

LEMMA LossOfStep ==
    ASSUME AlignedChunks, TypeOK, RangeInv, CheckpointBound, WalkInv,
           NEW h \in Hashes, LossOf(h), [Next]_vars
    PROVE  LossOf(h)'
<1>1. CASE UNCHANGED vars
  <2>1. UNCHANGED <<stateBlock, msgs, inflight, stored, pc, lo, cur, ans, reqs, todo>>
    BY <1>1 DEF vars, world, memory, walk
  <2> QED
    BY <2>1, SameLoss
<1> QED
  BY <1>1, EnvironmentLoss, RoundLoss, FaultsLoss DEF Next

LEMMA LossStep ==
    AlignedChunks /\ TypeOK /\ RangeInv /\ CheckpointBound /\ LossInv /\ [Next]_vars
      => LossInv'
  BY WalkStep, LossOfStep DEF LossInv

LEMMA LossAtAll == (\A h \in Hashes : LossOf(h)) => NoLoss
  BY DEF LossOf, LossAt, NoLoss, Owed

\* No paid withdrawal is left behind (NoLoss), whatever the users, the prices,
\* the mempool, the errors and the crashes do, in every history whose chunks
\* hold their eligible withdrawals first.  The hypothesis is needed: without it
\* the relayer builds the calls of the wrong withdrawals.
THEOREM NothingIsLost == AlignedChunks /\ Spec => []NoLoss
<1>1. AlignedChunks /\ Spec => [](TypeOK /\ RangeInv /\ CheckpointBound)
  BY InitRange, RangeStep, TypeCorrect, PTL DEF Spec
<1>2. AlignedChunks => AlignedChunks'
  BY DEF AlignedChunks, Eligible
<1>3. AlignedChunks /\ Spec => [](AlignedChunks /\ LossInv)
  BY <1>1, <1>2, InitLoss, LossStep, PTL DEF Spec
<1>4. LossInv => NoLoss
  BY LossAtAll DEF LossInv
<1> QED
  BY <1>3, <1>4, PTL

-----------------------------------------------------------------------------
(***************************************************************************)
(* Only paid withdrawals are relayed.                                      *)
(***************************************************************************)
Paid(S) == \A w \in S : Eligible(w)

\* Every call that is collected, waiting or in the mempool was paid for.
PaidInv ==
    /\ Paid(reqs) /\ Paid(todo)
    /\ \A i \in 1..Len(inflight) : Paid(inflight[i])
    /\ OnlyPaidRelayed

LEMMA InitPaid == Init => PaidInv
  BY DEF Init, PaidInv, Paid, OnlyPaidRelayed

\* A batch of paid calls joins the mempool.
LEMMA SentPaid ==
    ASSUME TypeOK, PaidInv, inflight' = Append(inflight, FirstOf(todo, BatchLimit))
    PROVE  \A i \in 1..Len(inflight') : Paid(inflight'[i])
<1> USE DEF TypeOK, WorldOK, MemoryOK
<1>1. FirstOf(todo, BatchLimit) \in SUBSET todo /\ FirstOf(todo, BatchLimit) \in SUBSET W
  BY SliceType
<1>2. Paid(FirstOf(todo, BatchLimit))
  BY <1>1 DEF PaidInv, Paid
<1>3. inflight \in Seq(SUBSET W)
  OBVIOUS
<1> DEFINE q == Append(inflight, FirstOf(todo, BatchLimit))
<1>4. /\ Len(q) = Len(inflight) + 1 /\ Len(inflight) \in Nat
      /\ \A i \in 1..Len(inflight) : q[i] = inflight[i]
      /\ q[Len(inflight) + 1] = FirstOf(todo, BatchLimit)
  BY <1>1, <1>3
<1> HIDE DEF q
<1>5. ASSUME NEW i \in 1..Len(q) PROVE Paid(q[i])
  <2>1. CASE i = Len(inflight) + 1
    BY <1>2, <1>4, <2>1
  <2>2. CASE i \in 1..Len(inflight)
    BY <1>4, <2>2 DEF PaidInv
  <2> QED
    BY <1>4, <2>1, <2>2
<1> QED
  BY <1>5 DEF q

\* The calls of a chunk were paid for, whatever was answered.
LEMMA ViewedPaid ==
    ASSUME AlignedChunks, TypeOK, WalkInv, PaidInv, pc = "view", NEW a,
           reqs' = reqs \cup Selected(List(lo, cur), Requests(lo, cur), a),
           UNCHANGED <<inflight, relayed, todo>>
    PROVE  PaidInv'
<1>1. lo \in Nat /\ cur \in Nat /\ cur - lo <= Chunk
  BY DEF WalkInv, ChunkInv, TypeOK, MemoryOK
<1>2. Selected(List(lo, cur), Requests(lo, cur), a) = Accepted(Requests(lo, cur), a)
  BY <1>1, AlignedSelection
<1>3. Paid(Accepted(Requests(lo, cur), a))
  BY DEF Paid, Accepted, Requests
<1> QED
  BY <1>2, <1>3 DEF PaidInv, Paid, OnlyPaidRelayed

LEMMA PaidStep ==
    AlignedChunks /\ TypeOK /\ WalkInv /\ PaidInv /\ [Next]_vars => PaidInv'
<1> SUFFICES ASSUME AlignedChunks, TypeOK, WalkInv, PaidInv, [Next]_vars
             PROVE  PaidInv'
  OBVIOUS
<1> USE DEF TypeOK, WorldOK, MemoryOK
<1>1. CASE UNCHANGED <<inflight, relayed, reqs, todo>>
  BY <1>1 DEF PaidInv, OnlyPaidRelayed
<1>2. CASE Mine
  <2>1. /\ inflight \in Seq(SUBSET W) /\ inflight # <<>> /\ inflight' = Tail(inflight)
        /\ UNCHANGED <<reqs, todo>>
        /\ \A w \in W : relayed'[w] > 0 =>
              relayed[w] > 0 \/ w \in Successful(msgs, Head(inflight))
    BY <1>2 DEF Mine, memory, walk
  <2>2. /\ Head(inflight) = inflight[1] /\ Len(inflight) \in Nat \ {0}
        /\ Len(Tail(inflight)) = Len(inflight) - 1
        /\ \A i \in 1..Len(Tail(inflight)) : Tail(inflight)[i] = inflight[i + 1]
    BY <2>1, EmptySeq, HeadTailProperties
  <2>3. Paid(Head(inflight))
    BY <2>2 DEF PaidInv
  <2>4. OnlyPaidRelayed'
    BY <2>1, <2>3 DEF PaidInv, OnlyPaidRelayed, Successful, Paid, Eligible
  <2>5. \A i \in 1..Len(inflight') : Paid(inflight'[i])
    BY <2>1, <2>2 DEF PaidInv
  <2> QED
    BY <2>1, <2>4, <2>5 DEF PaidInv
<1>3. CASE NewRound /\ UNCHANGED <<inflight, relayed>>
  BY <1>3 DEF NewRound, PaidInv, Paid, OnlyPaidRelayed
<1>4. CASE ViewLast
  <2>1. /\ UNCHANGED <<inflight, relayed, todo>> /\ pc = "view"
        /\ reqs' = reqs \cup Selected(List(lo, cur), Requests(lo, cur), Answers)
    BY <1>4 DEF ViewLast, Choice, world, history
  <2> QED
    BY <2>1, ViewedPaid
<1>5. CASE ReadState \/ CostCovered \/ Confirmed
  <2>1. /\ UNCHANGED <<inflight, relayed, reqs>>
        /\ todo' \in SUBSET reqs \/ todo' \in SUBSET todo
    BY <1>5 DEF ReadState, CostCovered, Confirmed, world, walk, history
  <2> QED
    BY <2>1 DEF PaidInv, Paid, OnlyPaidRelayed
<1>6. CASE Send \/ SendAnswerLost
  <2>1. inflight' = Append(inflight, FirstOf(todo, BatchLimit)) /\ UNCHANGED relayed
    BY <1>6 DEF Send, SendAnswerLost, history
  <2>2. /\ reqs' = reqs \/ reqs' = {}
        /\ todo' = todo \/ todo' = {}
    BY <1>6 DEF Send, SendAnswerLost, NewRound, walk
  <2> QED
    BY <2>1, <2>2, SentPaid DEF PaidInv, Paid, OnlyPaidRelayed
<1>7. CASE \/ UNCHANGED vars \/ IndexBlock \/ UpdateState \/ SelfWithdraw \/ PriceMoves
           \/ ReadCheckpoint \/ ReadIndexer \/ NextChunk \/ ViewSome \/ NothingToConsume
           \/ SaveCheckpoint \/ StateMoved
  <2>1. UNCHANGED <<inflight, relayed, reqs, todo>>
    BY <1>7 DEF vars, world, memory, history, walk, IndexBlock, UpdateState, SelfWithdraw,
         PriceMoves, ReadCheckpoint, ReadIndexer, NextChunk, ViewSome, NothingToConsume,
         SaveCheckpoint, StateMoved
  <2> QED
    BY <1>1, <2>1
<1>8. CASE ViewThrows \/ CostNotCovered \/ Reverted \/ WakeUp \/ Fail \/ SaveAnswerLost \/ Crash
  <2>1. NewRound /\ UNCHANGED <<inflight, relayed>>
    BY <1>8 DEF ViewThrows, CostNotCovered, Reverted, WakeUp, Fail, SaveAnswerLost, Crash,
                world, history
  <2> QED
    BY <1>3, <2>1
<1> QED
  BY <1>2, <1>4, <1>5, <1>6, <1>7, <1>8 DEF Next, Round, Environment, Faults

\* The relayer spends gas only on withdrawals whose user paid it
\* (OnlyPaidRelayed), under the same hypothesis on the history.
THEOREM OnlyPaidAreRelayed == AlignedChunks /\ Spec => []OnlyPaidRelayed
<1>1. AlignedChunks /\ Spec => [](TypeOK /\ RangeInv /\ CheckpointBound)
  BY InitRange, RangeStep, TypeCorrect, PTL DEF Spec
<1>2. AlignedChunks => AlignedChunks'
  BY DEF AlignedChunks, Eligible
<1>3. AlignedChunks /\ Spec => [](AlignedChunks /\ TypeOK /\ WalkInv)
  BY <1>1, <1>2, InitWalk, WalkStep, PTL DEF Spec
<1>4. AlignedChunks /\ Spec => []PaidInv
  BY <1>3, InitPaid, PaidStep, PTL DEF Spec
<1>5. PaidInv => OnlyPaidRelayed
  BY DEF PaidInv
<1> QED
  BY <1>4, <1>5, PTL
=============================================================================
